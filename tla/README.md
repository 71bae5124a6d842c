# A TLA+ model of rigo-api

rigo-api is the backend of a flashcard application: a Go HTTP server over
PostgreSQL, with Redis for tokens. It has no background jobs and keeps no state
between requests. Everything that is hard about it happens between the SQL
statements of handlers that run at the same time, which is also where it has no
tests. These modules describe the state-changing handlers statement by statement,
check them with TLC, and prove the central invariants with TLAPS.

## 1. The system

| Component | State | Operations that change it | Code |
|---|---|---|---|
| Study sessions | `study_sessions`, `session_cards` | Start, Answer, Complete (inside Answer), Stop | `api/session.go`, `models/session.go` |
| Card progress | `user_card_progress` | RecordFSRSReview | `models/user_card_progress.go` |
| FSRS scheduler | none (pure) | Review, the interval | `models/fsrs.go` |
| Deck mastery | `user_deck_mastery` | UpdateUserMastery | `models/deck.go:163-198` |
| User statistics | `user_stats` | seed at signup, UpdateAfterSession | `models/user_stats.go`, `models/user.go:41` |
| Cards of a deck | `cards`, `decks.cards_count` | Create, ImportCSV, Update, Delete | `models/card.go`, `api/card.go` |
| Decks | `decks` | Create, Update, Delete, visit count | `models/deck.go`, `api/deck.go` |
| Subscriptions | `subscriptions`, `users.subscribers_count` | Toggle | `models/follow.go`, `api/profile.go:110` |
| Deck ratings | `deck_ratings`, `decks.rating` | Rate | `models/rating.go` |
| Bookmarks | `bookmarks` | Toggle, Add (inside Start) | `models/bookmark.go` |
| Deck listings | none (queries) | GetAll, GetByAuthor, GetPopular, Search, the bookmarks and the decks in progress | `models/deck.go`, `api/deck.go:22-85`, `api/profile.go:54-76` |
| Documents | `documents`, `decks.header_image_url` | Upload, Delete | `models/document.go`, `api/document.go` |
| Authentication | token keys in Redis | Login, Signup, Refresh, Logout | `models/auth.go`, `api/auth.go`, `middlewares/auth.go` |
| Accounts | `users` | Create (inside Signup), UpdateProfile | `models/user.go`, `api/profile.go` |
| Wiring | none | | `main.go`, `api/helpers.go`, `middlewares/cors.go`, `db/db.go` |

How they interact. An answer goes through five components in a fixed order:

    Answer ─ RecordFSRSReview ── read user_card_progress, Review, upsert it
           ├ RecordAnswer ────── update study_sessions, insert session_cards
           ├ GetById ─────────── read the session back
           ├ UpdateUserMastery ─ count over cards and user_card_progress, upsert
           └ Complete ────────── update study_sessions, read it back,
                                 UpdateAfterSession: upsert user_stats

Components share no Go state; they meet in the tables, through foreign keys, and
through `ON DELETE CASCADE`, by which one DELETE of a card, a session or a deck
removes rows of up to six tables.

What is hard:

- **No transactions.** Only Subscribe and Unsubscribe open one. Between any two
  statements of any other handler other requests run, and the handler may fail.
- **Read, then write.** The FSRS memory, the decisions of both Toggles, EmailExists,
  the name UpdateMe falls back to, the session's deck, the tallies that Complete
  credits and today's date are all read some time before they are used.
- **Ignored errors.** GetOrCreate, GetById in Answer, UpdateUserMastery, Complete,
  Add, IsBookmarked, EmailExists, CreateAuth in Signup and Refresh, every DeleteAuth,
  the insert of the statistics row and the lists of GetMe drop their errors and go on.
- **Two clocks.** A token is good until the time signed into it; its key in Redis
  lives for a time counted from when Redis takes it. A request needs both.
- **Cached aggregates.** `cards_count`, `subscribers_count`, `mastery_percent`,
  `decks.rating` and the whole of `user_stats` repeat what other rows say.
- **Repeated requests.** No operation but Stop is idempotent.

`PROJECT.json` lists these hazards one by one, at their lines.

What makes each component correct: the statistics agree with the sessions that
were completed, and a streak with the calendar; every session is credited at most
once and with its own tallies; the memory of a card is backed by its review
counts; the log agrees with the tallies; mastery is the share of cards in state 2;
every counter agrees with its rows, or is off by no more than the overlap that
happened explains; an address has one owner; a pair of tokens works until it
expires or is logged out, and not after; a deck with a session is on a list of its
user; every request is answered.

## 2. The modules

    StatsRow ── UserStats ─────────────────── MCUserStats
       │            ▲ refined by
       ├── FSRS ─ Study ──────────────────── MCStudy
       │     │      └ StudyClient ────────── MCStudyClient
       │     │           │ refines
       │     │       StudyLedger
       │     └ Scheduler (evaluated by MCStudy)
       └ UserStatsProofs ── StudyProofs
    Subscriptions ─ MCSubscriptions          SubscriptionsProofs
    DeckCards ───── MCDeckCards              DeckCardsProofs
    Ratings ─────── MCRatings                RatingsProofs
    Documents ───── MCDocuments              DocumentsProofs
    Accounts ────── MCAccounts               AccountsProofs
    Bookmarks ───── MCBookmarks              BookmarksProofs

**StatsRow** is one row of `user_stats` and the upsert on it: `Inserted` is the
VALUES branch, `Updated` the ON CONFLICT branch, `StreakOn` the CASE expression
that the statement contains twice. Days are numbered from 1; NULL is -1, which is
nobody's yesterday. The row that signup seeds and the row that does not exist (Get
reports zeros) are both `SeedRow`; that this makes no difference to the upsert is
the lemma `InsertIsUpdateOfSeed`.

**UserStats** has many concurrent calls of UpdateAfterSession. `Call` is
SessionModel.Complete handing over a tally; `Upsert` picks any date the clock had
between the call and now, because the clock is read in Go and the upsert runs
later; `Drop` is a failed statement or a server that dies.

**FSRS** is the scheduler reduced to what other tables depend on: `reps`, `lapses`
and `state`. StateReview is called `Mastered`, after its role in UpdateUserMastery.

**Scheduler** adds the rest of a card's schedule: stability, difficulty and the
interval, in hundredths, each computed by its formula. Its powers and exponentials are
constants: tables of which `SchedulerAssumption` knows no more than the bounds that
the weight and the range of the argument give them (s^-W[9] of a stability of at least
0.1 days is at most 1.43, and so on). What a new stability can be is not assumed but
follows. The time that has passed comes in as a retrievability, any from 0 to 1.
Two things stand out. The formula
of the difficulty works on the scale 1 to 10 of FSRS, but its result is clamped to
0.01..1 (`models/fsrs.go`), so one Again or Hard makes it 1 and one Easy 0.01,
whatever it was (`DifficultySaturates`). And the growth after Hard is multiplied by
`W[15]`, which is 0: Hard leaves the interval as it was.

**Study** is the core: tables as functions, each Answer request a process with a
program counter `pc`, its request `req` and its local variables `mem`.

| Action | Code |
|---|---|
| `BeginStart`, `InsertSession`, `AddBookmark` | `api/session.go:23-63` |
| `Stop` | `models/session.go:131-136` with the cascade to `session_cards` |
| `Submit` | validation in `api/session.go:78-99` |
| `ReadProgress` | GetOrCreate and Review, `models/user_card_progress.go:50-71` |
| `RecordReview` | its upsert, `:73-106`; the foreign key refuses a deleted card |
| `BumpTally`, `LogAnswer` | the two statements of RecordAnswer |
| `LoadSession` | `api/session.go:113`, error ignored |
| `CountMastered`, `WriteMastery` | UpdateUserMastery: the snapshot of its subquery, and the write |
| `MarkCompleted`, `ReloadSession`, `CreditUser` | Complete and UpdateAfterSession |
| `StatementFails`, `HandlerDies`, `StartFails` | an error from the driver at that statement; the process ends |
| `CreateCard`, `DeleteCard`, `DeleteDeck` | the author, with the cascades of `db/database.sql` |

A session id stands for the request that starts it, so `SessionUser` and
`SessionDeck` are constants; a card id is given its deck by `CardDeck`. An answer
may name any session and any card, also one that is not there, or not yet: ids are
consecutive numbers, and the handler asks neither whether they exist nor whether they
belong together, so neither does the model. A row that does not exist reads as the
defaults the code uses for it. `early`, in the locals of an answer, is history: its
UPDATE of the tallies ran before the session had a row.

**StudyClient** restricts Study to the frontend of the comment at
`api/session.go:22`: one user sends one request at a time, for cards of the
session's deck, and nothing after the last card. No statement fails. The author is not
restrained: cards are added and deleted, and decks deleted, at any time, also between
the statements of an answer. `edited` is history: the decks whose cards changed since
UpdateUserMastery last counted them for a user. **StudyLedger** is what the feature promises, in three
variables: sessions are opened, collect answers, are closed, and their tally is
credited once, unless they are dropped before they are closed. StudyClient refines
it; the mapping (`Phase`, `Tally`, `CreditOf`) calls a session closed from the step
in which Complete has read the tally back, since from there on Stop no longer
prevents the credit.

**Subscriptions** models Toggle with its transactions. Writes become visible at
commit; the locks are those PostgreSQL holds until then: the key of an inserted or
deleted row, and the row of the creator from the UPDATE on. An INSERT with ON
CONFLICT DO NOTHING waits for both kinds of key holder; a DELETE does not see an
uncommitted insert. The foreign key checks take KEY SHARE locks, which an UPDATE of
a counter does not conflict with, and are left out.

**DeckCards** has Create and ImportCSV as a loop over cards (Create is an import of
one), Delete with its read, DELETE and UPDATE, and the deletion of a deck.

**Ratings** is one deck: who has completed it (sessions come from Study and go with
Stop), the votes, and their average in tenths. UpdateDeckRating is one SQL
statement and two steps, `TakeSnapshot` and `WriteAverage`: the subquery uses the
snapshot the statement starts with, and keeps it when the UPDATE has to wait for
the row of the deck. `late` and `students` are history: no action reads them.

**Documents** is the header image of one deck: the rows of its reference, the URL in
`decks`, and three kinds of requests that write them. Each request is used once, so
a row is named by the upload that made it. `spared`, `swept` and `sole` are history;
`sole` is the request that has made every write since its own first one.

**Accounts** has the tokens and one handler behind them.

| Action | Code |
|---|---|
| `CheckEmail`, `Create` | Signup: EmailExists, the INSERT with its unique key |
| `Enter` | Login with a right password |
| `ShowRefresh`, `Retire` | Refresh: the token is looked at, its old key deleted, a new pair signed |
| `StoreAccess`, `StoreRefresh`, `StoreFails` | the two SETs of CreateAuth |
| `EnterLogout`, `Cut`, `Drop` | Logout: the middleware, the DEL of each key |
| `EnterEdit`, `ReadProfile`, `WriteProfile` | UpdateMe: the middleware, GetById, UpdateProfile |

A pair of tokens is named by the request that made it, a user by the signup that
did. A handler that dies takes no more steps, so it needs no action. The refresh key
is stored and deleted but read by nobody: Refresh validates the signature only, so a
refresh token works until it expires, after Refresh and Logout too. Redis keeps what
it has acknowledged (its volume outlives the container); a restart from an older
snapshot is not modelled. A key lives for what was left of its token when CreateAuth
read the clock (`Left`), counted from when Redis takes it: both may be late, and
nothing is assumed of when. `unsaved`, `wanted` and `stale` are history. UpdateMe
falls back to the old values for an empty name, not for the bio, in spite of the
comment at `api/profile.go:91`; of the two only the name is modelled.

**Bookmarks** has Toggle, Start's Add, and everything that moves a deck from one
list to another; the lists are operators over its tables. Ids of decks and of
sessions are numbers, because `deck_id = id` in the subquery of four of the list
queries compares one with the other. The list of decks in progress is not one value but
a set of those that GetMe may show (`Scanned`): its query selects `d.*` into Go strings,
so a NULL `header_image_url` ends the scan, and what was read before that row, in
whatever order, is shown. `unset` has the decks with such a NULL: some of those there
at the start (only the seed of `db/database.sql:226` leaves the column out), until
their next PUT or upload. GetBookmarkedDecks is DeckModel's, which reads a NULL as ''.
`was`, `misread`, `alone` and `removed` are history: a toggle is alone while nobody else
has changed its row since its look. GetDecksBeingStudied, GetNotStartedDecks and
GetMasteredDecks have no caller and are left out.

**\*Proofs** hold the theorems; **MC\*** the constants and symmetry for TLC.

### Assumptions about the environment

- PostgreSQL at READ COMMITTED, the default, which the code never changes: one
  statement is atomic; the subquery of an upsert sees what was committed when the
  statement began, while its SET clause sees the row as it is when the lock is
  granted. The same holds of an UPDATE with a subquery on another table.
- An id is never reused (`SERIAL`).
- No endpoint deletes users, so users are constant.

## 3. The runs

| Run | Question | Bounds |
|---|---|---|
| `MCUserStats` | Do totals and streaks survive every order of completions, dates and failures? | 1 user, 4 calls, 3 days, sessions of 0 or 1 card |
| `MCUserStatsOverlap` | Is the streak the number of consecutive days? (violated) | same |
| `MCStudy` | Do arbitrary answers leave progress and log accounted for, and drive the statistics as UserStats says? | 1 user, 1 deck, 1 card, 1 session, 2 answers, 2 days, 1 failure |
| `MCStudyXp` | Is XP 10 per session and 2 per correct card? (violated) | same, 1 day, no failure |
| `MCStudyClient` | With a well-behaved frontend and an author who edits: mastery, memory, credits, refinement of the ledger; is a last answer always credited? | 1 user, 2 sessions, 2 cards, 2 answers, 2 days |
| `MCSubscriptions` | Is the count explained by the rows, and does every toggle return? | 2 users, 4 toggles, 1 failure |
| `MCDeckCards` | How far can `cards_count` be off? | 2 decks, 4 cards, 2 imports of up to 2 cards, 3 deletes, 1 failure |
| `MCRatings` | Who may have a vote, what makes `decks.rating` stale, what repairs it? | author and 2 students, 3 ratings of 2 values, 1 failure |
| `MCDocuments` | How can there be two rows, or a link to none, and does a lone request settle it? | 3 uploads, 2 removals, 1 edit, 2 failures |
| `MCAccounts` | Who owns an address, which tokens are let in and for how long, whose name survives? | 1 address, 2 signups, 1 login, 1 refresh, 1 logout, 2 edits; tokens of 2 and 3 hours, 2 hours, 1 failure |
| `MCBookmarks` | What do overlapping toggles and starts leave, and is a studied deck listed? | 1 user, 2 decks, 2 toggles, 2 starts, 1 failure |
| `MCBookmarksFlags` | Does `has_active_session` in the lists say what it says on the page of the deck? (violated) | 2 users, 2 decks, 2 toggles, 2 starts, 1 failure |

Why these bounds are enough. The rows of different users, cards and decks do not
interact, except in the sum for mastery (two cards) and in the locks of
subscriptions (two users, in both directions). Every race in this code is between
two requests, and a third or fourth shows whether the damage adds up. Three days
give a streak that grows, a day without a session, and a date that goes back; a
fourth call gives a second session on one of them. Two ratings, 1 and 3, take every
branch that the counters see except the first Hard review, which differs from Good
only in the state; the proofs are about all four. One failure is enough to stop a
handler between any two statements. A third rating meets what two overlapping ones
left, and a third upload two rows; the two failures of `MCDocuments` let a DELETE fail
and a later statement, too. The requests of one user are
what `MCStudyClient` orders, so a second user would only repeat the first. The list of decks in progress takes two decks (one without a
header image hides the other) and one user, for rows of other users are in nobody's
list. In `MCAccounts` the "hours" stand for the 15 minutes and 7 days: an access token
expires while requests are under way, an hour may pass between its signing and the SET
of its key, its refresh token outlives it, and the key goes with or after it. A refresh
token does not expire within the two hours; for that, as for more sessions of a user,
there are the theorems. Two runs compare states
by a `VIEW`. That of `MCAccounts` leaves out `rkey`: the code stores that key and deletes
it, and no guard and no property but its type reads it. That of `MCStudy` leaves out the
locals of an answer that none of its later steps reads, and no property. The bounds are the constants `MaxDay`,
`MaxCards`, `MaxRows`, `MaxTime`, `MaxFaults`, and the sizes of the sets; no other counter is
cut off.

Deadlock is checked where requests wait for each other (`MCSubscriptions`, with
`Finished` as the one state in which all may rest). In the other models no
statement waits, and a run ends when all requests are used up.

What the properties say:

- `StreakNeverOverstated`: the days a streak claims all had a session, in whatever
  order the upserts arrive. `StreakFollowsDays`: while they arrive in the order of
  their dates, both streak columns are also exact.
- `TotalsAddUp`: `total_sessions`, `total_cards_studied` and `total_correct` are the
  number and the sums of the calls that succeeded, so no increment is lost or applied
  twice, and XP is what they give by the formula. A call that failed adds nothing, and
  nothing makes up for it: the session it was for stays uncredited.
- `MemoryAccounted`: `reps + lapses` never exceeds `times_reviewed`, and a lapse is
  never among the correct answers. Overlapping reviews of a card may lose one
  memory, so equality (`MemoryExact`) holds only with the well-behaved frontend.
- `LogCounted`: every row of `session_cards` is counted in its card's progress and in
  its session, whatever is deleted meanwhile, but for an answer to a session id that was
  handed out only after the answer had updated the tallies.
- `DrivesStats`: every behaviour of Study, seen through `StatsCall`, is one of
  UserStats; what UserStats keeps, Study keeps.
- `MasteryFresh`: between two requests of a user, `mastery_percent` is the share of
  mastered cards, unless the author added or deleted a card since it was last counted:
  that recomputes nothing, and the next answer of the user makes up for it, for this
  user.
- `KeepsLedger`, `CreditIsSum`: each session is credited at most once, with exactly
  its tallies; the user's totals are the sums over the credited sessions.
- `LastAnswerCredits`: the last answer leads to the credit, unless its session or its
  card is removed first.
- `CountAccounted`: `subscribers_count` is the number of rows plus one for each
  Subscribe that found its row there. `DecrementNeverHeldBack`: so the guard
  `subscribers_count > 0` is never what stops a decrement. `EveryToggleReturns`.
- `CountDriftExplained`: the drift of `cards_count` is bounded by requests between
  their two statements, deletes of a card already deleted, and failures. Without
  those it is exact.
- `VotesEarned`: however late the answer of CanRate is used, only students of the deck
  who did not write it have a vote. `AverageAccounted`: the average is stale only while
  a rating is between its statements, after one that failed there, or after a vote that
  came between snapshot and write of another. `LoneRatingRepairs`: the next rating no
  vote comes in between makes it exact.
- `RowsAccounted`: a reference has two rows only if one upload was spared by the DELETE
  of the other. `DeadLinkAccounted`: the four ways to a URL without a document.
  `LoneUploadSettles`, `LoneRemovalClears`: a request nobody writes in between of leaves
  row and link together, whatever it found.
- `SignupOwnsEmail`: of two signups with one address that both passed EmailExists only
  one is answered with tokens. `IssuedWorks`: a pair that was handed out is let in until
  it expires, unless it was itself logged out or Redis never took its key.
  `LogoutHolds`: once its key is deleted a pair is never let in again, whatever is stored
  or deleted around it. `NameAccounted`: a name that was asked for is lost only to an edit
  that did not ask for one and had read the older name.
- `LoneToggleFlips`: a toggle with no other write in between turns the bookmark around,
  except that a failed look makes it add. `StudiedIsListed`: while a session whose Start
  added the bookmark is there, its deck is among the bookmarks and, until it is mastered,
  in whatever list of decks in progress is shown, unless a toggle has removed it since
  or a deck without a header image cuts that list short.
- `SchedulerOnEdges` (an ASSUME of MCStudy, evaluated on every run of it): the interval
  is 1 to 365 days and grows with the stability; a review leaves stability and difficulty
  in their ranges, with the curves of the code drawn as straight lines between a few of
  their points; the difficulty saturates; a better first rating is due later. It samples
  the values around every border of a clamp.

### What the code does otherwise

Three runs end in a counterexample, and stay as records of it:

- `MCStudyXp`: Complete (`models/session.go:74`) does not ask whether the session is
  complete already. A last answer that is sent again pays the session again.
- `MCUserStatsOverlap`: an upsert dated yesterday that runs after one dated today
  takes the ELSE branch (`models/user_stats.go:62`): the streak becomes 1 and
  `last_study_date` goes back, although both days were studied.
- `MCBookmarksFlags`: in GetAll, GetByAuthor, GetPopular and Search the subquery
  `WHERE deck_id = id` (`models/deck.go:92`) compares two columns of
  `study_sessions`, so has_active_session depends on whether some session happens to
  have the number of its deck, and is the same for every deck of the list. GetById and
  GetBookmarkedDecks, which qualify the column, are right.

More show in the terms of the invariants, which say what makes a value wrong and that
nothing else does:

- Subscribe raises the count although its insert did nothing (`models/follow.go:44`):
  the second sum of `CountAccounted`.
- Of two overlapping ratings the one whose UPDATE began first, and so saw one vote
  less, may write last (`models/rating.go:80`); the average stays without that vote
  until somebody rates the deck again (`late` in `AverageAccounted`).
- An answer to a session id that is handed out while it is under way is in
  `session_cards` and in no tally: the UPDATE of `models/session.go:55` finds no row, which
  is no error, and the INSERT at line 65 finds one (`early` in `LogCounted`).
- Adding or deleting a card (`models/card.go:20, 68`) leaves every `mastery_percent` of the
  deck as it was, so a mastered deck with a new card stays mastered until its user answers
  again (`edited` in `MasteryFresh`).
- A deck without a `header_image_url` hides other decks: the lists of the profile page stop
  at its row (`models/bookmark.go:70`) and the error is dropped (`api/profile.go:67`). The
  seed deck is such a deck (the last excuse of `StudiedIsListed`).
- A failed read in GetOrCreate resets the memory of a card: why `MemoryAccounted` is an
  inequality in `MCStudy`.
- A second delete of a card takes another one off `cards_count` (`repeated` in
  `CountDriftExplained`).
- An upload that fails in Upsert has removed the old document and leaves the URL to it
  (`"lost"` in `DeadLinkAccounted`).
- Signup and Refresh hand out tokens that Redis did not take, which every request with
  them is refused for (`unsaved` in `IssuedWorks`, `api/auth.go:85`); Logout answers 200
  although the key is still there (`"kept"`, which `LogoutHolds` leaves out).
- A look of Toggle that fails reads as "not bookmarked" (`misread` in
  `LoneToggleFlips`, `models/bookmark.go:25`).

### Fairness

`HandlersRun` (StudyClient) and `FairSpec` (Subscriptions) assume weak fairness of
each handler's own steps: net/http runs every handler in a goroutine to its end,
statements without lock waits finish, and PostgreSQL grants a row lock once it is
free. Nothing is assumed about clients: they may never send a request, and
`Stop`, `DeleteDeck`, `NextDay` need never happen. In Subscriptions a handler that
waits for a lock is not enabled; weak fairness suffices because the lock order (row
of `subscriptions`, then row of `users`) lets some holder always go on, and each
request passes the lock once.

## 4. The proofs

All proofs are for arbitrary constants that satisfy the named assumptions
(`StatsAssumption`, `StudyAssumption`, `SubscriptionsAssumption`,
`DeckCardsAssumption`, `RatingsAssumption`, `DocumentsAssumption`,
`AccountsAssumption`, `BookmarksAssumption`, `SchedulerAssumption`): any finite number
of calls, cards, answers, imports, deletes and toggles, any number of users, days,
tokens and failures. The finite sets are those whose elements are counted or summed.

### UserStatsProofs

- `InsertIsUpdateOfSeed`: the INSERT branch of the upsert writes exactly what the
  UPDATE branch makes of the row signup seeds. Signup ignores the error of that seed
  insert (models/user.go:41-42); this is why it does not matter. `StreakCases` and
  `UpdatedType` are the other lemmas about one row.
- `TypeCorrect`. `TypeOK` is inductive as it stands (`InitType`, `NextType`).
- `StreakTheorem`: `Spec => []StreakNeverOverstated`. The property is inductive once it
  is read as a claim about one row and one set of days (`RowSound`): an upsert keeps it
  for the days it may count (`UpdatedSound`), the set of days only grows
  (`StudyDaysGrow`), and the claim survives a larger set (`SoundMonotone`).
- `ExactTheorem`: `Spec => StreakFollowsDays`, an action property: a step that does not
  move `last_study_date` back leaves both streak columns exactly those of the days
  studied. The argument is one lemma about the row (`UpdatedExact`: the day is the last
  studied, the one after it, or one after a gap), carried to the state by
  `UpsertEffect` (what the upsert changes) and `StudyDaysStay` (nothing else changes the
  days or the row). It isolates the cause of the violation `MCUserStatsOverlap` shows:
  dates that arrive out of order, and nothing else.
- `TotalsTheorem`: `Spec => []TotalsAddUp`. Not inductive: `total_correct <=
  total_cards_studied` needs the same of the calls not yet run, which `TotalsInv` adds.
  The row of a user and the set of calls counted in it change together (`TotalsOf`): one
  call more, and its cards on top (`UpdatedTotals`, `SumOneMore`), or neither
  (`TotalsKept`). The sums are `SumFunctionOnSet`, whose fold is unfolded one element at a
  time (`FoldExists`, `FoldUnique`, `SumStep`); these lemmas are proved by taking a
  smallest finite set they fail for (`BySize`), because an induction theorem that takes
  the statement as an operator is of no use to the provers.

### StudyProofs

- `ReviewAddsOne`: a review adds one to exactly one of reps and lapses, and a lapse is
  exactly an Again.
- `TypeCorrect`: `TypeOK` of all tables, requests and locals; with `PercentType`,
  mastery_percent satisfies its CHECK (db/database.sql:140) in every reachable state.
- `MemoryTheorem`: `Spec => []MemoryAccounted`. Not inductive: the memory a request
  computed may be written long after the row it was read from changed. `PendingMemory`
  adds that such a memory is still acceptable to the row (`Accepts`), which holds because
  the review counts of a row only grow while the card exists; a card that is deleted
  takes its rows along, and a request for one that does not exist yet finds no counts and
  starts from nothing. `MemoryFrame` settles every step that writes no progress.
- `LogTheorem`: `Spec => []LogCounted`. `LogInv` adds to the rows of `session_cards` the
  answers on their way there: one past the tally is in the tally of its session
  (`TallyCounts`) unless it was early, one past the progress in the progress of its card
  (`ProgressCounts`), unless the session or the card has been deleted, which takes its log
  rows along. `TallyStep` and `ProgressStep` say what a step can do to a tally and to a
  row of progress. A card that does not exist yet has no answer past its progress, for the
  foreign key refuses it; a session that does not exist yet may have one past its tally,
  and that one is early.
- `RefinementTheorem`: `Spec => DrivesStats`. Each step of a handler is a call, an upsert
  or a drop of UserStats, a new day, or a stutter (`Calls`, `Upserts`, `Drops`,
  `OwnCallStays`, together `StepImplements`). A call must be one UserStats allows, with
  `total_correct <= total_cards_studied` and no more cards than it has bounds for:
  `TallyBound` says so of the session the handler reads it from, whose counts are at most
  the answers past their tally.
- `StudyStreakTheorem`, `StudyTotalsTheorem`, `StudyExactTheorem`: what the refinement is
  for. `StreakNeverOverstated`, `TotalsAddUp` and `StreakFollowsDays` hold of the study
  handlers. UserStatsProofs is instantiated with the calls the answers make
  (`StatsFacts`); `SameStatistics` and `StatsParameters` say that this is the UserStats
  the handlers refine, and that it meets the assumption of those theorems.

The next four are about `ClientSpec`, so about users who send one request at a time,
authors who edit whenever they like, and statements that do not fail. They share `OrderInv`:
a user has one request under way (`OneRequest`), an answer is to a card of its session's own
deck (`OwnDeck`), and its session is there as long as the deck is (`SessionStays`).
`SubmittedInv`: this frontend has been given the ids it sends. `AnswerFrame` says what no
step of an answer touches.

- `ExactMemoryTheorem`: `ClientSpec => []MemoryExact`. `ReviewCurrent`: the memory about to
  be written is the review of the one that is there, so the write adds one to both sides.
- `MasteryTheorem`: `ClientSpec => []MasteryFresh`. `Shown`: a percentage that is not
  right is due to an edit or to an answer between its review and its write; `Loaded` and
  `CountedRight`: that answer knows the deck and, at its write, the right percentage, unless
  an edit came after its count; `EditKnown`: it ends without a count only if an edit deleted
  its card. `PercentStays` says what a percentage depends on.
- `LedgerTheorem`: `ClientSpec => KeepsLedger`. `LedgerInv`: a row that is not there counts
  nothing, and a session has one last answer, with which its answers end. So a session has
  one closer, and what that has in hand is the tally. One lemma for each step of the ledger
  (`Opens`, `Counts`, `Closes`, `Credits`, `SessionsGo`); `PhaseStays` and `TallyStays` show
  that every other step is a stutter.
- `CreditTheorem`: `ClientSpec => []CreditIsSum`. The invariant is `SumsHold`: the totals of
  a user are the sums of the tallies over the sessions credited to him. A step of the ledger
  that credits a session adds it to that set, once (`Entered`), and its tally to the sum
  (`LedgerSumsGrow`); in any other the tallies of the credited sessions stay
  (`LedgerSumsStay`). So it rests on the refinement: that a credited session has no more
  answers to come, and is not credited again, is what `LedgerInv` says. What
  sums are made of is proved in UserStatsProofs.

### SubscriptionsProofs

- `TypeCorrect`. `TypeOK` is inductive.
- `CountTheorem`: `Spec => []CountAccounted`. The strengthening is `RowHeld`: a
  transaction that has inserted or deleted its row is the only one that holds it, and
  the committed table still shows the row as the transaction found it. Without it a
  commit could add a row that is already in the set, and the two sides would part.
  `CommitUp` and `CommitDown` are the two steps that change the count; `AccountsStay`
  settles the others.
- `DecrementTheorem`: `Spec => []DecrementNeverHeldBack`, from `CountTheorem` and
  `RowHeld` (`CountCoversDecrement`): the row about to be deleted is itself one of those
  counted, so the guard `subscribers_count > 0` never hides a lost decrement.

### DeckCardsProofs

- `TypeCorrect`. `TypeOK` needs `Ready`: an import at work has rows left and a deck, an
  accepted delete its card and then its deck.
- `CountTheorem`: `Spec => []CountDriftExplained`. Not inductive, for two reasons. A card
  that is deleted must be one of its deck, and a delete that finds no row must be a second
  one for its card: `Traced` says that an id is handed out once and that the card of a
  delete is in the deck it was found in or gone. And the bounds of the property let go of
  what the next step needs: in `Balanced` the deletes of a deck (`Taken`) and the cards
  they took (`Removed`) are weighed up with the requests between their statements,
  `CountingUp` and `CountingDown`. Each statement moves one request, or one card, from one
  of these sets to another, so it changes both sides alike; a failure is what the term
  `faults` pays for. There is one lemma for each action (`InsertBalanced`,
  `CountUpBalanced`, `DeleteRowBalanced`, `CountDownBalanced`, ...); `BalanceExplains`
  goes back to the property. The invariant was run through TLC at the bounds of
  `MCDeckCards` first.
- `QuietTheorem`: so with nothing under way, no failure and no card deleted twice
  `cards_count` is exact. The drift is a matter of overlap, failure and repetition, and of
  nothing else.

### RatingsProofs

- `TypeCorrect`: `TypeOK`, in which `decks.rating` is the average of some votes. Its range is
  not part of it: that needs the bounds of a sum, not only what a step adds to it.
- `EarnedTheorem`: `Spec => []VotesEarned`. Not inductive: `EarnedInv` adds that a call
  on its way to the upsert is of a student who is not the author.
- `AverageTheorem` and `RepairTheorem` (`AverageAccounted`, `LoneRatingRepairs`). Both
  rest on `SnapshotCurrent`: a snapshot no vote has come after shows the votes there
  are. With it a write either makes the average exact or leaves an excuse behind
  (`ExcuseStays`), and an excuse of the other kinds never goes away.

### DocumentsProofs

- `TypeCorrect`. `TypeOK` is inductive.
- `RowsTheorem`: `Spec => []RowsAccounted`; `RowsInv` adds that an upload about to
  insert has been spared every row there is.
- `SoleTheorem` and its half `RemovalTheorem`: `LoneUploadSettles` and
  `LoneRemovalClears`; `SoleInv` says what the sole writer has done at each of its steps.
- `DeadLinkTheorem`: `Spec => []DeadLinkAccounted`; `LinkInv` adds that an upload about to
  link has its row in the table, or has had it deleted. It needs `GoneInv`, for the
  removal whose deck is gone and whose UPDATE finds no row.

### AccountsProofs

- `TypeCorrect`. The last two conjuncts of `TypeOK` need a strengthening: a name an edit
  holds is there for an owner (`Kept`), and requests past the middleware act for a user.
- `OwnerTheorem`: `Spec => []SignupOwnsEmail`. Inductive with `TypeOK`: no step takes an
  address away, and `Create` gives one only where there is none.
- `IssuedTheorem`: `Spec => []IssuedWorks`. `WithPair` says it of a pair from the first
  SET on, when it is not yet handed out. The key of a pair goes by itself not before the
  token, however late CreateAuth read the clock or Redis took the key: `KeyRange` derives
  it from what CreateAuth subtracts. `Cut` is the only step that deletes a key.
- `LogoutTheorem`: `Spec => []LogoutHolds`. `Gone` adds that a key once deleted is not
  stored again: the pair was issued, so its own SETs are behind it.
- `NameTheorem`: `Spec => []NameAccounted`. The strengthening is about the edits still to
  write (`HeldAccounted`: one without a name holds the name of its user, or is `stale`)
  and about what the last of them wrote (`WroteStale`).

### BookmarksProofs

- `TypeCorrect`. `TypeOK` is inductive.
- `ToggleTheorem`: `Spec => []LoneToggleFlips`. `Lone` says of a toggle that has looked and
  not yet written that its row is as it was seen, or its look failed.
- `ListTheorem`: `Spec => []StudiedIsListed`. `OwnSession` ties a session to the Start that
  made it, by an id no other session has; `Shelved` says that its row is bookmarked while
  the deck is there, or was removed by a toggle. If no deck in progress has its header
  image unset, the scan is complete and the list is one.

### The scheduler (in StudyProofs)

These assume of the powers and exponentials in the stability nothing but bounds
(`SchedulerAssumption`); `RecallRange` and `ForgetRange` take those through the formulas.

- `ReviewInRange`: whatever a review makes of a card is in the ranges again. Nothing in
  the code clamps the stability of a lapse from above; that it stays far below a year is
  what its formula gives.
- `RecallKeepsInterval`: the factor of a recall is never negative, and zero for Hard, whose
  weight is 0, so no answer but Again brings a card forward and Hard leaves it where it was.
- `LapseComesSoon`: a forgotten card is due within 26 days, whatever its stability was.
- `IntervalTheorem`: every stability is due after 1 to 365 days, in order.
  `SaturationTheorem`: the difficulty after Again, Hard and Easy does not depend on what it
  was.

Model-checked only: the liveness properties `LastAnswerCredits` and `EveryToggleReturns`
(TLAPS does not treat fairness), and `SchedulerOnEdges`, whose clauses about growth,
range and saturation have theorems of their own; that a better first rating is due
later is a fact about constants of the code. The three properties of the violated runs
are false.

## 5. Not modelled

- The values of the powers and exponentials in FSRS; Scheduler knows their bounds, and
  `MCStudy` a few of their points. `next_review` is the interval counted from the time of the review, and
  due cards are a query on it.
- The text of cards, decks and profiles; order, paging and search text of the lists;
  read-only pages; JSON, routing, CORS, the connection pools, the start of the server.
- Signing of tokens and hashing of passwords (libraries): a token is what it was signed
  to be.
- The rating of 4.5 that the seed deck has without a vote (`db/database.sql:226`): in
  Ratings a deck starts with no votes and 0.0, and the first rating of the seed deck
  replaces what the seed has.
- A Redis that restarts from an older snapshot and so brings deleted keys back.
- Integer width: the counters are PostgreSQL INTs and grow by one per request.

## 6. Plan

Done: StatsRow, UserStats, FSRS, Scheduler, Study, StudyClient, StudyLedger,
Subscriptions, DeckCards, Ratings, Documents, Accounts, Bookmarks, and the proofs of
section 4. What is left:

1. The range of `decks.rating`, from bounds of the sum of the votes.
2. Due cards: `next_review` in the rows of Study, and the lists drawn from it.
