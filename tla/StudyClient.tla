---------------------------- MODULE StudyClient -----------------------------
(***************************************************************************)
(* The study handlers with the frontend they are written for               *)
(* (api/session.go:22: "The frontend holds the queue and presents cards;   *)
(* each call to /answer records the result"): one user, one request at a   *)
(* time, the cards of the session's own deck, nothing after the last card. *)
(* Nothing fails.  The author may edit or delete the deck at any time, and *)
(* other users study at the same time.                                     *)
(***************************************************************************)
EXTENDS Study

\* Answers are numbered in the order in which they are sent.
ASSUME ClientAssumption == Answers \subseteq Nat

\* History: the decks whose cards the author added to or deleted from since the
\* statement that computes a user's mastery of them last counted.
VARIABLE edited

clientVars == <<vars, edited>>

Busy(u) == \/ \E a \in Answers : pc[a] \in Steps /\ req[a].user = u
           \/ \E s \in Sessions : /\ SessionUser[s] = u
                                  /\ start[s] \in {"insert", "bookmark"}

\* The request of answer a is one this frontend sends.
Presented(a) ==
  LET r == req'[a] IN
    /\ r.user = SessionUser[r.session]
    /\ card[r.card] # "new"
    /\ CardDeck[r.card] = SessionDeck[r.session]
    /\ session[r.session].live
    /\ \A b \in Answers : pc[b] # "idle" /\ req[b].last
                             => req[b].session # r.session
    /\ ~Busy(r.user)
    /\ \A b \in Answers : b < a => pc[b] # "idle"

\* Every user's mastery of a deck becomes dated when its cards change, and one
\* user's is up to date when UpdateUserMastery has counted.
EditsTracked ==
  LET changed == {d \in Decks : CardsOf(d)' # CardsOf(d)}
      counted == {<<req[a].user, mem[a].deck>> : a \in {b \in Answers : CountMastered(b)}}
  IN edited' = (edited \cup (Users \X changed)) \ counted

Moves ==
  \/ \E s \in Sessions : \/ BeginStart(s) /\ ~Busy(SessionUser[s])
                         \/ InsertSession(s)
                         \/ AddBookmark(s)
  \/ \E u \in Users, d \in Decks : Stop(u, d) /\ ~Busy(u)
  \/ \E a \in Answers : \/ Submit(a) /\ Presented(a)
                        \/ Answer(a)
  \/ \E c \in Cards : CreateCard(c) \/ DeleteCard(c)
  \/ \E d \in Decks : DeleteDeck(d)
  \/ NextDay

ClientNext == Moves /\ EditsTracked

\* net/http runs every handler to its end, and no statement waits for ever.
HandlersRun == /\ \A s \in Sessions : WF_vars(InsertSession(s) \/ AddBookmark(s))
               /\ \A a \in Answers : WF_vars(Answer(a))

ClientInit == Init /\ edited = {}
ClientSpec == ClientInit /\ [][ClientNext]_clientVars /\ HandlersRun

-----------------------------------------------------------------------------
\* mastery_percent is the share of the cards of the deck that the user has in
\* state 2 whenever the user is not in the middle of a request, unless the author
\* added or deleted a card since UpdateUserMastery last counted for this user: that
\* edit recomputes nothing and may fall before the count is written
\* (models/deck.go:163-199, models/card.go:20, 68).
MasteryFresh ==
  \A u \in Users, d \in Decks :
    (deck[d] = "live" /\ ~Busy(u) /\ <<u, d>> \notin edited)
       => mastery[u][d] = Percent(u, d)

\* No review is lost: the memory of a card holds every review that was counted.
MemoryExact ==
  \A u \in Users, c \in Cards :
    LET row == progress[u][c] IN
      row.memory.reps + row.memory.lapses = row.times_reviewed

-----------------------------------------------------------------------------
(* The ledger this implements *)

Closer(s) == {a \in Answers : pc[a] \in {"credit", "credited"} /\ req[a].session = s}

Phase(s) ==
  IF start[s] \in {"idle", "insert", "refused"} THEN "none"
  ELSE IF Closer(s) = {} THEN IF session[s].live THEN "open" ELSE "dropped"
  ELSE IF \E a \in Closer(s) : pc[a] = "credited" THEN "credited" ELSE "closed"

\* A closed session has handed its tally over; the row may be gone since.
Tally(s) ==
  IF Closer(s) = {}
    THEN [answers |-> session[s].cards_studied, correct |-> session[s].correct_count]
    ELSE LET a == CHOOSE a \in Closer(s) : TRUE
         IN [answers |-> mem[a].studied, correct |-> mem[a].correct]

CreditOf(u) == [sessions |-> stats[u].total_sessions,
                answers  |-> stats[u].total_cards_studied,
                correct  |-> stats[u].total_correct]

Ledger == INSTANCE StudyLedger WITH phase  <- [s \in Sessions |-> Phase(s)],
                                    tally  <- [s \in Sessions |-> Tally(s)],
                                    credit <- [u \in Users |-> CreditOf(u)]

\* The handlers implement the ledger: each session is closed and credited at
\* most once, with the tally of its answers, and a session that is stopped or
\* deleted first is never credited (models/session.go:72-91).
KeepsLedger == Ledger!Spec

\* What the ledger promises about sums, read off the tables.
CreditIsSum == Ledger!CreditIsSum

\* The last answer of a session leads to its credit, unless the session was
\* removed before Complete read it back, or the author deleted the card.
LastAnswerCredits ==
  \A a \in Answers :
    (pc[a] = "read" /\ req[a].last) ~>
       (pc[a] = "credited" \/ (pc[a] # "idle" /\ (\/ ~session[req[a].session].live
                                                 \/ card[req[a].card] = "gone")))
=============================================================================
