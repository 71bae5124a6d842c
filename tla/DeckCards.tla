----------------------------- MODULE DeckCards ------------------------------
(***************************************************************************)
(* The cards of a deck and decks.cards_count, which caches how many there  *)
(* are (models/card.go, api/card.go, the DELETE of models/deck.go:79-82).  *)
(* Row and count are changed by two statements outside any transaction, so *)
(* between them other requests run, and the second may never run.          *)
(***************************************************************************)
EXTENDS Integers, FiniteSets

CONSTANTS Decks, Cards,
          Imports,     \* each element is one POST .../cards or .../cards/import
          Deletes,     \* each element is one DELETE /api/cards/{id}
          MaxRows,     \* bound on the cards of an import
          MaxFaults,   \* bound on failing statements
          NoCard, NoDeck

ASSUME DeckCardsAssumption ==
  /\ IsFiniteSet(Cards) /\ IsFiniteSet(Imports) /\ IsFiniteSet(Deletes)
  /\ NoCard \notin Cards /\ NoDeck \notin Decks
  /\ MaxRows \in Nat \ {0} /\ MaxFaults \in Nat

VARIABLES deck,        \* decks: is the row there?
          home,        \* cards: the deck of each row, NoDeck without a row
          used,        \* card ids the sequence has handed out
          count,       \* decks.cards_count
          ipc, into, todo,            \* Create and ImportCSV
          dpc, card, from,            \* Delete
          faults

rows == <<deck, home, used, count>>
imports == <<ipc, into, todo>>
deletes == <<dpc, card, from>>
vars == <<rows, imports, deletes, faults>>

TypeOK ==
  /\ deck \in [Decks -> {"live", "gone"}]
  /\ home \in [Cards -> Decks \cup {NoDeck}]
  /\ used \subseteq Cards
  /\ count \in [Decks -> Int]
  /\ ipc \in [Imports -> {"idle", "insert", "count", "done"}]
  /\ into \in [Imports -> Decks \cup {NoDeck}]
  /\ todo \in [Imports -> 0..MaxRows]
  /\ dpc \in [Deletes -> {"idle", "find", "delete", "count", "done", "failed"}]
  /\ card \in [Deletes -> Cards \cup {NoCard}]
  /\ from \in [Deletes -> Decks \cup {NoDeck}]
  /\ faults \in 0..MaxFaults

Init ==
  /\ deck = [d \in Decks |-> "live"]
  /\ home = [c \in Cards |-> NoDeck]
  /\ used = {}
  /\ count = [d \in Decks |-> 0]
  /\ ipc = [i \in Imports |-> "idle"]
  /\ into = [i \in Imports |-> NoDeck]
  /\ todo = [i \in Imports |-> 0]
  /\ dpc = [r \in Deletes |-> "idle"]
  /\ card = [r \in Deletes |-> NoCard]
  /\ from = [r \in Deletes |-> NoDeck]
  /\ faults = 0

\* UPDATE decks SET cards_count = ...: no row, no error.
Recount(d, n) == count' = IF deck[d] = "live" THEN [count EXCEPT ![d] = @ + n]
                                               ELSE count

-----------------------------------------------------------------------------
(* Create, once or once per line of an import *)

\* The deck exists and is the caller's.  Create is an import of one card; of an
\* import, only the lines with both sides count.
BeginImport(i) ==
  /\ ipc[i] = "idle"
  /\ \E d \in Decks, n \in 1..MaxRows :
       /\ deck[d] = "live"
       /\ into' = [into EXCEPT ![i] = d]
       /\ todo' = [todo EXCEPT ![i] = n]
  /\ ipc' = [ipc EXCEPT ![i] = "insert"]
  /\ UNCHANGED <<rows, deletes, faults>>

\* Mutant: the loop runs once too often.
NextRowTooFar(i) ==
  /\ todo' = [todo EXCEPT ![i] = @ - 1]
  /\ ipc' = [ipc EXCEPT ![i] = IF todo[i] = 0 THEN "done" ELSE "insert"]

\* On to the next card.  ImportCSV skips one that could not be created, and
\* Create has nothing left to do.
NextRow(i) ==
  /\ todo' = [todo EXCEPT ![i] = @ - 1]
  /\ ipc' = [ipc EXCEPT ![i] = IF todo[i] = 1 THEN "done" ELSE "insert"]

\* INSERT ... RETURNING id, or the foreign key refuses a deck deleted meanwhile.
InsertCard(i) ==
  /\ ipc[i] = "insert"
  /\ \/ /\ deck[into[i]] = "live"
        /\ \E c \in Cards \ used : /\ home' = [home EXCEPT ![c] = into[i]]
                                   /\ used' = used \cup {c}
        /\ ipc' = [ipc EXCEPT ![i] = "count"]
        /\ UNCHANGED todo
     \/ /\ deck[into[i]] # "live"
        /\ NextRow(i)
        /\ UNCHANGED <<home, used>>
  /\ UNCHANGED <<deck, count, into, deletes, faults>>

\* Mutant: every card of an import adds what is left of the import.
CountUpRest(i) ==
  /\ ipc[i] = "count"
  /\ Recount(into[i], todo[i])
  /\ NextRow(i)
  /\ UNCHANGED <<deck, home, used, into, deletes, faults>>

CountUp(i) ==
  /\ ipc[i] = "count"
  /\ Recount(into[i], 1)
  /\ NextRow(i)
  /\ UNCHANGED <<deck, home, used, into, deletes, faults>>

\* Either statement fails.  A row that was inserted stays.
ImportFails(i) ==
  /\ ipc[i] \in {"insert", "count"}
  /\ faults < MaxFaults
  /\ faults' = faults + 1
  /\ NextRow(i)
  /\ UNCHANGED <<rows, into, deletes>>

-----------------------------------------------------------------------------
(* Delete *)

\* The reads of the handler itself: the card is there and its deck the caller's.
BeginDelete(r) ==
  /\ dpc[r] = "idle"
  /\ \E c \in Cards : home[c] # NoDeck /\ card' = [card EXCEPT ![r] = c]
  /\ dpc' = [dpc EXCEPT ![r] = "find"]
  /\ UNCHANGED <<rows, imports, from, faults>>

\* SELECT deck_id.
FindDeck(r) ==
  /\ dpc[r] = "find"
  /\ from' = [from EXCEPT ![r] = home[card[r]]]
  /\ dpc' = [dpc EXCEPT ![r] = IF home[card[r]] = NoDeck THEN "failed" ELSE "delete"]
  /\ UNCHANGED <<rows, imports, card, faults>>

\* DELETE: whether it deleted a row is not asked.
DeleteRow(r) ==
  /\ dpc[r] = "delete"
  /\ home' = [home EXCEPT ![card[r]] = NoDeck]
  /\ dpc' = [dpc EXCEPT ![r] = "count"]
  /\ UNCHANGED <<deck, used, count, imports, card, from, faults>>

CountDown(r) ==
  /\ dpc[r] = "count"
  /\ Recount(from[r], -1)
  /\ dpc' = [dpc EXCEPT ![r] = "done"]
  /\ UNCHANGED <<deck, home, used, imports, card, from, faults>>

DeleteFails(r) ==
  /\ dpc[r] \in {"find", "delete", "count"}
  /\ faults < MaxFaults
  /\ faults' = faults + 1
  /\ dpc' = [dpc EXCEPT ![r] = "failed"]
  /\ UNCHANGED <<rows, imports, card, from>>

-----------------------------------------------------------------------------
\* DELETE FROM decks, with the cascade to cards.
DeleteDeck(d) ==
  /\ deck[d] = "live"
  /\ deck' = [deck EXCEPT ![d] = "gone"]
  /\ home' = [c \in Cards |-> IF home[c] = d THEN NoDeck ELSE home[c]]
  /\ count' = [count EXCEPT ![d] = 0]
  /\ UNCHANGED <<used, imports, deletes, faults>>

Next ==
  \/ \E i \in Imports : \/ BeginImport(i) \/ InsertCard(i) \/ CountUp(i)
                        \/ ImportFails(i)
  \/ \E r \in Deletes : \/ BeginDelete(r) \/ FindDeck(r) \/ DeleteRow(r)
                        \/ CountDown(r) \/ DeleteFails(r)
  \/ \E d \in Decks : DeleteDeck(d)

Spec == Init /\ [][Next]_vars

-----------------------------------------------------------------------------
CardsOf(d)      == {c \in Cards : home[c] = d}
CountingUp(d)   == {i \in Imports : ipc[i] = "count" /\ into[i] = d}
CountingDown(d) == {r \in Deletes : dpc[r] = "count" /\ from[r] = d}

\* Whatever overlaps and fails, the count of a deck is off by no more than can be
\* accounted for: too high by the deletes that have still to take theirs off, too
\* low by the inserts that have still to add theirs and by the deletes of a card
\* already deleted, and either way by the statements that failed
\* (models/card.go:28-34, 61-74).
CountDriftExplained ==
  \A d \in Decks :
    LET done     == {r \in Deletes : dpc[r] \in {"count", "done"} /\ from[r] = d}
        repeated == Cardinality(done) - Cardinality({card[r] : r \in done})
        cards    == Cardinality(CardsOf(d))
    IN deck[d] = "live" =>
         /\ count[d] <= cards + Cardinality(CountingDown(d)) + faults
         /\ count[d] >= cards - Cardinality(CountingUp(d)) - repeated - faults
=============================================================================
