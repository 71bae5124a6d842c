-------------------------- MODULE DeckCardsProofs ---------------------------
(***************************************************************************)
(* Proofs about the cards of a deck and their cached count.                *)
(***************************************************************************)
EXTENDS DeckCards, Functions, FiniteSetTheorems, TLAPS

-----------------------------------------------------------------------------
(* Types *)

\* What the steps of a request need of itself: an import has rows left and knows
\* its deck, a delete that was accepted knows its card and then its deck.
Ready ==
  /\ \A i \in Imports : ipc[i] \in {"insert", "count"} =>
                          into[i] \in Decks /\ todo[i] # 0
  /\ \A r \in Deletes :
       /\ dpc[r] # "idle" => card[r] \in Cards
       /\ dpc[r] \in {"delete", "count", "done"} => from[r] \in Decks

LEMMA InitType == Init => TypeOK /\ Ready
  BY DeckCardsAssumption DEF Init, TypeOK, Ready

\* A step of NextRow leaves the rows of an import counted.
LEMMA NextRowType ==
  ASSUME TypeOK, Ready, NEW i \in Imports, ipc[i] \in {"insert", "count"}, NextRow(i)
  PROVE  /\ ipc' \in [Imports -> {"idle", "insert", "count", "done"}]
         /\ todo' \in [Imports -> 0..MaxRows]
         /\ ipc'[i] \in {"insert", "count"} => todo'[i] # 0
         /\ \A j \in Imports \ {i} : ipc'[j] = ipc[j] /\ todo'[j] = todo[j]
<1>1. todo[i] \in 1..MaxRows
  BY DeckCardsAssumption DEF TypeOK, Ready
<1>2. todo[i] - 1 \in 0..MaxRows
  BY <1>1, DeckCardsAssumption
<1>3. todo' = [todo EXCEPT ![i] = todo[i] - 1]
  BY DEF NextRow
<1>4. ipc' = [ipc EXCEPT ![i] = IF todo[i] = 1 THEN "done" ELSE "insert"]
  BY DEF NextRow
<1> QED
  BY <1>1, <1>2, <1>3, <1>4, DeckCardsAssumption DEF TypeOK

\* The count of a deck that is there moves by n, that of any other deck stays.
LEMMA RecountMoves ==
  ASSUME TypeOK, NEW e \in Decks, NEW n \in Int, Recount(e, n)
  PROVE  /\ count' \in [Decks -> Int]
         /\ deck[e] = "live" => count'[e] = count[e] + n
         /\ \A d \in Decks \ {e} : count'[d] = count[d]
<1>1. CASE deck[e] = "live"
  <2>1. count' = [count EXCEPT ![e] = count[e] + n]
    BY <1>1 DEF Recount
  <2>2. count[e] + n \in Int
    BY DEF TypeOK
  <2> QED
    BY <1>1, <2>1, <2>2 DEF TypeOK
<1>2. CASE deck[e] # "live"
  BY <1>2 DEF Recount, TypeOK
<1> QED
  BY <1>1, <1>2

LEMMA NextType == TypeOK /\ Ready /\ [Next]_vars => TypeOK' /\ Ready'
<1> SUFFICES ASSUME TypeOK, Ready, [Next]_vars PROVE TypeOK' /\ Ready'
  OBVIOUS
<1> USE DeckCardsAssumption
<1>1. ASSUME NEW i \in Imports, BeginImport(i) PROVE TypeOK' /\ Ready'
  <2>1. PICK d \in Decks, n \in 1..MaxRows :
          /\ into' = [into EXCEPT ![i] = d]
          /\ todo' = [todo EXCEPT ![i] = n]
    BY <1>1 DEF BeginImport
  <2>2. TypeOK'
    BY <1>1, <2>1 DEF BeginImport, TypeOK, rows, deletes
  <2>3. Ready'
    BY <1>1, <2>1 DEF BeginImport, TypeOK, Ready, rows, deletes
  <2> QED
    BY <2>2, <2>3
<1>2. ASSUME NEW i \in Imports, InsertCard(i) PROVE TypeOK' /\ Ready'
  <2>1. CASE ipc' = [ipc EXCEPT ![i] = "count"] /\ UNCHANGED todo
    <3>1. \/ \E c \in Cards \ used : /\ home' = [home EXCEPT ![c] = into[i]]
                                     /\ used' = used \cup {c}
          \/ UNCHANGED <<home, used>>
      BY <1>2 DEF InsertCard
    <3>2. home' \in [Cards -> Decks \cup {NoDeck}] /\ used' \subseteq Cards
      BY <3>1 DEF TypeOK
    <3> QED
      BY <1>2, <2>1, <3>2 DEF InsertCard, TypeOK, Ready, deletes
  <2>2. CASE NextRow(i) /\ UNCHANGED <<home, used>>
    <3>1. ipc[i] \in {"insert", "count"}
      BY <1>2 DEF InsertCard
    <3> QED
      BY <1>2, <2>2, <3>1, NextRowType DEF InsertCard, TypeOK, Ready, deletes
  <2> QED
    BY <1>2, <2>1, <2>2 DEF InsertCard
<1>3. ASSUME NEW i \in Imports, CountUp(i) PROVE TypeOK' /\ Ready'
  <2>1. ipc[i] \in {"insert", "count"} /\ NextRow(i)
    BY <1>3 DEF CountUp
  <2>2. count' \in [Decks -> Int]
    BY <1>3, RecountMoves DEF CountUp, Ready
  <2> QED
    BY <1>3, <2>1, <2>2, NextRowType DEF CountUp, TypeOK, Ready, deletes
<1>4. ASSUME NEW i \in Imports, ImportFails(i) PROVE TypeOK' /\ Ready'
  <2>1. ipc[i] \in {"insert", "count"} /\ NextRow(i)
    BY <1>4 DEF ImportFails
  <2>2. faults' \in 0..MaxFaults
    BY <1>4 DEF ImportFails, TypeOK
  <2> QED
    BY <1>4, <2>1, <2>2, NextRowType DEF ImportFails, TypeOK, Ready, rows, deletes
<1>5. ASSUME NEW r \in Deletes, BeginDelete(r) PROVE TypeOK' /\ Ready'
  BY <1>5 DEF BeginDelete, TypeOK, Ready, rows, imports
<1>6. ASSUME NEW r \in Deletes, FindDeck(r) PROVE TypeOK' /\ Ready'
  <2>1. home[card[r]] \in Decks \cup {NoDeck}
    BY <1>6 DEF FindDeck, TypeOK, Ready
  <2> QED
    BY <1>6, <2>1 DEF FindDeck, TypeOK, Ready, rows, imports
<1>7. ASSUME NEW r \in Deletes, DeleteRow(r) PROVE TypeOK' /\ Ready'
  BY <1>7 DEF DeleteRow, TypeOK, Ready, imports
<1>8. ASSUME NEW r \in Deletes, CountDown(r) PROVE TypeOK' /\ Ready'
  <2>1. count' \in [Decks -> Int]
    BY <1>8, RecountMoves DEF CountDown, Ready
  <2> QED
    BY <1>8, <2>1 DEF CountDown, TypeOK, Ready, imports
<1>9. ASSUME NEW r \in Deletes, DeleteFails(r) PROVE TypeOK' /\ Ready'
  BY <1>9 DEF DeleteFails, TypeOK, Ready, rows, imports
<1>10. ASSUME NEW d \in Decks, DeleteDeck(d) PROVE TypeOK' /\ Ready'
  BY <1>10 DEF DeleteDeck, TypeOK, Ready, imports, deletes
<1>11. CASE UNCHANGED vars
  BY <1>11 DEF vars, rows, imports, deletes, TypeOK, Ready
<1> QED
  BY <1>1, <1>2, <1>3, <1>4, <1>5, <1>6, <1>7, <1>8, <1>9, <1>10, <1>11 DEF Next

\* Every row, counter and request the model can reach is of its type: an import
\* never has rows left to count below zero (api/card.go:79-97).
THEOREM TypeCorrect == Spec => []TypeOK
<1>1. Init => TypeOK /\ Ready
  BY InitType
<1>2. TypeOK /\ Ready /\ [Next]_vars => (TypeOK /\ Ready)'
  BY NextType
<1> QED
  BY <1>1, <1>2, PTL DEF Spec

-----------------------------------------------------------------------------
(* Requests and their cards *)

\* Card ids are handed out once, so the card of a delete is in the deck it was
\* found in or gone for good.
Traced ==
  /\ \A c \in Cards : home[c] # NoDeck => c \in used
  /\ \A r \in Deletes :
       /\ dpc[r] # "idle" => card[r] \in used
       /\ dpc[r] \in {"idle", "find"} => from[r] = NoDeck
       /\ from[r] # NoDeck => home[card[r]] \in {from[r], NoDeck}
       /\ dpc[r] \in {"count", "done"} => home[card[r]] = NoDeck

LEMMA InitTraced == Init => Traced
  BY DeckCardsAssumption DEF Init, Traced

LEMMA NextTraced ==
  TypeOK /\ Ready /\ Traced /\ [Next]_vars => Traced'
<1> SUFFICES ASSUME TypeOK, Ready, Traced, [Next]_vars PROVE Traced'
  OBVIOUS
<1> USE DeckCardsAssumption
<1>0. \A r \in Deletes : from[r] # NoDeck => card[r] \in used /\ card[r] \in Cards
  BY DEF Traced, Ready
<1>1. ASSUME NEW i \in Imports, BeginImport(i) PROVE Traced'
  BY <1>1 DEF BeginImport, Traced, rows, deletes
<1>2. ASSUME NEW i \in Imports, InsertCard(i) PROVE Traced'
  <2>1. CASE UNCHANGED <<home, used>>
    BY <1>2, <2>1 DEF InsertCard, Traced, deletes
  <2>2. ASSUME NEW c \in Cards \ used, home' = [home EXCEPT ![c] = into[i]],
               used' = used \cup {c}
        PROVE  Traced'
    <3>1. \A e \in Cards : home'[e] = IF e = c THEN into[i] ELSE home[e]
      BY <2>2 DEF TypeOK
    <3>2. UNCHANGED deletes
      BY <1>2 DEF InsertCard
    <3> QED
      BY <1>0, <2>2, <3>1, <3>2 DEF Traced, Ready, deletes
  <2> QED
    BY <1>2, <2>1, <2>2 DEF InsertCard
<1>3. ASSUME NEW i \in Imports, CountUp(i) PROVE Traced'
  BY <1>3 DEF CountUp, Traced, deletes
<1>4. ASSUME NEW i \in Imports, ImportFails(i) PROVE Traced'
  BY <1>4 DEF ImportFails, Traced, rows, deletes
<1>5. ASSUME NEW r \in Deletes, BeginDelete(r) PROVE Traced'
  <2>1. PICK c \in Cards : home[c] # NoDeck /\ card' = [card EXCEPT ![r] = c]
    BY <1>5 DEF BeginDelete
  <2>2. dpc' = [dpc EXCEPT ![r] = "find"] /\ UNCHANGED <<home, used, from>>
    BY <1>5 DEF BeginDelete, rows
  <2>3. from[r] = NoDeck
    BY <1>5 DEF BeginDelete, Traced
  <2> QED
    BY <2>1, <2>2, <2>3 DEF Traced, TypeOK
<1>6. ASSUME NEW r \in Deletes, FindDeck(r) PROVE Traced'
  BY <1>6 DEF FindDeck, Traced, TypeOK, rows
<1>7. ASSUME NEW r \in Deletes, DeleteRow(r) PROVE Traced'
  <2>1. \A e \in Cards : home'[e] = IF e = card[r] THEN NoDeck ELSE home[e]
    BY <1>7 DEF DeleteRow, TypeOK
  <2>2. card[r] \in Cards
    BY <1>7 DEF DeleteRow, Ready
  <2> QED
    BY <1>0, <1>7, <2>1, <2>2 DEF DeleteRow, Traced, Ready, TypeOK
<1>8. ASSUME NEW r \in Deletes, CountDown(r) PROVE Traced'
  BY <1>8 DEF CountDown, Traced, TypeOK
<1>9. ASSUME NEW r \in Deletes, DeleteFails(r) PROVE Traced'
  BY <1>9 DEF DeleteFails, Traced, TypeOK, rows
<1>10. ASSUME NEW d \in Decks, DeleteDeck(d) PROVE Traced'
  <2>1. \A e \in Cards : home'[e] = IF home[e] = d THEN NoDeck ELSE home[e]
    BY <1>10 DEF DeleteDeck
  <2> QED
    BY <1>0, <1>10, <2>1 DEF DeleteDeck, Traced, Ready, deletes
<1>11. CASE UNCHANGED vars
  BY <1>11 DEF vars, rows, deletes, Traced
<1> QED
  BY <1>1, <1>2, <1>3, <1>4, <1>5, <1>6, <1>7, <1>8, <1>9, <1>10, <1>11 DEF Next

-----------------------------------------------------------------------------
(* The balance of a deck *)

\* The deletes of cards of deck d that ran their DELETE and did not fail after,
\* and the cards that a delete found in the deck and that are gone.
Taken(d)   == {r \in Deletes : dpc[r] \in {"count", "done"} /\ from[r] = d}
Removed(d) == {c \in Cards : /\ home[c] = NoDeck
                             /\ \E r \in Deletes : from[r] = d /\ card[r] = c}

\* What a count can be above the cards of its deck, and what below.  Imports
\* between their statements are counted on the side of the count, so that both
\* statements of a request move the two sides alike.
NotAbove(d) ==
  count[d] + Cardinality(CountingUp(d))
    <= Cardinality(CardsOf(d)) + Cardinality(CountingDown(d)) + faults

NotBelow(d) ==
  Cardinality(CardsOf(d)) + Cardinality(CountingDown(d)) + Cardinality(Removed(d))
    <= count[d] + Cardinality(CountingUp(d)) + Cardinality(Taken(d)) + faults

Balanced == \A d \in Decks : deck[d] = "live" => NotAbove(d) /\ NotBelow(d)

LEMMA Finite ==
  ASSUME NEW d
  PROVE  /\ IsFiniteSet(CardsOf(d)) /\ Cardinality(CardsOf(d)) \in Nat
         /\ IsFiniteSet(CountingUp(d)) /\ Cardinality(CountingUp(d)) \in Nat
         /\ IsFiniteSet(CountingDown(d)) /\ Cardinality(CountingDown(d)) \in Nat
         /\ IsFiniteSet(Taken(d)) /\ Cardinality(Taken(d)) \in Nat
         /\ IsFiniteSet(Removed(d)) /\ Cardinality(Removed(d)) \in Nat
<1>1. /\ CardsOf(d) \in SUBSET Cards /\ CountingUp(d) \in SUBSET Imports
      /\ CountingDown(d) \in SUBSET Deletes /\ Taken(d) \in SUBSET Deletes
      /\ Removed(d) \in SUBSET Cards
  BY DEF CardsOf, CountingUp, CountingDown, Taken, Removed
<1> QED
  BY <1>1, DeckCardsAssumption, FS_Subset, FS_CardinalityType

\* A step that moves nothing of a deck keeps its balance, and so does a failure.
LEMMA Undisturbed ==
  ASSUME TypeOK, NEW d \in Decks, NotAbove(d), NotBelow(d),
         UNCHANGED <<CardsOf(d), CountingUp(d), CountingDown(d), Removed(d), Taken(d)>>,
         count'[d] = count[d], faults' = faults \/ faults' = faults + 1
  PROVE  NotAbove(d)' /\ NotBelow(d)'
  BY Finite, DeckCardsAssumption DEF TypeOK, NotAbove, NotBelow

LEMMA InitBalanced == Init => Balanced
<1> SUFFICES ASSUME Init, NEW d \in Decks PROVE NotAbove(d) /\ NotBelow(d)
  BY DEF Balanced
<1>1. /\ CardsOf(d) = {} /\ CountingUp(d) = {} /\ CountingDown(d) = {}
      /\ Removed(d) = {} /\ Taken(d) = {}
  BY DeckCardsAssumption DEF Init, CardsOf, CountingUp, CountingDown, Removed, Taken
<1> QED
  BY <1>1, FS_EmptySet DEF Init, NotAbove, NotBelow

\* INSERT: a card more, and an import that has to count it.
LEMMA InsertBalanced ==
  ASSUME TypeOK, Ready, Traced, NEW i \in Imports, InsertCard(i),
         NEW d \in Decks, NotAbove(d), NotBelow(d)
  PROVE  NotAbove(d)' /\ NotBelow(d)'
<1>1. ipc[i] = "insert" /\ UNCHANGED <<count, into, deletes, faults>>
  BY DEF InsertCard
<1>2. UNCHANGED <<CountingDown(d), Taken(d)>>
  BY <1>1 DEF deletes, CountingDown, Taken
<1>3. CASE NextRow(i) /\ UNCHANGED <<home, used>>
  <2>1. UNCHANGED <<CardsOf(d), Removed(d)>>
    BY <1>1, <1>3 DEF CardsOf, Removed, deletes
  <2>2. UNCHANGED CountingUp(d)
    BY <1>1, <1>3, NextRowType DEF CountingUp, NextRow, TypeOK
  <2> QED
    BY <1>1, <1>2, <2>1, <2>2, Undisturbed
<1>4. ASSUME NEW c \in Cards \ used, home' = [home EXCEPT ![c] = into[i]],
             ipc' = [ipc EXCEPT ![i] = "count"]
      PROVE  NotAbove(d)' /\ NotBelow(d)'
  <2>1. into[i] \in Decks /\ home[c] = NoDeck
    BY <1>1, <1>4 DEF Ready, Traced
  <2>2. UNCHANGED Removed(d)
    <3>1. \A r \in Deletes : from[r] = d => card[r] # c
      BY DeckCardsAssumption DEF Traced
    <3>2. \A e \in Cards : e # c => home'[e] = home[e]
      BY <1>4 DEF TypeOK
    <3>3. UNCHANGED <<card, from>>
      BY <1>1 DEF deletes
    <3> QED
      BY <3>1, <3>2, <3>3 DEF Removed
  <2>3. CASE into[i] = d
    <3>1. CardsOf(d)' = CardsOf(d) \cup {c} /\ c \notin CardsOf(d)
      BY <1>4, <2>1, <2>3, DeckCardsAssumption DEF CardsOf, TypeOK
    <3>2. CountingUp(d)' = CountingUp(d) \cup {i} /\ i \notin CountingUp(d)
      BY <1>1, <1>4, <2>3 DEF CountingUp, TypeOK
    <3>3. /\ Cardinality(CardsOf(d)') = Cardinality(CardsOf(d)) + 1
          /\ Cardinality(CountingUp(d)') = Cardinality(CountingUp(d)) + 1
      BY <3>1, <3>2, Finite, FS_AddElement
    <3> QED
      BY <1>1, <1>2, <2>2, <3>3, Finite, DeckCardsAssumption DEF NotAbove, NotBelow, TypeOK
  <2>4. CASE into[i] # d
    <3>1. UNCHANGED CardsOf(d)
      BY <1>4, <2>1, <2>4, DeckCardsAssumption DEF CardsOf, TypeOK
    <3>2. UNCHANGED CountingUp(d)
      BY <1>1, <1>4, <2>4 DEF CountingUp, TypeOK
    <3> QED
      BY <1>1, <1>2, <2>2, <3>1, <3>2, Undisturbed
  <2> QED
    BY <2>3, <2>4
<1> QED
  BY <1>3, <1>4 DEF InsertCard

\* An import that leaves "count", be it with its UPDATE or without.
LEMMA ImportLeaves ==
  ASSUME TypeOK, NEW i \in Imports, ipc[i] \in {"insert", "count"}, NextRow(i),
         UNCHANGED into, NEW d \in Decks
  PROVE  /\ CountingUp(d)' = CountingUp(d) \ {i}
         /\ Cardinality(CountingUp(d)') =
              IF ipc[i] = "count" /\ into[i] = d THEN Cardinality(CountingUp(d)) - 1
                                                 ELSE Cardinality(CountingUp(d))
<1>1. CountingUp(d)' = CountingUp(d) \ {i}
  BY DEF CountingUp, NextRow, TypeOK
<1>2. i \in CountingUp(d) <=> (ipc[i] = "count" /\ into[i] = d)
  BY DEF CountingUp
<1> QED
  BY <1>1, <1>2, Finite, FS_RemoveElement

\* UPDATE ... + 1 of a deck that is there: the import has counted its card.
LEMMA CountUpBalanced ==
  ASSUME TypeOK, Ready, NEW i \in Imports, CountUp(i),
         NEW d \in Decks, deck[d] = "live", NotAbove(d), NotBelow(d)
  PROVE  NotAbove(d)' /\ NotBelow(d)'
<1>1. /\ ipc[i] = "count" /\ into[i] \in Decks /\ NextRow(i) /\ Recount(into[i], 1)
      /\ UNCHANGED <<home, into, deletes, faults>>
  BY DEF CountUp, Ready
<1>2. UNCHANGED <<CardsOf(d), CountingDown(d), Taken(d), Removed(d)>>
  BY <1>1 DEF deletes, CardsOf, CountingDown, Taken, Removed
<1>3. Cardinality(CountingUp(d)') = IF into[i] = d THEN Cardinality(CountingUp(d)) - 1
                                                   ELSE Cardinality(CountingUp(d))
  BY <1>1, ImportLeaves
<1>4. count'[d] = IF into[i] = d THEN count[d] + 1 ELSE count[d]
  BY <1>1, RecountMoves
<1> QED
  BY <1>1, <1>2, <1>3, <1>4, Finite, DeckCardsAssumption DEF NotAbove, NotBelow, TypeOK

\* A failing statement of an import costs at most the one card it had to count.
LEMMA ImportFailsBalanced ==
  ASSUME TypeOK, NEW i \in Imports, ImportFails(i),
         NEW d \in Decks, NotAbove(d), NotBelow(d)
  PROVE  NotAbove(d)' /\ NotBelow(d)'
<1>1. /\ ipc[i] \in {"insert", "count"} /\ NextRow(i) /\ faults' = faults + 1
      /\ UNCHANGED <<home, count, into, deletes>>
  BY DEF ImportFails, rows
<1>2. UNCHANGED <<CardsOf(d), CountingDown(d), Taken(d), Removed(d)>>
  BY <1>1 DEF deletes, CardsOf, CountingDown, Taken, Removed
<1>3. Cardinality(CountingUp(d)') \in {Cardinality(CountingUp(d)),
                                       Cardinality(CountingUp(d)) - 1}
  BY <1>1, ImportLeaves
<1> QED
  BY <1>1, <1>2, <1>3, Finite, DeckCardsAssumption DEF NotAbove, NotBelow, TypeOK

\* A request that has yet to find its deck counts for no deck.
LEMMA BeginDeleteBalanced ==
  ASSUME TypeOK, Traced, NEW r \in Deletes, BeginDelete(r),
         NEW d \in Decks, NotAbove(d), NotBelow(d)
  PROVE  NotAbove(d)' /\ NotBelow(d)'
<1>1. PICK c \in Cards : card' = [card EXCEPT ![r] = c]
  BY DEF BeginDelete
<1>2. /\ dpc[r] = "idle" /\ dpc' = [dpc EXCEPT ![r] = "find"] /\ from[r] = NoDeck
      /\ UNCHANGED <<home, count, ipc, into, from, faults>>
  BY DEF BeginDelete, Traced, rows, imports
<1>3. UNCHANGED <<CardsOf(d), CountingUp(d), CountingDown(d), Taken(d)>>
  BY <1>2 DEF CardsOf, CountingUp, CountingDown, Taken, TypeOK
<1>4. UNCHANGED Removed(d)
  BY <1>1, <1>2, DeckCardsAssumption DEF Removed, TypeOK
<1> QED
  BY <1>2, <1>3, <1>4, Undisturbed

\* The card is still there when its deck is found.
LEMMA FindDeckBalanced ==
  ASSUME TypeOK, Ready, Traced, NEW r \in Deletes, FindDeck(r),
         NEW d \in Decks, NotAbove(d), NotBelow(d)
  PROVE  NotAbove(d)' /\ NotBelow(d)'
<1>1. /\ dpc[r] = "find" /\ from[r] = NoDeck /\ card[r] \in Cards
      /\ UNCHANGED <<home, count, ipc, into, card, faults>>
  BY DEF FindDeck, Traced, Ready, rows, imports
<1>2. from' = [from EXCEPT ![r] = home[card[r]]]
  BY DEF FindDeck
<1>3. \A q \in Deletes : q # r => dpc'[q] = dpc[q] /\ from'[q] = from[q]
  BY <1>2 DEF FindDeck, TypeOK
<1>4. dpc'[r] \in {"delete", "failed"}
  BY DEF FindDeck, TypeOK
<1>5. UNCHANGED <<CardsOf(d), CountingUp(d)>>
  BY <1>1 DEF CardsOf, CountingUp
<1>6. UNCHANGED <<CountingDown(d), Taken(d)>>
  BY <1>1, <1>3, <1>4 DEF CountingDown, Taken
<1>7. UNCHANGED Removed(d)
  BY <1>1, <1>2, DeckCardsAssumption DEF Removed, TypeOK
<1> QED
  BY <1>1, <1>5, <1>6, <1>7, Undisturbed

\* DELETE: a card less and one more that was removed, or, the second time, only a
\* request more that will take one off the count.
LEMMA DeleteRowBalanced ==
  ASSUME TypeOK, Ready, Traced, NEW r \in Deletes, DeleteRow(r),
         NEW d \in Decks, NotAbove(d), NotBelow(d)
  PROVE  NotAbove(d)' /\ NotBelow(d)'
<1>1. /\ dpc[r] = "delete" /\ from[r] \in Decks /\ card[r] \in Cards
      /\ home[card[r]] \in {from[r], NoDeck}
      /\ UNCHANGED <<count, ipc, into, card, from, faults>>
  BY DeckCardsAssumption DEF DeleteRow, Ready, Traced, imports
<1>2. /\ home' = [home EXCEPT ![card[r]] = NoDeck]
      /\ dpc' = [dpc EXCEPT ![r] = "count"]
  BY DEF DeleteRow
<1>3. UNCHANGED CountingUp(d)
  BY <1>1 DEF CountingUp
<1>4. CASE from[r] # d
  <2>1. UNCHANGED <<CountingDown(d), Taken(d)>>
    BY <1>1, <1>2, <1>4 DEF CountingDown, Taken, TypeOK
  <2>2. UNCHANGED CardsOf(d)
    BY <1>1, <1>2, <1>4, DeckCardsAssumption DEF CardsOf, TypeOK
  <2>3. UNCHANGED Removed(d)
    <3>1. \A q \in Deletes : from[q] = d => card[q] # card[r] \/ home[card[r]] = NoDeck
      BY <1>1, <1>4, DeckCardsAssumption DEF Traced
    <3> QED
      BY <1>1, <1>2, <3>1 DEF Removed, TypeOK
  <2> QED
    BY <1>1, <1>3, <2>1, <2>2, <2>3, Undisturbed
<1>5. CASE from[r] = d
  <2>1. CountingDown(d)' = CountingDown(d) \cup {r} /\ r \notin CountingDown(d)
    BY <1>1, <1>2, <1>5 DEF CountingDown, TypeOK
  <2>2. Taken(d)' = Taken(d) \cup {r} /\ r \notin Taken(d)
    BY <1>1, <1>2, <1>5 DEF Taken, TypeOK
  <2>3. CardsOf(d)' = CardsOf(d) \ {card[r]}
    BY <1>1, <1>2, DeckCardsAssumption DEF CardsOf, TypeOK
  <2>4. Removed(d)' = Removed(d) \cup {card[r]}
    BY <1>1, <1>2, <1>5 DEF Removed, TypeOK
  <2>5. card[r] \in Removed(d) <=> card[r] \notin CardsOf(d)
    BY <1>1, <1>5, DeckCardsAssumption DEF Removed, CardsOf
  <2>6. /\ Cardinality(CountingDown(d)') = Cardinality(CountingDown(d)) + 1
        /\ Cardinality(Taken(d)') = Cardinality(Taken(d)) + 1
    BY <2>1, <2>2, Finite, FS_AddElement
  <2>7. Cardinality(CardsOf(d)') = IF card[r] \in CardsOf(d)
                                     THEN Cardinality(CardsOf(d)) - 1
                                     ELSE Cardinality(CardsOf(d))
    BY <2>3, Finite, FS_RemoveElement
  <2>8. Cardinality(Removed(d)') = IF card[r] \in CardsOf(d)
                                     THEN Cardinality(Removed(d)) + 1
                                     ELSE Cardinality(Removed(d))
    BY <2>4, <2>5, Finite, FS_AddElement
  <2> QED
    BY <1>1, <1>3, <2>6, <2>7, <2>8, Finite, DeckCardsAssumption
       DEF NotAbove, NotBelow, TypeOK
<1> QED
  BY <1>4, <1>5

\* UPDATE ... - 1 of a deck that is there.
LEMMA CountDownBalanced ==
  ASSUME TypeOK, Ready, NEW r \in Deletes, CountDown(r),
         NEW d \in Decks, deck[d] = "live", NotAbove(d), NotBelow(d)
  PROVE  NotAbove(d)' /\ NotBelow(d)'
<1>1. /\ dpc[r] = "count" /\ dpc' = [dpc EXCEPT ![r] = "done"] /\ from[r] \in Decks
      /\ Recount(from[r], -1)
      /\ UNCHANGED <<home, ipc, into, card, from, faults>>
  BY DEF CountDown, Ready, imports
<1>2. UNCHANGED <<CardsOf(d), CountingUp(d), Removed(d)>>
  BY <1>1 DEF CardsOf, CountingUp, Removed
<1>3. UNCHANGED Taken(d)
  BY <1>1 DEF Taken, TypeOK
<1>4. /\ CountingDown(d)' = CountingDown(d) \ {r}
      /\ r \in CountingDown(d) <=> from[r] = d
  BY <1>1 DEF CountingDown, TypeOK
<1>5. Cardinality(CountingDown(d)') = IF from[r] = d
                                        THEN Cardinality(CountingDown(d)) - 1
                                        ELSE Cardinality(CountingDown(d))
  BY <1>4, Finite, FS_RemoveElement
<1>6. count'[d] = IF from[r] = d THEN count[d] - 1 ELSE count[d]
  <2>1. -1 \in Int /\ count[d] \in Int /\ count[d] + (-1) = count[d] - 1
    BY DEF TypeOK
  <2>2. count'[d] = IF from[r] = d THEN count[d] + (-1) ELSE count[d]
    BY <1>1, <2>1, RecountMoves
  <2> QED
    BY <2>1, <2>2
<1> QED
  BY <1>1, <1>2, <1>3, <1>5, <1>6, Finite, DeckCardsAssumption DEF NotAbove, NotBelow, TypeOK

\* A failing statement of a delete costs at most the one card it had to take off.
LEMMA DeleteFailsBalanced ==
  ASSUME TypeOK, NEW r \in Deletes, DeleteFails(r),
         NEW d \in Decks, NotAbove(d), NotBelow(d)
  PROVE  NotAbove(d)' /\ NotBelow(d)'
<1>1. /\ dpc[r] \in {"find", "delete", "count"} /\ dpc' = [dpc EXCEPT ![r] = "failed"]
      /\ faults' = faults + 1
      /\ UNCHANGED <<home, count, ipc, into, card, from>>
  BY DEF DeleteFails, rows, imports
<1>2. UNCHANGED <<CardsOf(d), CountingUp(d), Removed(d)>>
  BY <1>1 DEF CardsOf, CountingUp, Removed
<1>3. CountingDown(d)' = CountingDown(d) \ {r} /\ Taken(d)' = Taken(d) \ {r}
  BY <1>1 DEF CountingDown, Taken, TypeOK
<1>4. r \in CountingDown(d) <=> r \in Taken(d)
  BY <1>1 DEF CountingDown, Taken
<1>5. \/ /\ Cardinality(CountingDown(d)') = Cardinality(CountingDown(d)) - 1
         /\ Cardinality(Taken(d)') = Cardinality(Taken(d)) - 1
      \/ /\ Cardinality(CountingDown(d)') = Cardinality(CountingDown(d))
         /\ Cardinality(Taken(d)') = Cardinality(Taken(d))
  BY <1>3, <1>4, Finite, FS_RemoveElement
<1> QED
  BY <1>1, <1>2, <1>5, Finite, DeckCardsAssumption DEF NotAbove, NotBelow, TypeOK

\* The cascade of another deck.
LEMMA DeleteDeckBalanced ==
  ASSUME TypeOK, Traced, NEW e \in Decks, DeleteDeck(e),
         NEW d \in Decks, d # e, NotAbove(d), NotBelow(d)
  PROVE  NotAbove(d)' /\ NotBelow(d)'
<1>1. /\ home' = [c \in Cards |-> IF home[c] = e THEN NoDeck ELSE home[c]]
      /\ count' = [count EXCEPT ![e] = 0]
      /\ UNCHANGED <<ipc, into, dpc, card, from, faults>>
  BY DEF DeleteDeck, imports, deletes
<1>2. UNCHANGED <<CountingUp(d), CountingDown(d), Taken(d)>>
  BY <1>1 DEF CountingUp, CountingDown, Taken
<1>3. UNCHANGED CardsOf(d)
  BY <1>1, DeckCardsAssumption DEF CardsOf
<1>4. UNCHANGED Removed(d)
  <2>1. \A r \in Deletes : from[r] = d => home[card[r]] # e
    BY DeckCardsAssumption DEF Traced
  <2> QED
    BY <1>1, <2>1 DEF Removed
<1>5. count'[d] = count[d]
  BY <1>1 DEF TypeOK
<1> QED
  BY <1>1, <1>2, <1>3, <1>4, <1>5, Undisturbed

LEMMA NextBalanced ==
  TypeOK /\ Ready /\ Traced /\ Balanced /\ [Next]_vars => Balanced'
<1> SUFFICES ASSUME TypeOK, Ready, Traced, Balanced, [Next]_vars,
                    NEW d \in Decks, deck'[d] = "live"
             PROVE  NotAbove(d)' /\ NotBelow(d)'
  BY DEF Balanced
<1>0. deck[d] = "live" /\ NotAbove(d) /\ NotBelow(d)
  <2>1. deck[d] = "live"
    BY DEF Next, BeginImport, InsertCard, CountUp, ImportFails, BeginDelete, FindDeck,
           DeleteRow, CountDown, DeleteFails, DeleteDeck, vars, rows, TypeOK
  <2> QED
    BY <2>1 DEF Balanced
<1>1. ASSUME NEW i \in Imports, BeginImport(i) PROVE NotAbove(d)' /\ NotBelow(d)'
  <2>1. /\ ipc[i] = "idle" /\ ipc' = [ipc EXCEPT ![i] = "insert"]
        /\ \A j \in Imports : j # i => into'[j] = into[j]
        /\ UNCHANGED <<home, count, deletes, faults>>
    BY <1>1 DEF BeginImport, rows, TypeOK
  <2>2. UNCHANGED <<CardsOf(d), CountingDown(d), Taken(d), Removed(d)>>
    BY <2>1 DEF deletes, CardsOf, CountingDown, Taken, Removed
  <2>3. UNCHANGED CountingUp(d)
    BY <2>1 DEF CountingUp, TypeOK
  <2> QED
    BY <1>0, <2>1, <2>2, <2>3, Undisturbed
<1>2. ASSUME NEW i \in Imports, InsertCard(i) PROVE NotAbove(d)' /\ NotBelow(d)'
  BY <1>0, <1>2, InsertBalanced
<1>3. ASSUME NEW i \in Imports, CountUp(i) PROVE NotAbove(d)' /\ NotBelow(d)'
  BY <1>0, <1>3, CountUpBalanced
<1>4. ASSUME NEW i \in Imports, ImportFails(i) PROVE NotAbove(d)' /\ NotBelow(d)'
  BY <1>0, <1>4, ImportFailsBalanced
<1>5. ASSUME NEW r \in Deletes, BeginDelete(r) PROVE NotAbove(d)' /\ NotBelow(d)'
  BY <1>0, <1>5, BeginDeleteBalanced
<1>6. ASSUME NEW r \in Deletes, FindDeck(r) PROVE NotAbove(d)' /\ NotBelow(d)'
  BY <1>0, <1>6, FindDeckBalanced
<1>7. ASSUME NEW r \in Deletes, DeleteRow(r) PROVE NotAbove(d)' /\ NotBelow(d)'
  BY <1>0, <1>7, DeleteRowBalanced
<1>8. ASSUME NEW r \in Deletes, CountDown(r) PROVE NotAbove(d)' /\ NotBelow(d)'
  BY <1>0, <1>8, CountDownBalanced
<1>9. ASSUME NEW r \in Deletes, DeleteFails(r) PROVE NotAbove(d)' /\ NotBelow(d)'
  BY <1>0, <1>9, DeleteFailsBalanced
<1>10. ASSUME NEW e \in Decks, DeleteDeck(e) PROVE NotAbove(d)' /\ NotBelow(d)'
  <2>1. d # e
    BY <1>10 DEF DeleteDeck, TypeOK
  <2> QED
    BY <1>0, <1>10, <2>1, DeleteDeckBalanced
<1>11. CASE UNCHANGED vars
  <2>1. /\ UNCHANGED <<CardsOf(d), CountingUp(d), CountingDown(d), Taken(d), Removed(d)>>
        /\ UNCHANGED <<count, faults>>
    BY <1>11 DEF vars, rows, imports, deletes, CardsOf, CountingUp, CountingDown, Taken,
                 Removed
  <2> QED
    BY <1>0, <2>1, Undisturbed
<1> QED
  BY <1>1, <1>2, <1>3, <1>4, <1>5, <1>6, <1>7, <1>8, <1>9, <1>10, <1>11 DEF Next

\* The balance bounds the drift: the cards of the deletes that ran are among the
\* cards removed, so the deletes left over are repetitions.
LEMMA BalanceExplains == Ready /\ TypeOK /\ Traced /\ Balanced => CountDriftExplained
<1> SUFFICES ASSUME Ready, TypeOK, Traced, Balanced, NEW d \in Decks, deck[d] = "live"
             PROVE  /\ count[d] <= Cardinality(CardsOf(d))
                                     + Cardinality(CountingDown(d)) + faults
                    /\ count[d] >= Cardinality(CardsOf(d)) - Cardinality(CountingUp(d))
                                     - (Cardinality(Taken(d))
                                          - Cardinality({card[r] : r \in Taken(d)}))
                                     - faults
  BY DEF CountDriftExplained, Taken
<1>1. NotAbove(d) /\ NotBelow(d)
  BY DEF Balanced
<1>2. {card[r] : r \in Taken(d)} \in SUBSET Removed(d)
  BY DEF Taken, Removed, Ready, Traced
<1>3. /\ Cardinality({card[r] : r \in Taken(d)}) <= Cardinality(Removed(d))
      /\ Cardinality({card[r] : r \in Taken(d)}) \in Nat
  BY <1>2, Finite, FS_Subset, FS_CardinalityType
<1> QED
  BY <1>1, <1>3, Finite, DeckCardsAssumption DEF NotAbove, NotBelow, TypeOK

\* cards_count drifts from the number of cards of a deck by no more than the
\* requests between their two statements, the repeated deletes and the failed
\* statements account for (models/card.go:28-34, 61-74).
THEOREM CountTheorem == Spec => []CountDriftExplained
<1>1. Init => TypeOK /\ Ready /\ Traced /\ Balanced
  BY InitType, InitTraced, InitBalanced
<1>2. TypeOK /\ Ready /\ Traced /\ Balanced /\ [Next]_vars
        => (TypeOK /\ Ready /\ Traced /\ Balanced)'
  BY NextType, NextTraced, NextBalanced
<1>3. TypeOK /\ Ready /\ Traced /\ Balanced => CountDriftExplained
  BY BalanceExplains
<1> QED
  BY <1>1, <1>2, <1>3, PTL DEF Spec

\* Nothing is under way for deck d, nothing has failed, and no card of it was
\* deleted twice.
Quiet(d) ==
  /\ CountingUp(d) = {} /\ CountingDown(d) = {} /\ faults = 0
  /\ \A q, r \in Taken(d) : card[q] = card[r] => q = r

ExactWhenQuiet ==
  \A d \in Decks : deck[d] = "live" /\ Quiet(d) => count[d] = Cardinality(CardsOf(d))

\* So the count is off only while requests overlap or after one went wrong: between
\* requests that all succeeded, and deleted different cards, it is exact
\* (models/card.go:28-34, 61-74).
COROLLARY QuietTheorem == Spec => []ExactWhenQuiet
<1>1. ASSUME TypeOK, CountDriftExplained, NEW d \in Decks, deck[d] = "live", Quiet(d)
      PROVE  count[d] = Cardinality(CardsOf(d))
  <2> DEFINE cards == {card[r] : r \in Taken(d)}
             f == [r \in Taken(d) |-> card[r]]
  <2>1. f \in Surjection(Taken(d), cards) /\ f \in Injection(Taken(d), cards)
    BY <1>1 DEF Quiet, Surjection, Injection, IsInjective
  <2>2. Cardinality(cards) = Cardinality(Taken(d))
    BY <2>1, Finite, FS_Surjection
  <2>3. /\ count[d] <= Cardinality(CardsOf(d)) + Cardinality(CountingDown(d)) + faults
        /\ count[d] >= Cardinality(CardsOf(d)) - Cardinality(CountingUp(d))
                         - (Cardinality(Taken(d)) - Cardinality(cards)) - faults
    BY <1>1 DEF CountDriftExplained, Taken
  <2>4. Cardinality(CountingUp(d)) = 0 /\ Cardinality(CountingDown(d)) = 0 /\ faults = 0
    BY <1>1, FS_EmptySet DEF Quiet
  <2> HIDE DEF cards
  <2> QED
    BY <1>1, <2>2, <2>3, <2>4, Finite DEF TypeOK
<1>2. TypeOK /\ CountDriftExplained => ExactWhenQuiet
  BY <1>1 DEF ExactWhenQuiet
<1> QED
  BY <1>2, TypeCorrect, CountTheorem, PTL
=============================================================================
