--------------------------- MODULE BookmarksProofs --------------------------
(***************************************************************************)
(* Proofs about bookmarks and the lists made from them.                    *)
(***************************************************************************)
EXTENDS Bookmarks, TLAPS

-----------------------------------------------------------------------------
(* Types *)

LEMMA InitType == Init => TypeOK
BY BookmarksAssumption DEF Init, TypeOK, Rows

LEMMA NextType == TypeOK /\ [Next]_vars => TypeOK'
<1> SUFFICES ASSUME TypeOK, [Next]_vars PROVE TypeOK'
  OBVIOUS
<1> USE BookmarksAssumption DEF TypeOK, lists, toggles, starts, Rows, SessionRows, RowOf
<1>1. ASSUME NEW t \in Toggles, Decide(t) PROVE TypeOK'
  BY <1>1 DEF Decide, TStep, Fault
<1>2. ASSUME NEW t \in Toggles, Remove(t) PROVE TypeOK'
  BY <1>2 DEF Remove, TStep, Undisturbed
<1>3. ASSUME NEW t \in Toggles, Add(t) PROVE TypeOK'
  BY <1>3 DEF Add, TStep, Undisturbed
<1>4. ASSUME NEW s \in Starts, BeginStart(s) PROVE TypeOK'
  BY <1>4 DEF BeginStart, SStep
<1>5. ASSUME NEW s \in Starts, InsertSession(s) PROVE TypeOK'
  <2>1. CASE srow[s][2] \in deck
    <3> DEFINE new == [id |-> nextId, user |-> srow[s][1], deck |-> srow[s][2],
                       open |-> TRUE]
    <3>1. /\ sessions' = sessions \cup {new} /\ nextId' = nextId + 1
          /\ sid' = [sid EXCEPT ![s] = nextId] /\ spc' = [spc EXCEPT ![s] = "shelve"]
      BY <1>5, <2>1 DEF InsertSession, SStep
    <3>2. srow[s] \in Rows
      BY <1>5 DEF InsertSession
    <3>3. new \in SessionRows /\ new.deck \in deck /\ new.id < nextId'
      BY <2>1, <3>1, <3>2
    <3>4. sessions' \subseteq {x \in SessionRows : x.deck \in deck /\ x.id < nextId'}
      <4>1. \A x \in sessions : x \in SessionRows /\ x.deck \in deck /\ x.id < nextId'
        BY <3>1
      <4> HIDE DEF new
      <4> QED
        BY <3>1, <3>3, <4>1
    <3> HIDE DEF new
    <3> QED
      BY <1>5, <3>1, <3>2, <3>4 DEF InsertSession
  <2>2. CASE srow[s][2] \notin deck
    BY <1>5, <2>2 DEF InsertSession, SStep
  <2> QED
    BY <2>1, <2>2
<1>6. ASSUME NEW s \in Starts, Shelve(s) PROVE TypeOK'
  BY <1>6 DEF Shelve, SStep, Fault, Undisturbed
<1>7. ASSUME NEW r \in Rows, Stop(r) PROVE TypeOK'
  BY <1>7 DEF Stop
<1>8. ASSUME NEW x \in sessions, Complete(x) PROVE TypeOK'
  BY <1>8 DEF Complete
<1>9. ASSUME NEW x \in sessions, UpdateUserMastery(x) PROVE TypeOK'
  BY <1>9 DEF UpdateUserMastery
<1>10. ASSUME NEW d \in Decks, Update(d) PROVE TypeOK'
  BY <1>10 DEF Update
<1>11. ASSUME NEW d \in Decks, DeleteDeck(d) PROVE TypeOK'
  BY <1>11 DEF DeleteDeck, Undisturbed
<1>12. ASSUME NEW d \in Decks, UpdateHeaderImageURL(d) PROVE TypeOK'
  BY <1>12 DEF UpdateHeaderImageURL
<1>13. CASE UNCHANGED vars
  BY <1>13 DEF vars
<1> QED
  BY <1>1, <1>2, <1>3, <1>4, <1>5, <1>6, <1>7, <1>8, <1>9, <1>10, <1>11, <1>12, <1>13
     DEF Next

\* Rows, sessions and requests keep their types; no bookmark, session or mastery
\* outlives its deck (models/deck.go, models/bookmark.go, models/session.go).
THEOREM TypeCorrect == Spec => []TypeOK
<1>1. TypeOK /\ [Next]_vars => TypeOK'
  BY NextType
<1> QED
  BY InitType, <1>1, PTL DEF Spec

-----------------------------------------------------------------------------
(* Toggles *)

\* What a toggle that is alone knows of its row.
Lone ==
  \A t \in alone :
    /\ tpc[t] # "idle"
    /\ tpc[t] \in {"remove", "add"} => (trow[t] \in bookmarks) = was[t]
    /\ tpc[t] = "remove" => was[t]
    /\ tpc[t] = "add" => ~was[t] \/ t \in misread
    /\ tpc[t] \in {"removed", "added"} =>
         \/ (trow[t] \in bookmarks) = ~was[t]
         \/ t \in misread /\ trow[t] \in bookmarks

LEMMA NextLone == TypeOK /\ Lone /\ [Next]_vars => Lone'
<1> SUFFICES ASSUME TypeOK, Lone, [Next]_vars PROVE Lone'
  OBVIOUS
<1> USE DEF TypeOK, Lone, lists, toggles, starts
<1>1. ASSUME NEW t \in Toggles, Decide(t) PROVE Lone'
  <2>1. PICK r \in Rows :
          /\ trow' = [trow EXCEPT ![t] = r] /\ was' = [was EXCEPT ![t] = r \in bookmarks]
          /\ \/ TStep(t, IF r \in bookmarks THEN "remove" ELSE "add") /\ misread' = misread
             \/ TStep(t, "add") /\ misread' = misread \cup {t}
    BY <1>1 DEF Decide
  <2>2. alone' = alone \cup {t} /\ bookmarks' = bookmarks
    BY <1>1 DEF Decide
  <2>3. CASE TStep(t, IF r \in bookmarks THEN "remove" ELSE "add") /\ misread' = misread
    <3>1. ASSUME NEW o \in alone, o # t
          PROVE  /\ tpc'[o] = tpc[o] /\ trow'[o] = trow[o] /\ was'[o] = was[o]
                 /\ (o \in misread') = (o \in misread)
      BY <2>1, <2>3, <3>1 DEF TStep
    <3>2. trow'[t] = r /\ was'[t] = (r \in bookmarks)
      BY <2>1
    <3>3. tpc'[t] = IF r \in bookmarks THEN "remove" ELSE "add"
      BY <2>3 DEF TStep
    <3> QED
      BY <2>2, <3>1, <3>2, <3>3
  <2>4. CASE TStep(t, "add") /\ misread' = misread \cup {t}
    BY <2>1, <2>2, <2>4 DEF TStep
  <2> QED
    BY <2>1, <2>3, <2>4
<1>2. ASSUME NEW t \in Toggles, Remove(t) PROVE Lone'
  <2>1. /\ tpc[t] = "remove" /\ tpc' = [tpc EXCEPT ![t] = "removed"]
        /\ bookmarks' = bookmarks \ {trow[t]} /\ UNCHANGED <<trow, was, misread>>
        /\ alone' \subseteq alone
    BY <1>2 DEF Remove, TStep, Undisturbed
  <2>2. \A o \in alone' \ {t} : trow[o] # trow[t] \/ bookmarks' = bookmarks
    BY <1>2 DEF Remove, Undisturbed
  <2>3. t \in alone => was[t]
    BY <2>1
  <2>4. ASSUME NEW o \in alone', o # t
        PROVE  tpc'[o] = tpc[o] /\ (trow[o] \in bookmarks') = (trow[o] \in bookmarks)
    BY <2>1, <2>2, <2>4
  <2>5. ASSUME t \in alone'
        PROVE  /\ tpc'[t] \notin {"idle", "remove", "add"}
               /\ trow'[t] \notin bookmarks' /\ was'[t] /\ was'[t] = TRUE
    <3>1. t \in alone /\ was[t] /\ was[t] = TRUE
      BY <2>1, <2>3, <2>5
    <3> QED
      BY <2>1, <3>1
  <2>6. ASSUME NEW o \in alone', o # t
        PROVE  /\ tpc'[o] # "idle"
               /\ tpc'[o] \in {"remove", "add"} => (trow'[o] \in bookmarks') = was'[o]
               /\ tpc'[o] = "remove" => was'[o]
               /\ tpc'[o] = "add" => ~was'[o] \/ o \in misread'
               /\ tpc'[o] \in {"removed", "added"} =>
                    \/ (trow'[o] \in bookmarks') = (~was'[o])
                    \/ o \in misread' /\ trow'[o] \in bookmarks'
    BY <2>1, <2>4, <2>6
  <2>7. t \in alone' =>
          \/ (trow'[t] \in bookmarks') = (~was'[t])
          \/ t \in misread' /\ trow'[t] \in bookmarks'
    BY <2>5
  <2> QED
    BY <2>5, <2>6, <2>7, Zenon DEF Lone
<1>3. ASSUME NEW t \in Toggles, Add(t) PROVE Lone'
  BY <1>3 DEF Add, TStep, Undisturbed
<1>4. ASSUME NEW s \in Starts, BeginStart(s) PROVE Lone'
  BY <1>4 DEF BeginStart, SStep
<1>5. ASSUME NEW s \in Starts, InsertSession(s) PROVE Lone'
  BY <1>5 DEF InsertSession, SStep
<1>6. ASSUME NEW s \in Starts, Shelve(s) PROVE Lone'
  BY <1>6 DEF Shelve, SStep, Fault, Undisturbed
<1>7. ASSUME NEW r \in Rows, Stop(r) PROVE Lone'
  BY <1>7 DEF Stop
<1>8. ASSUME NEW x \in sessions, Complete(x) PROVE Lone'
  BY <1>8 DEF Complete
<1>9. ASSUME NEW x \in sessions, UpdateUserMastery(x) PROVE Lone'
  BY <1>9 DEF UpdateUserMastery
<1>10. ASSUME NEW d \in Decks, Update(d) PROVE Lone'
  BY <1>10 DEF Update
<1>11. ASSUME NEW d \in Decks, DeleteDeck(d) PROVE Lone'
  BY <1>11 DEF DeleteDeck, Undisturbed
<1>12. ASSUME NEW d \in Decks, UpdateHeaderImageURL(d) PROVE Lone'
  BY <1>12 DEF UpdateHeaderImageURL
<1>13. CASE UNCHANGED vars
  BY <1>13 DEF vars
<1> QED
  BY <1>1, <1>2, <1>3, <1>4, <1>5, <1>6, <1>7, <1>8, <1>9, <1>10, <1>11, <1>12, <1>13
     DEF Next

\* A toggle whose row nobody else writes leaves the opposite of what was there,
\* unless its look failed.
THEOREM ToggleTheorem == Spec => []LoneToggleFlips
<1>1. Init => Lone
  BY DEF Init, Lone
<1>2. TypeOK /\ Lone /\ [Next]_vars => Lone'
  BY NextLone
<1>3. Lone => LoneToggleFlips
  BY DEF Lone, LoneToggleFlips
<1> QED
  BY TypeCorrect, <1>1, <1>2, <1>3, PTL DEF Spec

-----------------------------------------------------------------------------
(* Sessions and the lists *)

\* The id a Start was given is that of a session of its row, or of none.
OwnSession ==
  \A s \in Starts :
    /\ sid[s] < nextId
    /\ spc[s] \in {"idle", "insert"} => sid[s] = 0
    /\ \A x \in sessions : x.id = sid[s] => RowOf(x) = srow[s]

\* The row of a Start that has shelved its deck stays while the deck does, but for
\* toggles; one that the foreign key has kept from it has no deck.
Shelved ==
  \A s \in Starts :
    /\ (spc[s] = "started" /\ srow[s][2] \in deck) => srow[s] \in bookmarks \cup removed
    /\ spc[s] = "unshelved" => srow[s][2] \notin deck

LEMMA NextOwn == TypeOK /\ OwnSession /\ [Next]_vars => OwnSession'
<1> SUFFICES ASSUME TypeOK, OwnSession, [Next]_vars PROVE OwnSession'
  OBVIOUS
<1> USE DEF TypeOK, OwnSession, RowOf, lists, toggles, starts, SessionRows
<1>1. ASSUME NEW t \in Toggles, Decide(t) PROVE OwnSession'
  BY <1>1 DEF Decide, TStep, Fault
<1>2. ASSUME NEW t \in Toggles, Remove(t) PROVE OwnSession'
  BY <1>2 DEF Remove, TStep, Undisturbed
<1>3. ASSUME NEW t \in Toggles, Add(t) PROVE OwnSession'
  BY <1>3 DEF Add, TStep, Undisturbed
<1>4. ASSUME NEW s \in Starts, BeginStart(s) PROVE OwnSession'
  BY <1>4 DEF BeginStart, SStep
<1>5. ASSUME NEW s \in Starts, InsertSession(s) PROVE OwnSession'
  <2>1. CASE srow[s][2] \in deck
    <3> DEFINE new == [id |-> nextId, user |-> srow[s][1], deck |-> srow[s][2],
                       open |-> TRUE]
    <3>1. /\ sessions' = sessions \cup {new} /\ nextId' = nextId + 1 /\ srow' = srow
          /\ sid' = [sid EXCEPT ![s] = nextId] /\ spc' = [spc EXCEPT ![s] = "shelve"]
      BY <1>5, <2>1 DEF InsertSession, SStep
    <3>2. RowOf(new) = srow[s] /\ new.id = nextId
      BY <1>5 DEF InsertSession, Rows
    <3>3. \A x \in sessions : x.id < nextId
      OBVIOUS
    <3> HIDE DEF new
    <3>4. ASSUME NEW o \in Starts
          PROVE  /\ sid'[o] < nextId'
                 /\ spc'[o] \in {"idle", "insert"} => sid'[o] = 0
                 /\ \A x \in sessions' : x.id = sid'[o] => RowOf(x) = srow'[o]
      BY <3>1, <3>2, <3>3
    <3> QED
      BY <3>4
  <2>2. CASE srow[s][2] \notin deck
    BY <1>5, <2>2 DEF InsertSession, SStep
  <2> QED
    BY <2>1, <2>2
<1>6. ASSUME NEW s \in Starts, Shelve(s) PROVE OwnSession'
  BY <1>6 DEF Shelve, SStep, Fault, Undisturbed
<1>7. ASSUME NEW r \in Rows, Stop(r) PROVE OwnSession'
  BY <1>7 DEF Stop
<1>8. ASSUME NEW x \in sessions, Complete(x) PROVE OwnSession'
  BY <1>8 DEF Complete
<1>9. ASSUME NEW x \in sessions, UpdateUserMastery(x) PROVE OwnSession'
  BY <1>9 DEF UpdateUserMastery
<1>10. ASSUME NEW d \in Decks, Update(d) PROVE OwnSession'
  BY <1>10 DEF Update
<1>11. ASSUME NEW d \in Decks, DeleteDeck(d) PROVE OwnSession'
  BY <1>11 DEF DeleteDeck, Undisturbed
<1>12. ASSUME NEW d \in Decks, UpdateHeaderImageURL(d) PROVE OwnSession'
  BY <1>12 DEF UpdateHeaderImageURL
<1>13. CASE UNCHANGED vars
  BY <1>13 DEF vars
<1> QED
  BY <1>1, <1>2, <1>3, <1>4, <1>5, <1>6, <1>7, <1>8, <1>9, <1>10, <1>11, <1>12, <1>13
     DEF Next

LEMMA NextShelved == TypeOK /\ Shelved /\ [Next]_vars => Shelved'
<1> SUFFICES ASSUME TypeOK, Shelved, [Next]_vars PROVE Shelved'
  OBVIOUS
<1> USE DEF TypeOK, Shelved, lists, toggles, starts
<1>1. ASSUME NEW t \in Toggles, Decide(t) PROVE Shelved'
  BY <1>1 DEF Decide, TStep, Fault
<1>2. ASSUME NEW t \in Toggles, Remove(t) PROVE Shelved'
  BY <1>2 DEF Remove, TStep, Undisturbed
<1>3. ASSUME NEW t \in Toggles, Add(t) PROVE Shelved'
  BY <1>3 DEF Add, TStep, Undisturbed
<1>4. ASSUME NEW s \in Starts, BeginStart(s) PROVE Shelved'
  BY <1>4 DEF BeginStart, SStep
<1>5. ASSUME NEW s \in Starts, InsertSession(s) PROVE Shelved'
  BY <1>5 DEF InsertSession, SStep
<1>6. ASSUME NEW s \in Starts, Shelve(s) PROVE Shelved'
  BY <1>6 DEF Shelve, SStep, Fault, Undisturbed
<1>7. ASSUME NEW r \in Rows, Stop(r) PROVE Shelved'
  BY <1>7 DEF Stop
<1>8. ASSUME NEW x \in sessions, Complete(x) PROVE Shelved'
  BY <1>8 DEF Complete
<1>9. ASSUME NEW x \in sessions, UpdateUserMastery(x) PROVE Shelved'
  BY <1>9 DEF UpdateUserMastery
<1>10. ASSUME NEW d \in Decks, Update(d) PROVE Shelved'
  BY <1>10 DEF Update
<1>11. ASSUME NEW d \in Decks, DeleteDeck(d) PROVE Shelved'
  BY <1>11 DEF DeleteDeck, Undisturbed
<1>12. ASSUME NEW d \in Decks, UpdateHeaderImageURL(d) PROVE Shelved'
  BY <1>12 DEF UpdateHeaderImageURL
<1>13. CASE UNCHANGED vars
  BY <1>13 DEF vars
<1> QED
  BY <1>1, <1>2, <1>3, <1>4, <1>5, <1>6, <1>7, <1>8, <1>9, <1>10, <1>11, <1>12, <1>13
     DEF Next

\* A deck with a session whose Start did not lose the bookmark is among the bookmarks
\* and in progress or mastered, unless a toggle has removed it since or a NULL cuts
\* the list of decks in progress short (api/session.go:60-63, api/profile.go:66-67).
THEOREM ListTheorem == Spec => []StudiedIsListed
<1>1. Init => OwnSession /\ Shelved
  BY DEF Init, OwnSession, Shelved
<1>2. TypeOK /\ OwnSession /\ Shelved /\ [Next]_vars => (OwnSession /\ Shelved)'
  BY NextOwn, NextShelved
<1>3. TypeOK /\ OwnSession /\ Shelved => StudiedIsListed
  <2> SUFFICES ASSUME TypeOK, OwnSession, Shelved,
                      NEW s \in Starts, NEW x \in sessions,
                      spc[s] \in {"started", "unshelved"}, sid[s] = x.id,
                      srow[s] \notin removed
               PROVE  /\ x.deck \in GetBookmarkedDecks(x.user)
                      /\ RowOf(x) \in mastered \/ InProgress(x.user) \cap unset # {}
                           \/ \A shown \in GetInProgressDecks(x.user) : x.deck \in shown
    BY DEF StudiedIsListed
  <2>1. srow[s] = <<x.user, x.deck>> /\ x.deck \in deck /\ RowOf(x) = <<x.user, x.deck>>
    BY DEF OwnSession, RowOf, TypeOK
  <2>2. spc[s] = "started"
    BY <2>1 DEF Shelved
  <2>3. x.deck \in GetBookmarkedDecks(x.user)
    BY <2>1, <2>2 DEF Shelved, GetBookmarkedDecks
  <2>4. HasSession(x.user, x.deck)
    BY DEF HasSession, RowOf
  <2>5. RowOf(x) \in mastered \/ x.deck \in InProgress(x.user)
    BY <2>1, <2>3, <2>4 DEF InProgress
  <2>6. InProgress(x.user) \cap unset = {} =>
          GetInProgressDecks(x.user) = {InProgress(x.user)}
    BY DEF GetInProgressDecks, Scanned
  <2> QED
    BY <2>3, <2>5, <2>6
<1> QED
  BY TypeCorrect, <1>1, <1>2, <1>3, PTL DEF Spec
=============================================================================
