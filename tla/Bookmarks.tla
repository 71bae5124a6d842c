----------------------------- MODULE Bookmarks ------------------------------
(***************************************************************************)
(* Bookmarks and the deck lists (models/bookmark.go, the list queries of   *)
(* models/deck.go, api/deck.go:22-85, 256-281, api/profile.go:54-76).      *)
(* Toggles and starting sessions run as processes, one step a statement;   *)
(* what else moves a deck from list to list is one statement each.         *)
(*                                                                         *)
(* Deck and session ids are numbers from two sequences, because the list   *)
(* queries compare them.  Of the mastery only "100" is told apart: what it *)
(* is computed from is in Study.  Order, paging and search text of the     *)
(* lists are left out.                                                     *)
(***************************************************************************)
EXTENDS Integers

CONSTANTS Users, Decks,
          Author,      \* decks.author_id
          Toggles,     \* each element is one POST /api/decks/{id}/bookmark
          Starts,      \* each element is one POST /api/decks/{id}/study
          Nowhere,     \* no row
          MaxFaults    \* bound on failing statements

Rows == Users \X Decks

ASSUME BookmarksAssumption ==
  /\ Decks \subseteq Nat \ {0}
  /\ Author \in [Decks -> Users]
  /\ Nowhere \notin Rows
  /\ MaxFaults \in Nat

VARIABLES deck,        \* decks that are there
          public,      \* decks.is_public
          unset,       \* decks.header_image_url IS NULL
          bookmarks,
          sessions,    \* rows of study_sessions; open: completed_at IS NULL
          nextId,      \* the sequence behind study_sessions.id
          mastered,    \* user_deck_mastery rows with 100 percent
          tpc, trow,   \* Toggle: where it is, and the row it is about
          spc, srow, sid,  \* Start, and the session it created
          faults,
          \* History, not read by any action.
          was,         \* was there a bookmark when the toggle looked
          misread,     \* toggles whose look failed
          alone,       \* toggles whose row nobody else changed since
          removed      \* rows that a toggle removed after they were last added

lists   == <<deck, public, unset, sessions, nextId, mastered>>
toggles == <<tpc, trow, was, misread>>
starts  == <<spc, srow, sid>>
vars    == <<lists, bookmarks, toggles, starts, faults, alone, removed>>

SessionRows == [id : Nat \ {0}, user : Users, deck : Decks, open : BOOLEAN]
RowOf(x)    == <<x.user, x.deck>>

TypeOK ==
  /\ deck \subseteq Decks /\ public \subseteq Decks /\ unset \subseteq Decks
  \* The foreign keys.
  /\ bookmarks \subseteq Users \X deck /\ mastered \subseteq Users \X deck
  /\ sessions \subseteq {x \in SessionRows : x.deck \in deck /\ x.id < nextId}
  /\ nextId \in Nat \ {0}
  /\ tpc \in [Toggles -> {"idle", "remove", "add", "removed", "added", "failed"}]
  /\ trow \in [Toggles -> Rows \cup {Nowhere}]
  /\ \A t \in Toggles : tpc[t] # "idle" => trow[t] \in Rows
  /\ spc \in [Starts -> {"idle", "insert", "shelve", "started", "unshelved", "lost",
                          "refused"}]
  /\ srow \in [Starts -> Rows \cup {Nowhere}]
  /\ \A s \in Starts : spc[s] # "idle" => srow[s] \in Rows
  /\ sid \in [Starts -> Nat]
  /\ faults \in 0..MaxFaults
  /\ was \in [Toggles -> BOOLEAN]
  /\ misread \subseteq Toggles /\ alone \subseteq Toggles
  /\ removed \subseteq Rows

\* Only the seed leaves a header_image_url out; Create always writes one.
Init ==
  /\ deck = Decks /\ public \in SUBSET Decks /\ unset \in SUBSET Decks
  /\ bookmarks = {} /\ sessions = {} /\ nextId = 1 /\ mastered = {}
  /\ tpc = [t \in Toggles |-> "idle"] /\ trow = [t \in Toggles |-> Nowhere]
  /\ spc = [s \in Starts |-> "idle"] /\ srow = [s \in Starts |-> Nowhere]
  /\ sid = [s \in Starts |-> 0]
  /\ faults = 0
  /\ was = [t \in Toggles |-> FALSE]
  /\ misread = {} /\ alone = {} /\ removed = {}

Fault == faults < MaxFaults /\ faults' = faults + 1

TStep(t, step) == tpc' = [tpc EXCEPT ![t] = step]
SStep(s, step) == spc' = [spc EXCEPT ![s] = step]

\* Who is alone once these rows have been written by someone else.
Undisturbed(rows) == {t \in alone : trow[t] \notin rows}

-----------------------------------------------------------------------------
(* POST /api/decks/{id}/bookmark *)

\* IsBookmarked; an error of its statement reads as no.
Decide(t) ==
  /\ tpc[t] = "idle"
  /\ \E r \in Rows :
       /\ trow' = [trow EXCEPT ![t] = r]
       /\ was' = [was EXCEPT ![t] = r \in bookmarks]
       /\ \/ TStep(t, IF r \in bookmarks THEN "remove" ELSE "add")
             /\ UNCHANGED <<faults, misread>>
          \/ TStep(t, "add") /\ Fault /\ misread' = misread \cup {t}
  /\ alone' = alone \cup {t}
  /\ UNCHANGED <<lists, bookmarks, starts, removed>>

\* Mutant: DELETE ... WHERE user_id = $1.
RemoveAll(t) ==
  /\ tpc[t] = "remove"
  /\ bookmarks' = {r \in bookmarks : r[1] # trow[t][1]}
  /\ removed' = removed \cup {trow[t]}
  /\ alone' = Undisturbed(bookmarks \cap {trow[t]}) \cup (alone \cap {t})
  /\ TStep(t, "removed")
  /\ UNCHANGED <<lists, trow, was, misread, starts, faults>>

\* DELETE.
Remove(t) ==
  /\ tpc[t] = "remove"
  /\ bookmarks' = bookmarks \ {trow[t]}
  /\ removed' = removed \cup {trow[t]}
  /\ alone' = Undisturbed(bookmarks \cap {trow[t]}) \cup (alone \cap {t})
  /\ TStep(t, "removed")
  /\ UNCHANGED <<lists, trow, was, misread, starts, faults>>

\* Mutant: bookmarks has no foreign key to decks.
AddUnchecked(t) ==
  /\ tpc[t] = "add"
  /\ bookmarks' = bookmarks \cup {trow[t]}
  /\ removed' = removed \ {trow[t]}
  /\ alone' = Undisturbed({trow[t]} \ bookmarks) \cup (alone \cap {t})
  /\ TStep(t, "added")
  /\ UNCHANGED <<lists, trow, was, misread, starts, faults>>

\* INSERT ... ON CONFLICT DO NOTHING.  The foreign key refuses a deck that is gone.
Add(t) ==
  /\ tpc[t] = "add"
  /\ IF trow[t][2] \in deck
       THEN /\ bookmarks' = bookmarks \cup {trow[t]}
            /\ removed' = removed \ {trow[t]}
            /\ alone' = Undisturbed({trow[t]} \ bookmarks) \cup (alone \cap {t})
            /\ TStep(t, "added")
       ELSE TStep(t, "failed") /\ UNCHANGED <<bookmarks, removed, alone>>
  /\ UNCHANGED <<lists, trow, was, misread, starts, faults>>

-----------------------------------------------------------------------------
(* Sessions *)

\* The deck is there, with cards.
BeginStart(s) ==
  /\ spc[s] = "idle"
  /\ \E r \in Rows : r[2] \in deck /\ srow' = [srow EXCEPT ![s] = r]
  /\ SStep(s, "insert")
  /\ UNCHANGED <<lists, bookmarks, toggles, sid, faults, alone, removed>>

\* SessionModel.Create.  An INSERT that is refused has used up its id.
InsertSession(s) ==
  /\ spc[s] = "insert"
  /\ IF srow[s][2] \in deck
       THEN /\ sessions' = sessions \cup
                 {[id |-> nextId, user |-> srow[s][1], deck |-> srow[s][2],
                   open |-> TRUE]}
            /\ sid' = [sid EXCEPT ![s] = nextId]
            /\ SStep(s, "shelve")
       ELSE SStep(s, "refused") /\ UNCHANGED <<sessions, sid>>
  /\ nextId' = nextId + 1
  /\ UNCHANGED <<deck, public, unset, mastered, bookmarks, toggles, srow, faults,
                 alone, removed>>

\* Mutant: only the first session of a deck bookmarks it.
ShelveFirst(s) ==
  /\ spc[s] = "shelve"
  /\ IF \A x \in sessions : RowOf(x) = srow[s] => x.id = sid[s]
       THEN /\ bookmarks' = bookmarks \cup {r \in {srow[s]} : r[2] \in deck}
            /\ removed' = removed \ {srow[s]}
            /\ alone' = Undisturbed({srow[s]} \ bookmarks)
       ELSE removed' = removed \ {srow[s]} /\ UNCHANGED <<bookmarks, alone>>
  /\ SStep(s, "started") /\ UNCHANGED faults
  /\ UNCHANGED <<lists, toggles, srow, sid>>

\* BookmarkModel.Add: its error, the foreign key's or another, is ignored.
Shelve(s) ==
  /\ spc[s] = "shelve"
  /\ \/ /\ srow[s][2] \in deck
        /\ bookmarks' = bookmarks \cup {srow[s]}
        /\ removed' = removed \ {srow[s]}
        /\ alone' = Undisturbed({srow[s]} \ bookmarks)
        /\ SStep(s, "started") /\ UNCHANGED faults
     \/ /\ srow[s][2] \notin deck
        /\ SStep(s, "unshelved")
        /\ UNCHANGED <<bookmarks, removed, alone, faults>>
     \/ /\ Fault
        /\ SStep(s, "lost")
        /\ UNCHANGED <<bookmarks, removed, alone>>
  /\ UNCHANGED <<lists, toggles, srow, sid>>

\* DELETE /api/decks/{id}/study.
Stop(r) ==
  /\ \E x \in sessions : RowOf(x) = r
  /\ sessions' = {x \in sessions : RowOf(x) # r}
  /\ UNCHANGED <<deck, public, unset, nextId, mastered, bookmarks, toggles, starts,
                 faults, alone, removed>>

\* The first statement of Complete.
Complete(x) ==
  /\ x.open
  /\ sessions' = (sessions \ {x}) \cup {[x EXCEPT !.open = FALSE]}
  /\ UNCHANGED <<deck, public, unset, nextId, mastered, bookmarks, toggles, starts,
                 faults, alone, removed>>

\* UpdateUserMastery after an answer to this session, up to 100 or away from it.
UpdateUserMastery(x) ==
  /\ mastered' = IF RowOf(x) \in mastered THEN mastered \ {RowOf(x)}
                                          ELSE mastered \cup {RowOf(x)}
  /\ UNCHANGED <<deck, public, unset, sessions, nextId, bookmarks, toggles, starts,
                 faults, alone, removed>>

-----------------------------------------------------------------------------
(* PUT and DELETE /api/decks/{id} by the author *)

\* A header_image_url the body leaves out is written back as GetById read it, as ''.
Update(d) ==
  /\ d \in deck
  /\ public' = IF d \in public THEN public \ {d} ELSE public \cup {d}
  /\ unset' = unset \ {d}
  /\ UNCHANGED <<deck, sessions, nextId, mastered, bookmarks, toggles, starts,
                 faults, alone, removed>>

\* After an upload or a removal of the header (api/document.go).
UpdateHeaderImageURL(d) ==
  /\ d \in deck
  /\ unset' = unset \ {d}
  /\ UNCHANGED <<deck, public, sessions, nextId, mastered, bookmarks, toggles,
                 starts, faults, alone, removed>>

\* With the cascades to three tables.
DeleteDeck(d) ==
  /\ d \in deck
  /\ deck' = deck \ {d}
  /\ sessions' = {x \in sessions : x.deck # d}
  /\ bookmarks' = {r \in bookmarks : r[2] # d}
  /\ mastered' = {r \in mastered : r[2] # d}
  /\ alone' = Undisturbed({r \in bookmarks : r[2] = d})
  /\ unset' = unset \ {d}
  /\ UNCHANGED <<public, nextId, toggles, starts, faults, removed>>

Next ==
  \/ \E t \in Toggles : Decide(t) \/ Remove(t) \/ Add(t)
  \/ \E s \in Starts : BeginStart(s) \/ InsertSession(s) \/ Shelve(s)
  \/ \E r \in Rows : Stop(r)
  \/ \E x \in sessions : Complete(x) \/ UpdateUserMastery(x)
  \/ \E d \in Decks : Update(d) \/ UpdateHeaderImageURL(d) \/ DeleteDeck(d)

Spec == Init /\ [][Next]_vars

-----------------------------------------------------------------------------
(* The lists *)

HasSession(u, d) == \E x \in sessions : RowOf(x) = <<u, d>>

\* What the rows of a query are scanned into.  The lists of the bookmark model
\* select d.*, and a NULL does not fit into HeaderImageURL: the scan stops at such a
\* row, GetMe ignores the error, and the rows before it, in any order, are shown.
Scanned(rows) == IF rows \cap unset = {} THEN {rows} ELSE SUBSET (rows \ unset)

\* Of DeckModel, for GET /api/decks/bookmarks: it reads a NULL as ''.
GetBookmarkedDecks(u) == {d \in deck : <<u, d>> \in bookmarks}

\* The rows of GetInProgressDecks, and the lists that GetMe may show of them.
InProgress(u) ==
  {d \in GetBookmarkedDecks(u) : <<u, d>> \notin mastered /\ HasSession(u, d)}
GetInProgressDecks(u) == Scanned(InProgress(u))

GetAll(u)  == {d \in deck : d \in public \/ Author[d] = u}
GetPopular == deck \cap public      \* and Search, of those that match
GetByAuthor(a, includePrivate) ==
  {d \in deck : Author[d] = a /\ (includePrivate \/ d \in public)}

\* Every list a user may be shown, his own decks on his own page included.
Listings(u) == GetAll(u) \cup GetPopular \cup UNION {GetByAuthor(a, a = u) : a \in Users}

\* has_active_session where the query names the deck: GetById, GetBookmarkedDecks.
HasActiveSession(u, d) ==
  \E x \in sessions : x.user = u /\ x.deck = d /\ x.open

\* And in GetAll, GetByAuthor, GetPopular and Search.  Inside the subquery id is
\* study_sessions.id, so the deck of the list does not come into it.
ListFlag(u) == \E x \in sessions : x.user = u /\ x.deck = x.id /\ x.open

-----------------------------------------------------------------------------
\* A toggle whose row nobody else writes between its look and its answer leaves
\* the opposite of what was there, unless the look itself failed: then it adds,
\* and answers "bookmarked", whatever there was (models/bookmark.go:24-54).
LoneToggleFlips ==
  \A t \in alone :
    tpc[t] \in {"removed", "added"} =>
      \/ (trow[t] \in bookmarks) = ~was[t]
      \/ t \in misread /\ trow[t] \in bookmarks

\* While there is a session whose Start did not lose the bookmark to a failure, its
\* deck is in the list of bookmarks and, until it is mastered, in the list of decks
\* in progress, however toggles, other sessions, deletes and Stop interleave, unless
\* a toggle has removed it since, or a deck without a header_image_url cuts the list
\* of decks in progress short (api/session.go:60-63, api/profile.go:66-67).
StudiedIsListed ==
  \A s \in Starts, x \in sessions :
    (spc[s] \in {"started", "unshelved"} /\ sid[s] = x.id /\ srow[s] \notin removed) =>
      /\ x.deck \in GetBookmarkedDecks(x.user)
      /\ RowOf(x) \in mastered \/ InProgress(x.user) \cap unset # {}
           \/ \A shown \in GetInProgressDecks(x.user) : x.deck \in shown

\* In every list has_active_session says whether the viewer has an unfinished
\* session of that deck, as on the page of the deck (models/deck.go:54, 92).
ListFlagExact ==
  \A u \in Users : \A d \in Listings(u) : ListFlag(u) = HasActiveSession(u, d)
=============================================================================
