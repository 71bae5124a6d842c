----------------------------- MODULE Documents ------------------------------
(***************************************************************************)
(* The header image of a deck (models/document.go, api/document.go): the   *)
(* rows of documents for ("deck_header", deck), which no key keeps to one, *)
(* and decks.header_image_url, which is to point to them.  Upload, Delete  *)
(* and the deck's own PUT write them, one autocommitted statement after    *)
(* another.  References do not meet, so there is one; those of another     *)
(* docType are uploads and removals without the link.                      *)
(***************************************************************************)
EXTENDS Integers, FiniteSets

CONSTANTS Uploads,       \* each element is one PUT /api/documents/...
          Removals,      \* each element is one DELETE /api/documents/...
          Edits,         \* each element is one PUT /api/decks/{id}
          MaxFaults,     \* bound on failing statements
          Nobody

Requests == Uploads \cup Removals \cup Edits

ASSUME DocumentsAssumption ==
  /\ Nobody \notin Requests /\ MaxFaults \in Nat
  /\ Uploads \cap Removals = {} /\ Uploads \cap Edits = {} /\ Removals \cap Edits = {}

VARIABLES deck,          \* decks: is the row there?
          docs,          \* documents: the uploads whose row is there
          url,           \* decks.header_image_url
          upc, rpc, epc, \* where each request is
          held,          \* the URL an edit will write
          \* History, not read by any action.
          spared,        \* per upload, the rows its DELETE left, or missed
          swept,         \* uploads whose row was deleted before they linked it
          sole,          \* who alone has written since its first write
          faults

tables  == <<deck, docs, url>>
history == <<spared, swept, sole>>
vars    == <<tables, upc, rpc, epc, held, history, faults>>

\* No image, the document's own URL, or another the author has typed.
URLs == {"none", "document", "elsewhere"}

\* "lost": answered 500 between DELETE and INSERT; "unlinked": 500 after the
\* INSERT; "dangling": answered 200, the URL not cleared.
TypeOK ==
  /\ deck \in {"live", "gone"}
  /\ docs \subseteq Uploads
  /\ url \in URLs
  /\ upc \in [Uploads -> {"clear", "insert", "link", "done", "lost", "unlinked"}]
  /\ rpc \in [Removals -> {"remove", "unlink", "done", "failed", "dangling"}]
  /\ epc \in [Edits -> {"read", "write", "done", "failed"}]
  /\ held \in [Edits -> URLs]
  /\ spared \in [Uploads -> SUBSET Uploads]
  /\ swept \subseteq Uploads
  /\ sole \in Requests \cup {Nobody}
  /\ faults \in 0..MaxFaults

\* The POST of a deck may bring a URL, but not that of a deck without an id yet.
Init ==
  /\ deck = "live" /\ docs = {} /\ url \in {"none", "elsewhere"}
  /\ upc = [u \in Uploads |-> "clear"]
  /\ rpc = [r \in Removals |-> "remove"]
  /\ epc = [e \in Edits |-> "read"]
  /\ held = [e \in Edits |-> "none"]
  /\ spared = [u \in Uploads |-> {}]
  /\ swept = {} /\ sole = Nobody
  /\ faults = 0

Fault == faults < MaxFaults /\ faults' = faults + 1

\* Request q writes; it is the first write of q or not.
Began(q)     == sole' = q
Continues(q) == sole' = IF sole = q THEN q ELSE Nobody

\* Mutant: DELETE by the id that GetByRef returned, as if there were one row.
DeleteOneRow == \E gone \in SUBSET docs :
                  /\ Cardinality(gone) = IF docs = {} THEN 0 ELSE 1
                  /\ docs' = docs \ gone
                  /\ swept' = swept \cup {u \in gone : upc[u] = "link"}

\* DELETE FROM documents of the reference.
DeleteByRef == /\ docs' = {}
               /\ swept' = swept \cup {u \in docs : upc[u] = "link"}

\* UPDATE decks SET header_image_url: without a row, no error.
SetURL(value) == url' = IF deck = "live" THEN value ELSE url

-----------------------------------------------------------------------------
(* Upload: Upsert, then UpdateHeaderImageURL *)

\* Nothing is asked of the deck.
ClearOld(u) ==
  /\ upc[u] = "clear"
  /\ DeleteByRef /\ Began(u)
  /\ spared' = [spared EXCEPT ![u] = {}]
  /\ upc' = [upc EXCEPT ![u] = "insert"]
  /\ UNCHANGED <<deck, url, rpc, epc, held, faults>>

\* Upsert does not look at the error of its DELETE.
ClearOldFails(u) ==
  /\ upc[u] = "clear"
  /\ Fault
  /\ spared' = [spared EXCEPT ![u] = docs]
  /\ upc' = [upc EXCEPT ![u] = "insert"]
  /\ UNCHANGED <<tables, rpc, epc, held, swept, sole>>

Insert(u) ==
  /\ upc[u] = "insert"
  /\ docs' = docs \cup {u}
  /\ Continues(u)
  /\ spared' = [o \in Uploads |-> IF upc[o] = "insert" /\ o # u
                                     THEN spared[o] \cup {u} ELSE spared[o]]
  /\ upc' = [upc EXCEPT ![u] = "link"]
  /\ UNCHANGED <<deck, url, rpc, epc, held, swept, faults>>

\* Mutant: the name of the file for the URL.
LinkFilename(u) ==
  /\ upc[u] = "link"
  /\ SetURL("filename") /\ Continues(u)
  /\ upc' = [upc EXCEPT ![u] = "done"]
  /\ UNCHANGED <<deck, docs, rpc, epc, held, spared, swept, faults>>

\* Mutant: a URL the author has typed wins.
LinkIfNone(u) ==
  /\ upc[u] = "link"
  /\ SetURL(IF url = "none" THEN "document" ELSE url) /\ Continues(u)
  /\ upc' = [upc EXCEPT ![u] = "done"]
  /\ UNCHANGED <<deck, docs, rpc, epc, held, spared, swept, faults>>

Link(u) ==
  /\ upc[u] = "link"
  /\ SetURL("document") /\ Continues(u)
  /\ upc' = [upc EXCEPT ![u] = "done"]
  /\ UNCHANGED <<deck, docs, rpc, epc, held, spared, swept, faults>>

\* INSERT or UPDATE fails: 500, and what was done stays.
UploadFails(u) ==
  /\ upc[u] \in {"insert", "link"}
  /\ Fault
  /\ upc' = [upc EXCEPT ![u] = IF @ = "insert" THEN "lost" ELSE "unlinked"]
  /\ UNCHANGED <<tables, rpc, epc, held, history>>

-----------------------------------------------------------------------------
(* Delete *)

\* Mutant: the reference for the id of the row, so DELETE finds none.
RemoveById(r) ==
  /\ rpc[r] = "remove"
  /\ Began(r)
  /\ rpc' = [rpc EXCEPT ![r] = "unlink"]
  /\ UNCHANGED <<deck, docs, url, upc, epc, held, spared, swept, faults>>

Remove(r) ==
  /\ rpc[r] = "remove"
  /\ DeleteByRef /\ Began(r)
  /\ rpc' = [rpc EXCEPT ![r] = "unlink"]
  /\ UNCHANGED <<deck, url, upc, epc, held, spared, faults>>

RemoveFails(r) ==
  /\ rpc[r] = "remove"
  /\ Fault
  /\ rpc' = [rpc EXCEPT ![r] = "failed"]
  /\ UNCHANGED <<tables, upc, epc, held, history>>

\* Mutant: the handler without its DeckModel: nothing is cleared.
UnlinkNothing(r) ==
  /\ rpc[r] = "unlink"
  /\ Continues(r)
  /\ rpc' = [rpc EXCEPT ![r] = "done"]
  /\ UNCHANGED <<deck, docs, url, upc, epc, held, spared, swept, faults>>

Unlink(r) ==
  /\ rpc[r] = "unlink"
  /\ SetURL("none") /\ Continues(r)
  /\ rpc' = [rpc EXCEPT ![r] = "done"]
  /\ UNCHANGED <<deck, docs, upc, epc, held, spared, swept, faults>>

\* The error of the UPDATE is ignored.
UnlinkFails(r) ==
  /\ rpc[r] = "unlink"
  /\ Fault
  /\ rpc' = [rpc EXCEPT ![r] = "dangling"]
  /\ UNCHANGED <<tables, upc, epc, held, history>>

-----------------------------------------------------------------------------
(* The deck *)

\* The PUT of a deck keeps the URL it has read, or takes one from its body.
ReadDeck(e) ==
  /\ epc[e] = "read" /\ deck = "live"
  /\ \E value \in {url} \cup URLs : held' = [held EXCEPT ![e] = value]
  /\ epc' = [epc EXCEPT ![e] = "write"]
  /\ UNCHANGED <<tables, upc, rpc, history, faults>>

\* It writes every column, the URL among them.
WriteDeck(e) ==
  /\ epc[e] = "write"
  /\ SetURL(held[e]) /\ Began(e)
  /\ epc' = [epc EXCEPT ![e] = "done"]
  /\ UNCHANGED <<deck, docs, upc, rpc, held, spared, swept, faults>>

EditFails(e) ==
  /\ epc[e] = "write"
  /\ Fault
  /\ epc' = [epc EXCEPT ![e] = "failed"]
  /\ UNCHANGED <<tables, upc, rpc, held, history>>

\* documents has no foreign key: its rows outlive the deck.
DeleteDeck ==
  /\ deck = "live"
  /\ deck' = "gone" /\ url' = "none" /\ sole' = Nobody
  /\ UNCHANGED <<docs, upc, rpc, epc, held, spared, swept, faults>>

Next ==
  \/ \E u \in Uploads : \/ ClearOld(u) \/ ClearOldFails(u) \/ Insert(u)
                        \/ Link(u) \/ UploadFails(u)
  \/ \E r \in Removals : Remove(r) \/ RemoveFails(r) \/ Unlink(r) \/ UnlinkFails(r)
  \/ \E e \in Edits : ReadDeck(e) \/ WriteDeck(e) \/ EditFails(e)
  \/ DeleteDeck

Spec == Init /\ [][Next]_vars

-----------------------------------------------------------------------------
\* GetByRef takes any row of the reference.  Two are there only if one upload was
\* spared by the DELETE of the other: it failed, or the row came after it
\* (models/document.go:61-69).
RowsAccounted ==
  \A a, b \in docs : a # b => a \in spared[b] \/ b \in spared[a]

\* The URL of a deck points to no document only while an upload or a removal is
\* between its statements, after one that failed there, after an upload that
\* linked a row a removal had just deleted, or because an edit wrote it
\* (api/document.go:86-97, 113-119, api/deck.go:216-221).
DeadLinkAccounted ==
  (url = "document" /\ docs = {}) =>
     \/ \E u \in Uploads : upc[u] \in {"insert", "lost"}
     \/ \E r \in Removals : rpc[r] \in {"unlink", "dangling"}
     \/ \E u \in swept : upc[u] = "done"
     \/ \E e \in Edits : epc[e] = "done" /\ held[e] = "document"

\* An upload nobody writes in between of leaves its own row, no other, and the
\* link to it, whatever rows, links and failures it found; and so it stays until
\* somebody writes (models/document.go:61-69, api/document.go:86-97).
LoneUploadSettles ==
  \A u \in Uploads :
    (sole = u /\ upc[u] = "done" /\ deck = "live") => docs = {u} /\ url = "document"

\* A removal nobody writes in between of leaves neither row nor link
\* (api/document.go:113-119).
LoneRemovalClears ==
  \A r \in Removals :
    (sole = r /\ rpc[r] = "done") => docs = {} /\ url = "none"
=============================================================================
