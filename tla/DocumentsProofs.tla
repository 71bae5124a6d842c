-------------------------- MODULE DocumentsProofs ---------------------------
(***************************************************************************)
(* Theorems about Documents, for any uploads, removals, edits and failures.*)
(***************************************************************************)
EXTENDS Documents, TLAPS

-----------------------------------------------------------------------------
(* Types *)

LEMMA InitType == Init => TypeOK
BY DocumentsAssumption DEF Init, TypeOK, URLs

LEMMA NextType == TypeOK /\ [Next]_vars => TypeOK'
<1> SUFFICES ASSUME TypeOK, [Next]_vars PROVE TypeOK'
  OBVIOUS
<1> USE DocumentsAssumption DEF Fault, Began, Continues, DeleteByRef, SetURL, tables, history,
        Requests
<1>1. ASSUME NEW u \in Uploads, ClearOld(u) \/ ClearOldFails(u) PROVE TypeOK'
  BY <1>1 DEF ClearOld, ClearOldFails, TypeOK
<1>2. ASSUME NEW u \in Uploads, Insert(u) PROVE TypeOK'
  <2>1. spared' \in [Uploads -> SUBSET Uploads]
    BY <1>2 DEF Insert, TypeOK
  <2> QED
    BY <1>2, <2>1 DEF Insert, TypeOK
<1>3. ASSUME NEW u \in Uploads, Link(u) PROVE TypeOK'
  BY <1>3 DEF Link, TypeOK, URLs
<1>4. ASSUME NEW u \in Uploads, UploadFails(u) PROVE TypeOK'
  BY <1>4 DEF UploadFails, TypeOK
<1>5. ASSUME NEW r \in Removals, Remove(r) \/ RemoveFails(r) PROVE TypeOK'
  BY <1>5 DEF Remove, RemoveFails, TypeOK
<1>6. ASSUME NEW r \in Removals, Unlink(r) \/ UnlinkFails(r) PROVE TypeOK'
  BY <1>6 DEF Unlink, UnlinkFails, TypeOK, URLs
<1>7. ASSUME NEW e \in Edits, ReadDeck(e) PROVE TypeOK'
  BY <1>7 DEF ReadDeck, TypeOK
<1>8. ASSUME NEW e \in Edits, WriteDeck(e) PROVE TypeOK'
  BY <1>8 DEF WriteDeck, TypeOK
<1>9. ASSUME NEW e \in Edits, EditFails(e) PROVE TypeOK'
  BY <1>9 DEF EditFails, TypeOK
<1>10. CASE DeleteDeck
  BY <1>10 DEF DeleteDeck, TypeOK, URLs
<1>11. CASE UNCHANGED vars
  BY <1>11 DEF vars, TypeOK
<1> QED
  BY <1>1, <1>2, <1>3, <1>4, <1>5, <1>6, <1>7, <1>8, <1>9, <1>10, <1>11 DEF Next

\* Tables and requests keep their types.
THEOREM TypeCorrect == Spec => []TypeOK
BY InitType, NextType, PTL DEF Spec

-----------------------------------------------------------------------------
(* How many rows *)

\* RowsAccounted is not inductive: an upload about to insert must have been spared
\* every row that is there.
RowsInv ==
  /\ RowsAccounted
  /\ \A u \in Uploads : upc[u] = "insert" => docs \subseteq spared[u]

LEMMA NextRows == TypeOK /\ RowsInv /\ [Next]_vars => RowsInv'
<1> SUFFICES ASSUME TypeOK, RowsInv, [Next]_vars PROVE RowsInv'
  OBVIOUS
<1> USE DEF tables, history, DeleteByRef
<1>1. ASSUME NEW u \in Uploads, ClearOld(u) PROVE RowsInv'
  BY <1>1 DEF ClearOld, RowsInv, RowsAccounted
<1>2. ASSUME NEW u \in Uploads, ClearOldFails(u) PROVE RowsInv'
  <2>1. upc[u] = "clear" /\ docs' = docs /\ spared'[u] = docs
    BY <1>2 DEF ClearOldFails, TypeOK
  <2>2. \A o \in Uploads \ {u} : spared'[o] = spared[o] /\ upc'[o] = upc[o]
    BY <1>2 DEF ClearOldFails, TypeOK
  <2>3. ASSUME NEW a \in docs', NEW b \in docs', a # b
        PROVE  a \in spared'[b] \/ b \in spared'[a]
    <3>1. a \in Uploads /\ b \in Uploads /\ a \in docs /\ b \in docs
      BY <2>1, <2>3 DEF TypeOK
    <3>2. CASE a = u \/ b = u
      BY <2>1, <3>1, <3>2
    <3>3. CASE a # u /\ b # u
      BY <2>2, <2>3, <3>1, <3>3 DEF RowsInv, RowsAccounted
    <3> QED
      BY <3>2, <3>3
  <2>4. ASSUME NEW o \in Uploads, upc'[o] = "insert" PROVE docs' \subseteq spared'[o]
    BY <2>1, <2>2, <2>4 DEF RowsInv
  <2> QED
    BY <2>3, <2>4 DEF RowsInv, RowsAccounted
<1>3. ASSUME NEW u \in Uploads, Insert(u) PROVE RowsInv'
  <2>1. /\ upc[u] = "insert" /\ docs' = docs \cup {u} /\ upc'[u] # "insert"
        /\ docs \subseteq Uploads /\ docs \subseteq spared[u]
    BY <1>3 DEF Insert, TypeOK, RowsInv
  <2>2. \A o \in Uploads : spared[o] \subseteq spared'[o]
    BY <1>3 DEF Insert
  <2>3. \A o \in Uploads \ {u} :
          upc'[o] = "insert" => upc[o] = "insert" /\ u \in spared'[o]
    BY <1>3 DEF Insert, TypeOK
  <2>4. ASSUME NEW a \in docs', NEW b \in docs', a # b
        PROVE  a \in spared'[b] \/ b \in spared'[a]
    BY <2>1, <2>2, <2>4 DEF RowsInv, RowsAccounted
  <2>5. ASSUME NEW o \in Uploads, upc'[o] = "insert" PROVE docs' \subseteq spared'[o]
    BY <2>1, <2>2, <2>3, <2>5 DEF RowsInv
  <2> QED
    BY <2>4, <2>5 DEF RowsInv, RowsAccounted
<1>4. ASSUME NEW r \in Removals, Remove(r) PROVE RowsInv'
  BY <1>4 DEF Remove, RowsInv, RowsAccounted
<1>5. ASSUME NEW u \in Uploads, Link(u) \/ UploadFails(u) PROVE RowsInv'
  BY <1>5 DEF Link, UploadFails, TypeOK, RowsInv, RowsAccounted
<1>6. ASSUME UNCHANGED <<docs, spared, upc>> PROVE RowsInv'
  BY <1>6 DEF RowsInv, RowsAccounted
<1> QED
  BY <1>1, <1>2, <1>3, <1>4, <1>5, <1>6
     DEF Next, vars, RemoveFails, Unlink, UnlinkFails, ReadDeck, WriteDeck, EditFails,
         DeleteDeck

\* For any number of uploads and failures: two rows are there only if one upload
\* was spared by the DELETE of the other.
THEOREM RowsTheorem == Spec => []RowsAccounted
<1>1. Init => RowsInv
  BY DEF Init, RowsInv, RowsAccounted
<1>2. RowsInv => RowsAccounted
  BY DEF RowsInv
<1> QED
  BY <1>1, <1>2, NextRows, TypeCorrect, PTL DEF Spec

-----------------------------------------------------------------------------
(* Requests nobody writes in between of *)

\* What the request that alone has written since it began has done so far.
SoleInv ==
  /\ \A u \in Uploads : sole = u =>
       /\ upc[u] \in {"insert", "link", "done", "lost", "unlinked"}
       /\ upc[u] = "insert" => docs = {}
       /\ upc[u] = "link" => docs = {u}
       /\ (upc[u] = "done" /\ deck = "live") => docs = {u} /\ url = "document"
  /\ \A r \in Removals : sole = r =>
       /\ rpc[r] \in {"unlink", "done", "dangling"} /\ docs = {}
       /\ rpc[r] = "done" => url = "none"

\* The URL of a deck that is gone.
GoneInv == deck = "gone" => url = "none"

LEMMA NextSole == TypeOK /\ SoleInv /\ GoneInv /\ [Next]_vars => SoleInv' /\ GoneInv'
<1> SUFFICES ASSUME TypeOK, SoleInv, GoneInv, [Next]_vars PROVE SoleInv' /\ GoneInv'
  OBVIOUS
<1> USE DocumentsAssumption DEF Requests, Fault, Began, Continues, DeleteByRef, SetURL,
        tables, history, GoneInv
<1>1. ASSUME NEW u \in Uploads, ClearOld(u) PROVE SoleInv' /\ GoneInv'
  BY <1>1 DEF ClearOld, TypeOK, SoleInv
<1>2. ASSUME NEW u \in Uploads, ClearOldFails(u) PROVE SoleInv' /\ GoneInv'
  BY <1>2 DEF ClearOldFails, TypeOK, SoleInv
<1>3. ASSUME NEW u \in Uploads, Insert(u) PROVE SoleInv' /\ GoneInv'
  BY <1>3 DEF Insert, TypeOK, SoleInv
<1>4. ASSUME NEW u \in Uploads, Link(u) PROVE SoleInv' /\ GoneInv'
  BY <1>4 DEF Link, TypeOK, SoleInv
<1>5. ASSUME NEW u \in Uploads, UploadFails(u) PROVE SoleInv' /\ GoneInv'
  BY <1>5 DEF UploadFails, TypeOK, SoleInv
<1>6. ASSUME NEW r \in Removals, Remove(r) PROVE SoleInv' /\ GoneInv'
  BY <1>6 DEF Remove, TypeOK, SoleInv
<1>7. ASSUME NEW r \in Removals, RemoveFails(r) \/ UnlinkFails(r)
      PROVE  SoleInv' /\ GoneInv'
  BY <1>7 DEF RemoveFails, UnlinkFails, TypeOK, SoleInv
<1>8. ASSUME NEW r \in Removals, Unlink(r) PROVE SoleInv' /\ GoneInv'
  BY <1>8 DEF Unlink, TypeOK, SoleInv
<1>9. ASSUME NEW e \in Edits, WriteDeck(e) PROVE SoleInv' /\ GoneInv'
  BY <1>9 DEF WriteDeck, TypeOK, SoleInv
<1>10. ASSUME NEW e \in Edits, ReadDeck(e) \/ EditFails(e) PROVE SoleInv' /\ GoneInv'
  BY <1>10 DEF ReadDeck, EditFails, TypeOK, SoleInv
<1>11. CASE DeleteDeck
  BY <1>11 DEF DeleteDeck, TypeOK, SoleInv
<1>12. CASE UNCHANGED vars
  BY <1>12 DEF vars, SoleInv
<1> QED
  BY <1>1, <1>2, <1>3, <1>4, <1>5, <1>6, <1>7, <1>8, <1>9, <1>10, <1>11, <1>12 DEF Next

LEMMA SoleCorrect == Spec => [](SoleInv /\ GoneInv)
<1>1. Init => SoleInv /\ GoneInv
  BY DocumentsAssumption DEF Init, SoleInv, GoneInv, Requests
<1> QED
  BY <1>1, NextSole, TypeCorrect, PTL DEF Spec

\* For any requests and failures: an upload or a removal nobody writes in between
\* of leaves row and link together, whatever it found.
THEOREM SoleTheorem == Spec => [](LoneUploadSettles /\ LoneRemovalClears)
<1>1. SoleInv => LoneUploadSettles /\ LoneRemovalClears
  BY DEF SoleInv, LoneUploadSettles, LoneRemovalClears
<1> QED
  BY <1>1, SoleCorrect, PTL

\* For any requests and failures: a removal nobody writes in between of leaves
\* neither row nor link.
THEOREM RemovalTheorem == Spec => []LoneRemovalClears
BY SoleTheorem, PTL

-----------------------------------------------------------------------------
(* Links to nothing *)

\* DeadLinkAccounted is not inductive: an upload about to link has its row in the
\* table, or somebody has deleted it.
LinkInv ==
  /\ DeadLinkAccounted
  /\ \A u \in Uploads : upc[u] = "link" => u \in docs \cup swept

LEMMA NextLink == TypeOK /\ GoneInv /\ LinkInv /\ [Next]_vars => LinkInv'
<1> SUFFICES ASSUME TypeOK, GoneInv, LinkInv, [Next]_vars PROVE LinkInv'
  OBVIOUS
<1> USE DEF Fault, DeleteByRef, SetURL, tables, history
<1>1. ASSUME NEW u \in Uploads, ClearOld(u) \/ ClearOldFails(u) PROVE LinkInv'
  BY <1>1 DEF ClearOld, ClearOldFails, TypeOK, LinkInv, DeadLinkAccounted
<1>2. ASSUME NEW u \in Uploads, Insert(u) PROVE LinkInv'
  BY <1>2 DEF Insert, TypeOK, LinkInv, DeadLinkAccounted
<1>3. ASSUME NEW u \in Uploads, Link(u) PROVE LinkInv'
  BY <1>3 DEF Link, TypeOK, LinkInv, DeadLinkAccounted
<1>4. ASSUME NEW u \in Uploads, UploadFails(u) PROVE LinkInv'
  BY <1>4 DEF UploadFails, TypeOK, LinkInv, DeadLinkAccounted
<1>5. ASSUME NEW r \in Removals, Remove(r) PROVE LinkInv'
  BY <1>5 DEF Remove, TypeOK, LinkInv, DeadLinkAccounted
<1>6. ASSUME NEW r \in Removals, RemoveFails(r) \/ UnlinkFails(r) PROVE LinkInv'
  BY <1>6 DEF RemoveFails, UnlinkFails, TypeOK, LinkInv, DeadLinkAccounted
<1>7. ASSUME NEW r \in Removals, Unlink(r) PROVE LinkInv'
  BY <1>7 DEF Unlink, TypeOK, GoneInv, LinkInv, DeadLinkAccounted
<1>8. ASSUME NEW e \in Edits, WriteDeck(e) \/ ReadDeck(e) \/ EditFails(e) PROVE LinkInv'
  BY <1>8 DEF WriteDeck, ReadDeck, EditFails, TypeOK, LinkInv, DeadLinkAccounted
<1>9. CASE DeleteDeck
  BY <1>9 DEF DeleteDeck, LinkInv, DeadLinkAccounted
<1>10. CASE UNCHANGED vars
  BY <1>10 DEF vars, LinkInv, DeadLinkAccounted
<1> QED
  BY <1>1, <1>2, <1>3, <1>4, <1>5, <1>6, <1>7, <1>8, <1>9, <1>10 DEF Next

\* For any requests and failures, a link to nothing has one of four causes.
THEOREM DeadLinkTheorem == Spec => []DeadLinkAccounted
<1>1. Init => LinkInv
  BY DEF Init, LinkInv, DeadLinkAccounted
<1>2. LinkInv => DeadLinkAccounted
  BY DEF LinkInv
<1> QED
  BY <1>1, <1>2, NextLink, SoleCorrect, TypeCorrect, PTL DEF Spec
=============================================================================
