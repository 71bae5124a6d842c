------------------------ MODULE SubscriptionsProofs -------------------------
(***************************************************************************)
(* Proofs about subscribers_count.                                         *)
(***************************************************************************)
EXTENDS Subscriptions, FiniteSetTheorems, TLAPS

-----------------------------------------------------------------------------
(* Types *)

LEMMA InitType == Init => TypeOK
BY SubscriptionsAssumption DEF Init, TypeOK, Keys

LEMMA NextType == TypeOK /\ [Next]_vars => TypeOK'
<1> SUFFICES ASSUME TypeOK, [Next]_vars PROVE TypeOK'
  OBVIOUS
<1> USE SubscriptionsAssumption DEF Goto, InSubscribe, InUnsubscribe, InFlight, Answered
<1>1. ASSUME NEW t \in Toggles, Submit(t) PROVE TypeOK'
  BY <1>1 DEF Submit, TypeOK
<1>2. ASSUME NEW t \in Toggles, Check(t) PROVE TypeOK'
  BY <1>2 DEF Check, TypeOK
<1>3. ASSUME NEW t \in Toggles, InsertRow(t) PROVE TypeOK'
  BY <1>3 DEF InsertRow, TypeOK
<1>4. ASSUME NEW t \in Toggles, DeleteRow(t) PROVE TypeOK'
  BY <1>4 DEF DeleteRow, TypeOK
<1>5. ASSUME NEW t \in Toggles, UpdateCount(t) PROVE TypeOK'
  BY <1>5 DEF UpdateCount, TypeOK
<1>6. ASSUME NEW t \in Toggles, CommitSubscribe(t) PROVE TypeOK'
  <2>1. key[t] \in Keys /\ Creator(t) \in Users
    BY <1>6 DEF CommitSubscribe, TypeOK, Keys, Creator
  <2> QED
    BY <1>6, <2>1 DEF CommitSubscribe, TypeOK
<1>7. ASSUME NEW t \in Toggles, CommitUnsubscribe(t) PROVE TypeOK'
  <2>1. Creator(t) \in Users
    BY <1>7 DEF CommitUnsubscribe, TypeOK, Keys, Creator
  <2>2. (IF count[Creator(t)] > 0 THEN count[Creator(t)] - 1 ELSE count[Creator(t)]) \in Nat
    BY <2>1 DEF TypeOK
  <2> QED
    BY <1>7, <2>1, <2>2 DEF CommitUnsubscribe, TypeOK
<1>8. ASSUME NEW t \in Toggles, CheckFails(t) PROVE TypeOK'
  BY <1>8 DEF CheckFails, TypeOK
<1>9. ASSUME NEW t \in Toggles, Abort(t) PROVE TypeOK'
  BY <1>9 DEF Abort, TypeOK
<1>10. CASE UNCHANGED vars
  BY <1>10 DEF vars, TypeOK
<1> QED
  BY <1>1, <1>2, <1>3, <1>4, <1>5, <1>6, <1>7, <1>8, <1>9, <1>10
     DEF Next, Handler, Finished

\* Tables and requests keep their types; no subscription to oneself appears.
THEOREM TypeCorrect == Spec => []TypeOK
<1>1. TypeOK /\ [Next]_vars => TypeOK'
  BY NextType
<1> QED
  BY InitType, <1>1, PTL DEF Spec

-----------------------------------------------------------------------------
(* Who holds the row of a pair *)

InTransaction == InSubscribe \cup InUnsubscribe

\* What a transaction has done to its row: it has inserted one that is not in
\* the table, or deleted one that is, and nobody else has touched it.
RowHeld ==
  \A t \in Toggles :
    /\ pc[t] \in {"idle", "check", "insert", "delete"} => ~wrote[t]
    /\ pc[t] \in {"countDown", "commitDown"} => wrote[t]
    /\ (wrote[t] /\ pc[t] \in InSubscribe)   => key[t] \notin rows
    /\ (wrote[t] /\ pc[t] \in InUnsubscribe) => key[t] \in rows
    /\ \A o \in Toggles \ {t} :
         (/\ wrote[t] /\ pc[t] \in InTransaction
          /\ wrote[o] /\ pc[o] \in InTransaction) => key[o] # key[t]

LEMMA InitHeld == Init => RowHeld
BY DEF Init, RowHeld, InSubscribe, InUnsubscribe, InTransaction

LEMMA NextHeld == TypeOK /\ RowHeld /\ [Next]_vars => RowHeld'
<1> SUFFICES ASSUME TypeOK, RowHeld, [Next]_vars PROVE RowHeld'
  OBVIOUS
<1> USE DEF Goto, InSubscribe, InUnsubscribe, InTransaction
<1>1. ASSUME NEW t \in Toggles, Submit(t) PROVE RowHeld'
  BY <1>1 DEF Submit, TypeOK, RowHeld
<1>2. ASSUME NEW t \in Toggles, Check(t) PROVE RowHeld'
  BY <1>2 DEF Check, TypeOK, RowHeld
<1>3. ASSUME NEW t \in Toggles, InsertRow(t) PROVE RowHeld'
  BY <1>3 DEF InsertRow, TypeOK, RowHeld, RowLockedByOther
<1>4. ASSUME NEW t \in Toggles, DeleteRow(t) PROVE RowHeld'
  BY <1>4, ZenonT(30) DEF DeleteRow, TypeOK, RowHeld, RowLockedByOther
<1>5. ASSUME NEW t \in Toggles, UpdateCount(t) PROVE RowHeld'
  BY <1>5 DEF UpdateCount, TypeOK, RowHeld
<1>6. ASSUME NEW t \in Toggles, CommitSubscribe(t) PROVE RowHeld'
  BY <1>6 DEF CommitSubscribe, TypeOK, RowHeld
<1>7. ASSUME NEW t \in Toggles, CommitUnsubscribe(t) PROVE RowHeld'
  BY <1>7 DEF CommitUnsubscribe, TypeOK, RowHeld
<1>8. ASSUME NEW t \in Toggles, CheckFails(t) PROVE RowHeld'
  BY <1>8 DEF CheckFails, TypeOK, RowHeld
<1>9. ASSUME NEW t \in Toggles, Abort(t) PROVE RowHeld'
  BY <1>9 DEF Abort, TypeOK, RowHeld
<1>10. CASE UNCHANGED vars
  BY <1>10 DEF vars, RowHeld
<1> QED
  BY <1>1, <1>2, <1>3, <1>4, <1>5, <1>6, <1>7, <1>8, <1>9, <1>10
     DEF Next, Handler, Finished

-----------------------------------------------------------------------------
(* The count *)

LEMMA SetsFinite ==
  ASSUME TypeOK, NEW c \in Users
  PROVE  IsFiniteSet(Subscribers(c)) /\ IsFiniteSet(Repeated(c))
<1>1. IsFiniteSet(Users \X Users)
  BY SubscriptionsAssumption, FS_Product
<1>2. Subscribers(c) \subseteq Users \X Users
  BY DEF TypeOK, Keys, Subscribers
<1>3. Repeated(c) \subseteq Toggles
  BY DEF Repeated
<1> QED
  BY <1>1, <1>2, <1>3, SubscriptionsAssumption, FS_Subset

\* The count of creator c, the rows and the repeated subscriptions agree.
Accounted(c) == count[c] = Cardinality(Subscribers(c)) + Cardinality(Repeated(c))

\* A step that ends no transaction changes neither side.
LEMMA AccountsStay ==
  ASSUME TypeOK, NEW t \in Toggles, pc[t] # "subscribed", pc'[t] # "subscribed",
         \A o \in Toggles \ {t} :
           pc'[o] = pc[o] /\ wrote'[o] = wrote[o] /\ key'[o] = key[o],
         rows' = rows, count' = count, NEW c \in Users, Accounted(c)
  PROVE  Accounted(c)'
<1>1. Repeated(c)' = Repeated(c)
  BY DEF Repeated, Creator
<1> QED
  BY <1>1 DEF Accounted, Subscribers

LEMMA InitAccounted == Init => CountAccounted
<1> SUFFICES ASSUME Init, NEW c \in Users PROVE Accounted(c)
  BY DEF CountAccounted, Accounted
<1>1. Subscribers(c) = {} /\ Repeated(c) = {} /\ count[c] = 0
  BY DEF Init, Subscribers, Repeated
<1> QED
  BY <1>1, FS_EmptySet DEF Accounted

LEMMA CommitUp ==
  ASSUME TypeOK, RowHeld, NEW t \in Toggles, CommitSubscribe(t),
         NEW c \in Users, Accounted(c)
  PROVE  Accounted(c)'
<1>0. /\ pc[t] = "commitUp" /\ key' = key /\ wrote' = wrote
      /\ pc' = [pc EXCEPT ![t] = "subscribed"]
      /\ rows' = IF wrote[t] THEN rows \cup {key[t]} ELSE rows
      /\ count' = [count EXCEPT ![Creator(t)] = @ + 1]
  BY DEF CommitSubscribe, Goto
<1>1. IsFiniteSet(Subscribers(c)) /\ IsFiniteSet(Repeated(c))
  BY SetsFinite
<1>2. CASE Creator(t) # c
  <2>1. Subscribers(c)' = Subscribers(c)
    BY <1>0, <1>2 DEF Subscribers, Creator
  <2>2. Repeated(c)' = Repeated(c)
    BY <1>0, <1>2 DEF Repeated, Creator, TypeOK
  <2>3. count'[c] = count[c]
    BY <1>0, <1>2 DEF TypeOK
  <2> QED
    BY <2>1, <2>2, <2>3 DEF Accounted
<1>3. CASE Creator(t) = c /\ wrote[t]
  <2>1. Subscribers(c)' = Subscribers(c) \cup {key[t]}
    BY <1>0, <1>3 DEF Subscribers, Creator
  <2>2. key[t] \notin Subscribers(c)
    BY <1>0, <1>3 DEF RowHeld, Subscribers, InSubscribe
  <2>3. Repeated(c)' = Repeated(c)
    BY <1>0, <1>3 DEF Repeated, Creator, TypeOK
  <2>4. count'[c] = count[c] + 1
    BY <1>0, <1>3 DEF TypeOK
  <2>5. Cardinality(Subscribers(c)') = Cardinality(Subscribers(c)) + 1
    BY <1>1, <2>1, <2>2, FS_AddElement
  <2>6. Cardinality(Subscribers(c)) \in Nat /\ Cardinality(Repeated(c)) \in Nat
    BY <1>1, FS_CardinalityType
  <2> QED
    BY <2>3, <2>4, <2>5, <2>6 DEF Accounted
<1>4. CASE Creator(t) = c /\ ~wrote[t]
  <2>1. Subscribers(c)' = Subscribers(c)
    BY <1>0, <1>4 DEF Subscribers
  <2>2. Repeated(c)' = Repeated(c) \cup {t} /\ t \notin Repeated(c)
    BY <1>0, <1>4 DEF Repeated, Creator, TypeOK
  <2>3. count'[c] = count[c] + 1
    BY <1>0, <1>4 DEF TypeOK
  <2>4. Cardinality(Repeated(c)') = Cardinality(Repeated(c)) + 1
    BY <1>1, <2>2, FS_AddElement
  <2>5. Cardinality(Subscribers(c)) \in Nat /\ Cardinality(Repeated(c)) \in Nat
    BY <1>1, FS_CardinalityType
  <2> QED
    BY <2>1, <2>3, <2>4, <2>5 DEF Accounted
<1> QED
  BY <1>2, <1>3, <1>4

\* Whoever is about to take one off finds its row in the table, so in the count.
LEMMA CountCoversDecrement ==
  ASSUME TypeOK, RowHeld, NEW t \in Toggles, pc[t] = "commitDown",
         Accounted(Creator(t))
  PROVE  /\ key[t] \in Subscribers(Creator(t)) /\ Creator(t) \in Users
         /\ count[Creator(t)] > 0
<1>1. key[t] \in rows /\ Creator(t) \in Users
  BY DEF RowHeld, InUnsubscribe, TypeOK, Keys, Creator
<1>2. key[t] \in Subscribers(Creator(t))
  BY <1>1 DEF Subscribers, Creator
<1>3. IsFiniteSet(Subscribers(Creator(t))) /\ IsFiniteSet(Repeated(Creator(t)))
  BY <1>1, SetsFinite
<1>4. Cardinality(Subscribers(Creator(t))) > 0
  BY <1>2, <1>3, FS_EmptySet, FS_CardinalityType
<1>5. Cardinality(Subscribers(Creator(t))) \in Nat /\ Cardinality(Repeated(Creator(t))) \in Nat
  BY <1>3, FS_CardinalityType
<1> QED
  BY <1>1, <1>2, <1>4, <1>5 DEF Accounted

LEMMA CommitDown ==
  ASSUME TypeOK, RowHeld, CountAccounted, NEW t \in Toggles, CommitUnsubscribe(t),
         NEW c \in Users
  PROVE  Accounted(c)'
<1>0. /\ pc[t] = "commitDown" /\ key' = key /\ wrote' = wrote
      /\ pc' = [pc EXCEPT ![t] = "unsubscribed"]
      /\ rows' = rows \ {key[t]}
      /\ count' = [count EXCEPT ![Creator(t)] = IF @ > 0 THEN @ - 1 ELSE @]
  BY DEF CommitUnsubscribe, Goto
<1>1. Creator(t) \in Users
  BY <1>0 DEF TypeOK, Keys, Creator
<1>2. Accounted(c) /\ Accounted(Creator(t))
  BY <1>1 DEF CountAccounted, Accounted
<1>3. Repeated(c)' = Repeated(c)
  BY <1>0 DEF Repeated, Creator, TypeOK
<1>4. CASE Creator(t) # c
  <2>1. Subscribers(c)' = Subscribers(c)
    BY <1>0, <1>4 DEF Subscribers, Creator
  <2>2. count'[c] = count[c]
    BY <1>0, <1>4 DEF TypeOK
  <2> QED
    BY <1>2, <1>3, <2>1, <2>2 DEF Accounted
<1>5. CASE Creator(t) = c
  <2>1. key[t] \in Subscribers(c) /\ count[c] > 0
    BY <1>0, <1>2, <1>5, CountCoversDecrement
  <2>2. Subscribers(c)' = Subscribers(c) \ {key[t]}
    BY <1>0 DEF Subscribers
  <2>3. IsFiniteSet(Subscribers(c)) /\ IsFiniteSet(Repeated(c))
    BY SetsFinite
  <2>4. Cardinality(Subscribers(c)') = Cardinality(Subscribers(c)) - 1
    BY <2>1, <2>2, <2>3, FS_RemoveElement
  <2>5. count'[c] = count[c] - 1
    BY <1>0, <1>5, <2>1 DEF TypeOK
  <2>6. Cardinality(Subscribers(c)) \in Nat /\ Cardinality(Repeated(c)) \in Nat
    BY <2>3, FS_CardinalityType
  <2> QED
    BY <1>2, <1>3, <2>4, <2>5, <2>6 DEF Accounted
<1> QED
  BY <1>4, <1>5

LEMMA NextAccounted ==
  TypeOK /\ RowHeld /\ CountAccounted /\ [Next]_vars => CountAccounted'
<1> SUFFICES ASSUME TypeOK, RowHeld, CountAccounted, [Next]_vars, NEW c \in Users
             PROVE  Accounted(c)'
  BY DEF CountAccounted, Accounted
<1>0. Accounted(c)
  BY DEF CountAccounted, Accounted
<1>1. ASSUME NEW t \in Toggles, Submit(t) PROVE Accounted(c)'
  BY <1>0, <1>1, AccountsStay DEF Submit, Goto, TypeOK
<1>2. ASSUME NEW t \in Toggles, Check(t) PROVE Accounted(c)'
  BY <1>0, <1>2, AccountsStay DEF Check, Goto, TypeOK
<1>3. ASSUME NEW t \in Toggles, InsertRow(t) PROVE Accounted(c)'
  BY <1>0, <1>3, AccountsStay DEF InsertRow, Goto, TypeOK
<1>4. ASSUME NEW t \in Toggles, DeleteRow(t) PROVE Accounted(c)'
  BY <1>0, <1>4, AccountsStay DEF DeleteRow, Goto, TypeOK
<1>5. ASSUME NEW t \in Toggles, UpdateCount(t) PROVE Accounted(c)'
  BY <1>0, <1>5, AccountsStay DEF UpdateCount, Goto, TypeOK
<1>6. ASSUME NEW t \in Toggles, CommitSubscribe(t) PROVE Accounted(c)'
  BY <1>0, <1>6, CommitUp
<1>7. ASSUME NEW t \in Toggles, CommitUnsubscribe(t) PROVE Accounted(c)'
  BY <1>7, CommitDown
<1>8. ASSUME NEW t \in Toggles, CheckFails(t) PROVE Accounted(c)'
  BY <1>0, <1>8, AccountsStay DEF CheckFails, Goto, TypeOK
<1>9. ASSUME NEW t \in Toggles, Abort(t) PROVE Accounted(c)'
  BY <1>0, <1>9, AccountsStay
     DEF Abort, Goto, TypeOK, InSubscribe, InUnsubscribe
<1>10. CASE UNCHANGED vars
  BY <1>0, <1>10 DEF vars, Accounted, Subscribers, Repeated, Creator
<1> QED
  BY <1>1, <1>2, <1>3, <1>4, <1>5, <1>6, <1>7, <1>8, <1>9, <1>10
     DEF Next, Handler, Finished

-----------------------------------------------------------------------------
\* For any number of users, toggles and failures: the count of a creator is its
\* rows and one more for each Subscribe that found its row there.
THEOREM CountTheorem == Spec => []CountAccounted
BY TypeCorrect, InitHeld, NextHeld, InitAccounted, NextAccounted, PTL DEF Spec

\* The guard of the decrement is never what stops it: every row that is deleted
\* is taken off the count.
THEOREM DecrementTheorem == Spec => []DecrementNeverHeldBack
<1>1. TypeOK /\ RowHeld /\ CountAccounted => DecrementNeverHeldBack
  <2> SUFFICES ASSUME TypeOK, RowHeld, CountAccounted,
                      NEW t \in Toggles, pc[t] = "commitDown"
               PROVE  count[Creator(t)] > 0
    BY DEF DecrementNeverHeldBack
  <2>1. Creator(t) \in Users
    BY DEF TypeOK, Keys, Creator
  <2>2. Accounted(Creator(t))
    BY <2>1 DEF CountAccounted, Accounted
  <2> QED
    BY <2>2, CountCoversDecrement
<1>2. Spec => []RowHeld
  BY TypeCorrect, InitHeld, NextHeld, PTL DEF Spec
<1> QED
  BY TypeCorrect, CountTheorem, <1>1, <1>2, PTL
=============================================================================
