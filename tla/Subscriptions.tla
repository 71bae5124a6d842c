--------------------------- MODULE Subscriptions ----------------------------
(***************************************************************************)
(* Subscribing to a creator (models/follow.go, api/profile.go:111-130):    *)
(* the subscriptions table and users.subscribers_count, which caches how   *)
(* many rows a creator has in it.                                          *)
(*                                                                         *)
(* Toggle reads outside any transaction; Subscribe and Unsubscribe are     *)
(* transactions at READ COMMITTED.  What a transaction wrote is visible,   *)
(* and applied here, when it commits; until then it holds the locks that   *)
(* its place in the code implies, and who needs them waits.                *)
(***************************************************************************)
EXTENDS Integers, FiniteSets

CONSTANTS Users,
          Toggles,       \* each element is one POST .../subscribe
          MaxFaults      \* bound on failing statements

ASSUME SubscriptionsAssumption ==
  IsFiniteSet(Users) /\ IsFiniteSet(Toggles) /\ MaxFaults \in Nat

VARIABLES rows,          \* subscriptions: <<subscriber, creator>>, committed
          count,         \* users.subscribers_count, committed
          pc,            \* where each request is
          key,           \* the <<subscriber, creator>> of each request
          wrote,         \* did its transaction insert or delete the row?
          faults

vars == <<rows, count, pc, key, wrote, faults>>

\* Nobody subscribes to themselves: api/profile.go answers 400.
Keys  == {k \in Users \X Users : k[1] # k[2]}
NoKey == <<>>

InSubscribe   == {"insert", "countUp", "commitUp"}
InUnsubscribe == {"delete", "countDown", "commitDown"}
InFlight      == {"check"} \cup InSubscribe \cup InUnsubscribe

\* What Toggle returns: true, false, or an error.
Answered == {"subscribed", "unsubscribed", "failed"}

TypeOK ==
  /\ rows \subseteq Keys
  /\ count \in [Users -> Nat]
  /\ pc \in [Toggles -> {"idle"} \cup InFlight \cup Answered]
  /\ key \in [Toggles -> Keys \cup {NoKey}]
  /\ \A t \in Toggles : pc[t] # "idle" => key[t] \in Keys
  /\ wrote \in [Toggles -> BOOLEAN]
  /\ faults \in 0..MaxFaults

Init == /\ rows = {}
        /\ count = [u \in Users |-> 0]
        /\ pc = [t \in Toggles |-> "idle"]
        /\ key = [t \in Toggles |-> NoKey]
        /\ wrote = [t \in Toggles |-> FALSE]
        /\ faults = 0

Creator(t) == key[t][2]
Goto(t, step) == pc' = [pc EXCEPT ![t] = step]

\* Mutant: api/profile.go lets a user subscribe to themselves.
SubmitSelf(t) ==
  /\ pc[t] = "idle"
  /\ \E k \in Users \X Users : key' = [key EXCEPT ![t] = k]
  /\ Goto(t, "check")
  /\ UNCHANGED <<rows, count, wrote, faults>>

Submit(t) ==
  /\ pc[t] = "idle"
  /\ \E k \in Keys : key' = [key EXCEPT ![t] = k]
  /\ Goto(t, "check")
  /\ UNCHANGED <<rows, count, wrote, faults>>

\* Toggle decides by what IsSubscribed reads now.
Check(t) ==
  /\ pc[t] = "check"
  /\ Goto(t, IF key[t] \in rows THEN "delete" ELSE "insert")
  /\ UNCHANGED <<rows, count, key, wrote, faults>>

\* IsSubscribed ignores the error of its query and reports FALSE.
CheckFails(t) ==
  /\ pc[t] = "check"
  /\ faults < MaxFaults
  /\ faults' = faults + 1
  /\ Goto(t, "insert")
  /\ UNCHANGED <<rows, count, key, wrote>>

\* Transactions that have inserted or deleted the row of t and not yet ended.
RowLockedByOther(t, steps) ==
  \E o \in Toggles \ {t} : wrote[o] /\ pc[o] \in steps /\ key[o] = key[t]

\* INSERT ... ON CONFLICT DO NOTHING waits for whoever has the key in hand.
InsertRow(t) ==
  /\ pc[t] = "insert"
  /\ ~RowLockedByOther(t, InSubscribe \cup InUnsubscribe)
  /\ wrote' = [wrote EXCEPT ![t] = key[t] \notin rows]
  /\ Goto(t, "countUp")
  /\ UNCHANGED <<rows, count, key, faults>>

\* Mutant: Unsubscribe does not look at RowsAffected.
DeleteRowUnchecked(t) ==
  /\ pc[t] = "delete"
  /\ ~RowLockedByOther(t, InUnsubscribe)
  /\ wrote' = [wrote EXCEPT ![t] = key[t] \in rows]
  /\ Goto(t, "countDown")
  /\ UNCHANGED <<rows, count, key, faults>>

\* DELETE waits for another delete of the row, and does not see an insert that
\* has not been committed.  When it deletes nothing, Unsubscribe returns here.
DeleteRow(t) ==
  /\ pc[t] = "delete"
  /\ ~RowLockedByOther(t, InUnsubscribe)
  /\ wrote' = [wrote EXCEPT ![t] = key[t] \in rows]
  /\ Goto(t, IF key[t] \in rows THEN "countDown" ELSE "unsubscribed")
  /\ UNCHANGED <<rows, count, key, faults>>

\* Mutant: the creator's row is wanted by whoever is about to update it, too.
UpdateCountMutual(t) ==
  /\ pc[t] \in {"countUp", "countDown"}
  /\ \A o \in Toggles \ {t} :
        pc[o] \in {"countUp", "commitUp", "countDown", "commitDown"}
           => Creator(o) # Creator(t)
  /\ Goto(t, IF pc[t] = "countUp" THEN "commitUp" ELSE "commitDown")
  /\ UNCHANGED <<rows, count, key, wrote, faults>>

\* The UPDATE of users locks the creator's row until the transaction ends.
UpdateCount(t) ==
  /\ pc[t] \in {"countUp", "countDown"}
  /\ \A o \in Toggles : pc[o] \in {"commitUp", "commitDown"}
                          => Creator(o) # Creator(t)
  /\ Goto(t, IF pc[t] = "countUp" THEN "commitUp" ELSE "commitDown")
  /\ UNCHANGED <<rows, count, key, wrote, faults>>

\* Subscribe adds one whether or not it inserted a row.
CommitSubscribe(t) ==
  /\ pc[t] = "commitUp"
  /\ rows' = IF wrote[t] THEN rows \cup {key[t]} ELSE rows
  /\ count' = [count EXCEPT ![Creator(t)] = @ + 1]
  /\ Goto(t, "subscribed")
  /\ UNCHANGED <<key, wrote, faults>>

\* Its UPDATE has the condition subscribers_count > 0.
CommitUnsubscribe(t) ==
  /\ pc[t] = "commitDown"
  /\ rows' = rows \ {key[t]}
  /\ count' = [count EXCEPT ![Creator(t)] = IF @ > 0 THEN @ - 1 ELSE @]
  /\ Goto(t, "unsubscribed")
  /\ UNCHANGED <<key, wrote, faults>>

\* Mutant: Subscribe without a transaction: its insert stays.
AbortKeepsRow(t) ==
  /\ pc[t] \in InSubscribe \cup InUnsubscribe
  /\ faults < MaxFaults
  /\ faults' = faults + 1
  /\ rows' = IF pc[t] = "countUp" /\ wrote[t] THEN rows \cup {key[t]} ELSE rows
  /\ Goto(t, "failed")
  /\ UNCHANGED <<count, key, wrote>>

\* A statement or the commit fails, or the server dies: tx.Rollback.
Abort(t) ==
  /\ pc[t] \in InSubscribe \cup InUnsubscribe
  /\ faults < MaxFaults
  /\ faults' = faults + 1
  /\ Goto(t, "failed")
  /\ UNCHANGED <<rows, count, key, wrote>>

Handler(t) == \/ Check(t) \/ InsertRow(t) \/ DeleteRow(t) \/ UpdateCount(t)
              \/ CommitSubscribe(t) \/ CommitUnsubscribe(t)

Finished == (\A t \in Toggles : pc[t] \in Answered) /\ UNCHANGED vars

Next == \/ \E t \in Toggles : Submit(t) \/ Handler(t) \/ CheckFails(t) \/ Abort(t)
        \/ Finished

Spec == Init /\ [][Next]_vars

\* net/http runs a handler to its end and PostgreSQL grants a lock that is free.
FairSpec == Spec /\ \A t \in Toggles : WF_vars(Handler(t))

-----------------------------------------------------------------------------
Subscribers(c) == {k \in rows : k[2] = c}

\* The Subscribe calls that found their row in the table already.
Repeated(c) == {t \in Toggles : pc[t] = "subscribed" /\ ~wrote[t] /\ Creator(t) = c}

\* However toggles of the same pair overlap, wait for each other, fail or roll
\* back, the count of a creator is the number of rows and one more for each
\* Subscribe that inserted nothing: nothing else makes it drift, and it never
\* falls below the rows (models/follow.go:26-85).
CountAccounted ==
  \A c \in Users :
    count[c] = Cardinality(Subscribers(c)) + Cardinality(Repeated(c))

\* So the condition subscribers_count > 0 of Unsubscribe (models/follow.go:79)
\* never holds a decrement back: whoever deletes a row takes one off the count.
DecrementNeverHeldBack ==
  \A t \in Toggles : pc[t] = "commitDown" => count[Creator(t)] > 0

\* Row and count locks are taken in one order by both transactions, so nobody
\* waits for ever: every toggle is answered.
EveryToggleReturns ==
  \A t \in Toggles : pc[t] = "check" ~> pc[t] \in Answered
=============================================================================
