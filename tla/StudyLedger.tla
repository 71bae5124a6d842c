---------------------------- MODULE StudyLedger -----------------------------
(***************************************************************************)
(* What the study feature promises a user, without handlers, statements or *)
(* tables: a session collects answers, and when it is closed its tally is  *)
(* credited to the user once.                                              *)
(***************************************************************************)
EXTENDS Integers, FiniteSets, Functions

CONSTANTS Users, Sessions, SessionUser

VARIABLES phase,     \* of every session
          tally,     \* [answers, correct] of every session
          credit     \* [sessions, answers, correct] of every user

vars == <<phase, tally, credit>>

Empty == [answers |-> 0, correct |-> 0]
Zero  == [sessions |-> 0, answers |-> 0, correct |-> 0]

Init == /\ phase = [s \in Sessions |-> "none"]
        /\ tally = [s \in Sessions |-> Empty]
        /\ credit = [u \in Users |-> Zero]

Enter(s, p) == phase' = [phase EXCEPT ![s] = p]

Open(s) == /\ phase[s] = "none"
           /\ Enter(s, "open")
           /\ UNCHANGED <<tally, credit>>

Answer(s) ==
  /\ phase[s] = "open"
  /\ \E k \in {0, 1} :
       tally' = [tally EXCEPT ![s] = [answers |-> @.answers + 1,
                                      correct |-> @.correct + k]]
  /\ UNCHANGED <<phase, credit>>

\* From here on the tally stands: the session may be removed, its credit is due.
Close(s) == /\ phase[s] = "open"
            /\ Enter(s, "closed")
            /\ UNCHANGED <<tally, credit>>

Credit(s) ==
  /\ phase[s] = "closed"
  /\ Enter(s, "credited")
  /\ credit' = [credit EXCEPT ![SessionUser[s]] =
                  [sessions |-> @.sessions + 1,
                   answers  |-> @.answers + tally[s].answers,
                   correct  |-> @.correct + tally[s].correct]]
  /\ UNCHANGED tally

\* Stopped, or the deck was deleted, before they were closed: no credit.
Drop(gone) ==
  /\ gone # {}
  /\ \A s \in gone : phase[s] = "open"
  /\ phase' = [s \in Sessions |-> IF s \in gone THEN "dropped" ELSE phase[s]]
  /\ tally' = [s \in Sessions |-> IF s \in gone THEN Empty ELSE tally[s]]
  /\ UNCHANGED credit

Next == \/ \E s \in Sessions : Open(s) \/ Answer(s) \/ Close(s) \/ Credit(s)
        \/ \E gone \in SUBSET Sessions : Drop(gone)

Spec == Init /\ [][Next]_vars

\* Every user is credited with exactly the sessions that were, and their tallies.
CreditIsSum ==
  \A u \in Users :
    LET mine == {s \in Sessions : SessionUser[s] = u /\ phase[s] = "credited"}
    IN /\ credit[u].sessions = Cardinality(mine)
       /\ credit[u].answers = SumFunctionOnSet([s \in Sessions |-> tally[s].answers], mine)
       /\ credit[u].correct = SumFunctionOnSet([s \in Sessions |-> tally[s].correct], mine)
=============================================================================
