--------------------------- MODULE AccountsProofs ---------------------------
(***************************************************************************)
(* Proofs about accounts, their tokens and the names in their profiles.    *)
(***************************************************************************)
EXTENDS Accounts, TLAPS

-----------------------------------------------------------------------------
(* Types *)

\* What a request has when it is past its first step: an address, a user with a
\* name, a pair that was issued, a name to write.
Acting(r) == IF r \in Issuers THEN Signed(r) ELSE pc[r] # "idle"

WithAddress == \A s \in Signups : pc[s] # "idle" => email[s] \in Emails

WithUser ==
  /\ \A r \in Requests : Acting(r) => user[r] \in Users /\ name[user[r]] \in Names
  /\ \A s \in Signups : pc[s] \in {"idle", "create"} => name[s] = NoName

\* The owner of an address has a name.
Owned == \A e \in Emails : account[e] # Nobody => name[account[e]] \in Names

WithPair ==
  /\ \A f \in Refreshes : pc[f] = "retire" => shown[f] \in Issued
  /\ \A o \in Logouts : pc[o] # "idle" => shown[o] \in Issued

WithName == \A d \in Edits : pc[d] = "write" => held[d] \in Names

\* TypeOK without its last two conjuncts.
Shape ==
  /\ account \in [Emails -> Users \cup {Nobody}]
  /\ name \in [Users -> Names \cup {NoName}]
  /\ wanted \in [Users -> Names \cup {NoName}]
  /\ akey \in [Issuers -> Times] /\ rkey \subseteq Issuers
  /\ pc \in [Requests -> {"idle"} \cup Steps \cup Outcomes]
  /\ email \in [Signups -> Emails \cup {Nobody}]
  /\ user \in [Requests -> Users \cup {Nobody}]
  /\ signed \in [Issuers -> 0..MaxTime]
  /\ shown \in [Refreshes \cup Logouts -> Issuers \cup {Nobody}]
  /\ asked \in [Edits -> Names \cup {NoName}]
  /\ held \in [Edits -> Names \cup {NoName}]
  /\ now \in 0..MaxTime /\ faults \in 0..MaxFaults
  /\ unsaved \subseteq Issuers /\ stale \subseteq Edits

Typed == Shape /\ WithAddress /\ WithUser /\ Owned /\ WithPair /\ WithName

LEMMA GotoType ==
  ASSUME pc \in [Requests -> {"idle"} \cup Steps \cup Outcomes], NEW r \in Requests,
         NEW step \in Steps \cup Outcomes, Goto(r, step)
  PROVE  pc' \in [Requests -> {"idle"} \cup Steps \cup Outcomes]
BY DEF Goto

\* The access key of a pair is gone within a life of the token, and not before it
\* expires, whenever CreateAuth read the clock.
LEMMA KeyRange ==
  ASSUME signed \in [Issuers -> 0..MaxTime], now \in 0..MaxTime, NEW i \in Issuers,
         NEW t \in KeyEnds(i)
  PROVE  t \in 0..(MaxTime + AccessLife) /\ t >= signed[i] + AccessLife
<1>1. PICK read \in signed[i]..now : t = now + (signed[i] + AccessLife - read)
  BY DEF KeyEnds, Left
<1>2. signed[i] \in 0..MaxTime
  OBVIOUS
<1> QED
  BY <1>1, <1>2, AccountsAssumption

LEMMA ShapeNext == Shape /\ WithAddress /\ WithUser /\ WithPair /\ [Next]_vars => Shape'
<1> SUFFICES ASSUME Shape, WithAddress, WithUser, WithPair, [Next]_vars PROVE Shape'
  OBVIOUS
<1>1. ASSUME NEW s \in Signups, CheckEmail(s) PROVE Shape'
  <2>1. s \in Requests
    BY DEF Requests, Issuers
  <2>2. pc' \in [Requests -> {"idle"} \cup Steps \cup Outcomes]
    BY <1>1, <2>1, GotoType DEF CheckEmail, Steps, Outcomes, Shape
  <2>3. UNCHANGED <<account, akey, rkey, user, signed, shown, name, asked, held,
                    wanted, stale, now, unsaved>>
    BY <1>1 DEF CheckEmail, redis, tokens, profile
  <2>4. /\ email' \in [Signups -> Emails \cup {Nobody}]
        /\ faults' \in 0..MaxFaults
    BY <1>1, <2>1, AccountsAssumption DEF CheckEmail, Fault, Shape
  <2> QED
    BY <2>2, <2>3, <2>4 DEF Shape
<1>2. ASSUME NEW s \in Signups, Create(s) PROVE Shape'
  <2>1. s \in Requests
    BY DEF Requests, Issuers
  <2>2. pc' \in [Requests -> {"idle"} \cup Steps \cup Outcomes]
    BY <1>2, <2>1, GotoType DEF Create, Sign, Register, Steps, Outcomes, Shape
  <2>3. UNCHANGED <<email, akey, rkey, shown, asked, held, stale, now, faults, unsaved>>
    BY <1>2 DEF Create, Sign, Register, redis, tokens, profile
  <2>4. s \in Users /\ s \in Names /\ s \in Issuers /\ email[s] \in Emails
    BY <1>2 DEF Create, WithAddress, Users, Names, Issuers
  <2>5. /\ account' \in [Emails -> Users \cup {Nobody}]
        /\ name' \in [Users -> Names \cup {NoName}]
        /\ wanted' \in [Users -> Names \cup {NoName}]
        /\ user' \in [Requests -> Users \cup {Nobody}]
        /\ signed' \in [Issuers -> 0..MaxTime]
    BY <1>2, <2>1, <2>4, AccountsAssumption DEF Create, Sign, Register, Shape
  <2> QED
    BY <2>2, <2>3, <2>5 DEF Shape
<1>3. ASSUME NEW l \in Logins, Enter(l) PROVE Shape'
  <2>1. l \in Requests
    BY DEF Requests, Issuers
  <2>2. pc' \in [Requests -> {"idle"} \cup Steps \cup Outcomes]
    BY <1>3, <2>1, GotoType DEF Enter, Sign, Steps, Outcomes, Shape
  <2>3. UNCHANGED <<account, email, akey, rkey, shown, name, asked, held, wanted,
                    stale, now, faults, unsaved>>
    BY <1>3 DEF Enter, Sign, redis, tokens, profile
  <2>4. l \in Issuers /\ \A e \in Emails : account[e] \in Users \cup {Nobody}
    BY DEF Issuers, Shape
  <2>5. /\ user' \in [Requests -> Users \cup {Nobody}]
        /\ signed' \in [Issuers -> 0..MaxTime]
    BY <1>3, <2>1, <2>4, AccountsAssumption DEF Enter, Sign, Shape
  <2> QED
    BY <2>2, <2>3, <2>5 DEF Shape
<1>4. ASSUME NEW f \in Refreshes, ShowRefresh(f) PROVE Shape'
  <2>1. f \in Requests
    BY DEF Requests, Issuers
  <2>2. pc' \in [Requests -> {"idle"} \cup Steps \cup Outcomes]
    BY <1>4, <2>1, GotoType DEF ShowRefresh, Steps, Outcomes, Shape
  <2>3. UNCHANGED <<account, email, akey, rkey, user, signed, name, asked, held,
                    wanted, stale, now, faults, unsaved>>
    BY <1>4 DEF ShowRefresh, redis, tokens, profile
  <2>4. Issued \subseteq Issuers /\ f \in Refreshes \cup Logouts
    BY DEF Issued
  <2>5. shown' \in [Refreshes \cup Logouts -> Issuers \cup {Nobody}]
    BY <1>4, <2>1, <2>4, AccountsAssumption DEF ShowRefresh, Shape
  <2> QED
    BY <2>2, <2>3, <2>5 DEF Shape
<1>5. ASSUME NEW f \in Refreshes, Retire(f) PROVE Shape'
  <2>1. f \in Requests
    BY DEF Requests, Issuers
  <2>2. pc' \in [Requests -> {"idle"} \cup Steps \cup Outcomes]
    BY <1>5, <2>1, GotoType DEF Retire, Sign, Steps, Outcomes, Shape
  <2>3. UNCHANGED <<account, email, akey, name, asked, held, wanted, stale, now,
                    unsaved>>
    BY <1>5 DEF Retire, Sign, redis, tokens, profile
  <2>4. f \in Issuers /\ shown[f] \in Requests /\ user[shown[f]] \in Users \cup {Nobody}
    BY <1>5 DEF Retire, WithPair, Issued, Issuers, Requests, Shape
  <2>5. /\ rkey' \subseteq Issuers
        /\ faults' \in 0..MaxFaults
        /\ user' \in [Requests -> Users \cup {Nobody}]
        /\ signed' \in [Issuers -> 0..MaxTime]
        /\ shown' \in [Refreshes \cup Logouts -> Issuers \cup {Nobody}]
    BY <1>5, <2>1, <2>4, AccountsAssumption DEF Retire, Sign, Fault, Shape
  <2> QED
    BY <2>2, <2>3, <2>5 DEF Shape
<1>6. ASSUME NEW i \in Issuers, StoreAccess(i) PROVE Shape'
  <2>1. i \in Requests
    BY DEF Requests, Issuers
  <2>2. pc' \in [Requests -> {"idle"} \cup Steps \cup Outcomes]
    BY <1>6, <2>1, GotoType DEF StoreAccess, KeyEnds, Steps, Outcomes, Shape
  <2>3. UNCHANGED <<account, email, rkey, user, signed, shown, name, asked, held,
                    wanted, stale, now, faults, unsaved>>
    BY <1>6 DEF StoreAccess, KeyEnds, redis, tokens, profile
  <2>4. KeyEnds(i) \subseteq Times
    BY KeyRange DEF Shape, Times
  <2>5. akey' \in [Issuers -> Times]
    BY <1>6, <2>1, <2>4, AccountsAssumption DEF StoreAccess, Shape
  <2> QED
    BY <2>2, <2>3, <2>5 DEF Shape
<1>7. ASSUME NEW i \in Issuers, StoreRefresh(i) PROVE Shape'
  <2>1. i \in Requests
    BY DEF Requests, Issuers
  <2>2. pc' \in [Requests -> {"idle"} \cup Steps \cup Outcomes]
    BY <1>7, <2>1, GotoType DEF StoreRefresh, Steps, Outcomes, Shape
  <2>3. UNCHANGED <<account, email, akey, user, signed, shown, name, asked, held,
                    wanted, stale, now, faults, unsaved>>
    BY <1>7 DEF StoreRefresh, redis, tokens, profile
  <2>4. rkey' \subseteq Issuers
    BY <1>7, <2>1, AccountsAssumption DEF StoreRefresh, Shape
  <2> QED
    BY <2>2, <2>3, <2>4 DEF Shape
<1>8. ASSUME NEW i \in Issuers, StoreFails(i) PROVE Shape'
  <2>1. i \in Requests
    BY DEF Requests, Issuers
  <2>2. pc' \in [Requests -> {"idle"} \cup Steps \cup Outcomes]
    BY <1>8, <2>1, GotoType DEF StoreFails, Steps, Outcomes, Shape
  <2>3. UNCHANGED <<account, email, akey, rkey, user, signed, shown, name, asked, held,
                    wanted, stale, now>>
    BY <1>8 DEF StoreFails, redis, tokens, profile
  <2>4. /\ faults' \in 0..MaxFaults
        /\ unsaved' \subseteq Issuers
    BY <1>8, <2>1, AccountsAssumption DEF StoreFails, Fault, Shape
  <2> QED
    BY <2>2, <2>3, <2>4 DEF Shape
<1>9. ASSUME NEW o \in Logouts, EnterLogout(o) PROVE Shape'
  <2>1. o \in Requests
    BY DEF Requests, Issuers
  <2>2. pc' \in [Requests -> {"idle"} \cup Steps \cup Outcomes]
    BY <1>9, <2>1, GotoType DEF EnterLogout, Admit, Steps, Outcomes, Shape
  <2>3. UNCHANGED <<account, email, akey, rkey, signed, name, asked, held, wanted,
                    stale, now, faults, unsaved>>
    BY <1>9 DEF EnterLogout, Admit, redis, tokens, profile
  <2>4. o \in Refreshes \cup Logouts
        /\ \A p \in Issuers : user[p] \in Users \cup {Nobody}
    BY DEF Requests, Shape
  <2>5. /\ user' \in [Requests -> Users \cup {Nobody}]
        /\ shown' \in [Refreshes \cup Logouts -> Issuers \cup {Nobody}]
    BY <1>9, <2>1, <2>4, AccountsAssumption DEF EnterLogout, Admit, Shape
  <2> QED
    BY <2>2, <2>3, <2>5 DEF Shape
<1>10. ASSUME NEW o \in Logouts, Cut(o) PROVE Shape'
  <2>1. o \in Requests
    BY DEF Requests, Issuers
  <2>2. pc' \in [Requests -> {"idle"} \cup Steps \cup Outcomes]
    BY <1>10, <2>1, GotoType DEF Cut, Steps, Outcomes, Shape
  <2>3. UNCHANGED <<account, email, rkey, user, signed, shown, name, asked, held,
                    wanted, stale, now, unsaved>>
    BY <1>10 DEF Cut, redis, tokens, profile
  <2>4. 0 \in Times
    BY AccountsAssumption DEF Times
  <2>5. /\ akey' \in [Issuers -> Times]
        /\ faults' \in 0..MaxFaults
    BY <1>10, <2>1, <2>4, AccountsAssumption DEF Cut, Fault, Shape
  <2> QED
    BY <2>2, <2>3, <2>5 DEF Shape
<1>11. ASSUME NEW o \in Logouts, Drop(o) PROVE Shape'
  <2>1. o \in Requests
    BY DEF Requests, Issuers
  <2>2. pc' \in [Requests -> {"idle"} \cup Steps \cup Outcomes]
    BY <1>11, <2>1, GotoType DEF Drop, Steps, Outcomes, Shape
  <2>3. UNCHANGED <<account, email, akey, user, signed, shown, name, asked, held,
                    wanted, stale, now, faults, unsaved>>
    BY <1>11 DEF Drop, redis, tokens, profile
  <2>4. rkey' \subseteq Issuers
    BY <1>11, <2>1, AccountsAssumption DEF Drop, Shape
  <2> QED
    BY <2>2, <2>3, <2>4 DEF Shape
<1>12. ASSUME NEW d \in Edits, EnterEdit(d) PROVE Shape'
  <2>1. d \in Requests
    BY DEF Requests, Issuers
  <2>2. pc' \in [Requests -> {"idle"} \cup Steps \cup Outcomes]
    BY <1>12, <2>1, GotoType DEF EnterEdit, Admit, Steps, Outcomes, Shape
  <2>3. UNCHANGED <<account, email, akey, rkey, signed, shown, name, held, wanted,
                    stale, now, faults, unsaved>>
    BY <1>12 DEF EnterEdit, Admit, redis, tokens, profile
  <2>4. d \in Names /\ \A p \in Issuers : user[p] \in Users \cup {Nobody}
    BY DEF Names, Requests, Shape
  <2>5. /\ user' \in [Requests -> Users \cup {Nobody}]
        /\ asked' \in [Edits -> Names \cup {NoName}]
    BY <1>12, <2>1, <2>4, AccountsAssumption DEF EnterEdit, Admit, Shape
  <2> QED
    BY <2>2, <2>3, <2>5 DEF Shape
<1>13. ASSUME NEW d \in Edits, ReadProfile(d) PROVE Shape'
  <2>1. d \in Requests
    BY DEF Requests, Issuers
  <2>2. pc' \in [Requests -> {"idle"} \cup Steps \cup Outcomes]
    BY <1>13, <2>1, GotoType DEF ReadProfile, Steps, Outcomes, Shape
  <2>3. UNCHANGED <<account, email, akey, rkey, user, signed, shown, name, asked,
                    wanted, stale, now, faults, unsaved>>
    BY <1>13 DEF ReadProfile, redis, tokens, profile
  <2>4. pc[d] = "read" /\ user[d] \in Users
    BY <1>13, <2>1, AccountsAssumption DEF ReadProfile, WithUser, Acting, Requests
  <2>5. held' \in [Edits -> Names \cup {NoName}]
    BY <1>13, <2>4 DEF ReadProfile, Shape
  <2> QED
    BY <2>2, <2>3, <2>5 DEF Shape
<1>14. ASSUME NEW d \in Edits, WriteProfile(d) PROVE Shape'
  <2>1. d \in Requests
    BY DEF Requests, Issuers
  <2>2. pc' \in [Requests -> {"idle"} \cup Steps \cup Outcomes]
    BY <1>14, <2>1, GotoType DEF WriteProfile, Forget, Steps, Outcomes, Shape
  <2>3. UNCHANGED <<account, email, akey, rkey, user, signed, shown, now, faults,
                    unsaved>>
    BY <1>14 DEF WriteProfile, Forget, redis, tokens, profile
  <2>4. /\ name' \in [Users -> Names \cup {NoName}]
        /\ wanted' \in [Users -> Names \cup {NoName}]
        /\ stale' \subseteq Edits
        /\ asked' \in [Edits -> Names \cup {NoName}]
        /\ held' \in [Edits -> Names \cup {NoName}]
    BY <1>14, <2>1, AccountsAssumption, ZenonT(30) DEF WriteProfile, Forget, Shape
  <2> QED
    BY <2>2, <2>3, <2>4 DEF Shape
<1>15. CASE Tick
  BY <1>15, AccountsAssumption DEF Tick, redis, tokens, profile, Shape
<1>16. CASE UNCHANGED vars
  BY <1>16 DEF vars, redis, tokens, profile, Shape
<1> QED
  BY <1>1, <1>2, <1>3, <1>4, <1>5, <1>6, <1>7, <1>8, <1>9, <1>10, <1>11, <1>12,
     <1>13, <1>14, <1>15, <1>16 DEF Next

LEMMA NextAddress == Shape /\ WithAddress /\ [Next]_vars => WithAddress'
<1> SUFFICES ASSUME Shape, WithAddress, [Next]_vars PROVE WithAddress'
  OBVIOUS
<1> USE AccountsAssumption
        DEF WithAddress, Shape, Goto, redis, tokens, profile, Signed, Requests,
          Issuers, Users
<1>1. ASSUME NEW s \in Signups, CheckEmail(s) PROVE WithAddress'
  BY <1>1 DEF CheckEmail
<1>2. ASSUME NEW s \in Signups, Create(s) PROVE WithAddress'
  BY <1>2 DEF Create, Sign, Register
<1>3. ASSUME NEW l \in Logins, Enter(l) PROVE WithAddress'
  BY <1>3 DEF Enter, Sign
<1>4. ASSUME NEW f \in Refreshes, ShowRefresh(f) PROVE WithAddress'
  BY <1>4 DEF ShowRefresh
<1>5. ASSUME NEW f \in Refreshes, Retire(f) PROVE WithAddress'
  BY <1>5 DEF Retire, Sign
<1>6. ASSUME NEW i \in Issuers, StoreAccess(i) PROVE WithAddress'
  BY <1>6 DEF StoreAccess
<1>7. ASSUME NEW i \in Issuers, StoreRefresh(i) PROVE WithAddress'
  BY <1>7 DEF StoreRefresh
<1>8. ASSUME NEW i \in Issuers, StoreFails(i) PROVE WithAddress'
  BY <1>8 DEF StoreFails
<1>9. ASSUME NEW o \in Logouts, EnterLogout(o) PROVE WithAddress'
  BY <1>9 DEF EnterLogout, Admit
<1>10. ASSUME NEW o \in Logouts, Cut(o) PROVE WithAddress'
  BY <1>10 DEF Cut
<1>11. ASSUME NEW o \in Logouts, Drop(o) PROVE WithAddress'
  BY <1>11 DEF Drop
<1>12. ASSUME NEW d \in Edits, EnterEdit(d) PROVE WithAddress'
  BY <1>12 DEF EnterEdit, Admit
<1>13. ASSUME NEW d \in Edits, ReadProfile(d) PROVE WithAddress'
  BY <1>13 DEF ReadProfile
<1>14. ASSUME NEW d \in Edits, WriteProfile(d) PROVE WithAddress'
  BY <1>14 DEF WriteProfile, Forget
<1>15. CASE Tick
  BY <1>15 DEF Tick
<1>16. CASE UNCHANGED vars
  BY <1>16 DEF vars
<1> QED
  BY <1>1, <1>2, <1>3, <1>4, <1>5, <1>6, <1>7, <1>8, <1>9, <1>10, <1>11, <1>12,
     <1>13, <1>14, <1>15, <1>16 DEF Next

LEMMA NextUser == Shape /\ WithUser /\ WithPair /\ WithName /\ Owned
  /\ [Next]_vars => WithUser'
<1> SUFFICES ASSUME Shape, WithUser, WithPair, WithName, Owned, [Next]_vars
  PROVE WithUser'
  OBVIOUS
<1> USE AccountsAssumption
        DEF WithUser, Acting, Names, WithName, Owned, Shape, Goto, redis, tokens,
          profile, Signed, Requests, Issuers, Users
<1>1. ASSUME NEW s \in Signups, CheckEmail(s) PROVE WithUser'
  BY <1>1 DEF CheckEmail
<1>2. ASSUME NEW s \in Signups, Create(s) PROVE WithUser'
  BY <1>2 DEF Create, Sign, Register
<1>3. ASSUME NEW l \in Logins, Enter(l) PROVE WithUser'
  BY <1>3 DEF Enter, Sign
<1>4. ASSUME NEW f \in Refreshes, ShowRefresh(f) PROVE WithUser'
  BY <1>4 DEF ShowRefresh
<1>5. ASSUME NEW f \in Refreshes, Retire(f) PROVE WithUser'
  <2>1. shown[f] \in Issuers /\ user[shown[f]] \in Users
        /\ name[user[shown[f]]] \in Names
    BY <1>5 DEF Retire, WithPair, Issued
  <2>2. name' = name /\ user' = [user EXCEPT ![f] = user[shown[f]]]
    BY <1>5 DEF Retire, Sign
  <2>3. pc' = [pc EXCEPT ![f] = "access"]
    BY <1>5 DEF Retire, Sign
  <2> QED
    BY <2>1, <2>2, <2>3
<1>6. ASSUME NEW i \in Issuers, StoreAccess(i) PROVE WithUser'
  BY <1>6 DEF StoreAccess
<1>7. ASSUME NEW i \in Issuers, StoreRefresh(i) PROVE WithUser'
  BY <1>7 DEF StoreRefresh
<1>8. ASSUME NEW i \in Issuers, StoreFails(i) PROVE WithUser'
  BY <1>8 DEF StoreFails
<1>9. ASSUME NEW o \in Logouts, EnterLogout(o) PROVE WithUser'
  <2>1. PICK p \in Issuers : Admit(o, p)
    BY <1>9 DEF EnterLogout
  <2>2. user[p] \in Users /\ name[user[p]] \in Names
    BY <2>1 DEF Admit, Issued
  <2>3. name' = name /\ user' = [user EXCEPT ![o] = user[p]]
    BY <1>9, <2>1 DEF EnterLogout, Admit
  <2>4. pc' = [pc EXCEPT ![o] = "cut"]
    BY <1>9 DEF EnterLogout
  <2> QED
    BY <2>2, <2>3, <2>4
<1>10. ASSUME NEW o \in Logouts, Cut(o) PROVE WithUser'
  BY <1>10 DEF Cut
<1>11. ASSUME NEW o \in Logouts, Drop(o) PROVE WithUser'
  BY <1>11 DEF Drop
<1>12. ASSUME NEW d \in Edits, EnterEdit(d) PROVE WithUser'
  <2>1. PICK p \in Issuers : Admit(d, p)
    BY <1>12 DEF EnterEdit
  <2>2. user[p] \in Users /\ name[user[p]] \in Names
    BY <2>1 DEF Admit, Issued
  <2>3. name' = name /\ user' = [user EXCEPT ![d] = user[p]]
    BY <1>12, <2>1 DEF EnterEdit, Admit
  <2>4. pc' = [pc EXCEPT ![d] = "read"]
    BY <1>12 DEF EnterEdit
  <2> QED
    BY <2>2, <2>3, <2>4
<1>13. ASSUME NEW d \in Edits, ReadProfile(d) PROVE WithUser'
  BY <1>13 DEF ReadProfile
<1>14. ASSUME NEW d \in Edits, WriteProfile(d) PROVE WithUser'
  BY <1>14 DEF WriteProfile, Forget
<1>15. CASE Tick
  BY <1>15 DEF Tick
<1>16. CASE UNCHANGED vars
  BY <1>16 DEF vars
<1> QED
  BY <1>1, <1>2, <1>3, <1>4, <1>5, <1>6, <1>7, <1>8, <1>9, <1>10, <1>11, <1>12,
     <1>13, <1>14, <1>15, <1>16 DEF Next

LEMMA NextOwned == Shape /\ WithAddress /\ WithUser /\ WithName /\ Owned
  /\ [Next]_vars => Owned'
<1> SUFFICES ASSUME Shape, WithAddress, WithUser, WithName, Owned, [Next]_vars
  PROVE Owned'
  OBVIOUS
<1> USE AccountsAssumption
        DEF Owned, WithAddress, WithName, Names, Shape, Goto, redis, tokens, profile,
          Signed, Requests, Issuers, Users
<1>1. ASSUME NEW s \in Signups, CheckEmail(s) PROVE Owned'
  BY <1>1 DEF CheckEmail
<1>2. ASSUME NEW s \in Signups, Create(s) PROVE Owned'
  BY <1>2 DEF Create, Sign, Register
<1>3. ASSUME NEW l \in Logins, Enter(l) PROVE Owned'
  BY <1>3 DEF Enter, Sign
<1>4. ASSUME NEW f \in Refreshes, ShowRefresh(f) PROVE Owned'
  BY <1>4 DEF ShowRefresh
<1>5. ASSUME NEW f \in Refreshes, Retire(f) PROVE Owned'
  BY <1>5 DEF Retire, Sign
<1>6. ASSUME NEW i \in Issuers, StoreAccess(i) PROVE Owned'
  BY <1>6 DEF StoreAccess
<1>7. ASSUME NEW i \in Issuers, StoreRefresh(i) PROVE Owned'
  BY <1>7 DEF StoreRefresh
<1>8. ASSUME NEW i \in Issuers, StoreFails(i) PROVE Owned'
  BY <1>8 DEF StoreFails
<1>9. ASSUME NEW o \in Logouts, EnterLogout(o) PROVE Owned'
  BY <1>9 DEF EnterLogout, Admit
<1>10. ASSUME NEW o \in Logouts, Cut(o) PROVE Owned'
  BY <1>10 DEF Cut
<1>11. ASSUME NEW o \in Logouts, Drop(o) PROVE Owned'
  BY <1>11 DEF Drop
<1>12. ASSUME NEW d \in Edits, EnterEdit(d) PROVE Owned'
  BY <1>12 DEF EnterEdit, Admit
<1>13. ASSUME NEW d \in Edits, ReadProfile(d) PROVE Owned'
  BY <1>13 DEF ReadProfile
<1>14. ASSUME NEW d \in Edits, WriteProfile(d) PROVE Owned'
  BY <1>14 DEF WriteProfile, Forget
<1>15. CASE Tick
  BY <1>15 DEF Tick
<1>16. CASE UNCHANGED vars
  BY <1>16 DEF vars
<1> QED
  BY <1>1, <1>2, <1>3, <1>4, <1>5, <1>6, <1>7, <1>8, <1>9, <1>10, <1>11, <1>12,
     <1>13, <1>14, <1>15, <1>16 DEF Next

LEMMA NextPair == Shape /\ WithPair /\ [Next]_vars => WithPair'
<1> SUFFICES ASSUME Shape, WithPair, [Next]_vars PROVE WithPair'
  OBVIOUS
<1> USE AccountsAssumption
        DEF WithPair, Issued, Shape, Goto, redis, tokens, profile, Signed, Requests,
          Issuers, Users
<1>1. ASSUME NEW s \in Signups, CheckEmail(s) PROVE WithPair'
  BY <1>1 DEF CheckEmail
<1>2. ASSUME NEW s \in Signups, Create(s) PROVE WithPair'
  BY <1>2 DEF Create, Sign, Register
<1>3. ASSUME NEW l \in Logins, Enter(l) PROVE WithPair'
  BY <1>3 DEF Enter, Sign
<1>4. ASSUME NEW f \in Refreshes, ShowRefresh(f) PROVE WithPair'
  BY <1>4 DEF ShowRefresh
<1>5. ASSUME NEW f \in Refreshes, Retire(f) PROVE WithPair'
  BY <1>5 DEF Retire, Sign
<1>6. ASSUME NEW i \in Issuers, StoreAccess(i) PROVE WithPair'
  BY <1>6 DEF StoreAccess
<1>7. ASSUME NEW i \in Issuers, StoreRefresh(i) PROVE WithPair'
  BY <1>7 DEF StoreRefresh
<1>8. ASSUME NEW i \in Issuers, StoreFails(i) PROVE WithPair'
  BY <1>8 DEF StoreFails
<1>9. ASSUME NEW o \in Logouts, EnterLogout(o) PROVE WithPair'
  BY <1>9 DEF EnterLogout, Admit
<1>10. ASSUME NEW o \in Logouts, Cut(o) PROVE WithPair'
  BY <1>10 DEF Cut
<1>11. ASSUME NEW o \in Logouts, Drop(o) PROVE WithPair'
  BY <1>11 DEF Drop
<1>12. ASSUME NEW d \in Edits, EnterEdit(d) PROVE WithPair'
  BY <1>12 DEF EnterEdit, Admit
<1>13. ASSUME NEW d \in Edits, ReadProfile(d) PROVE WithPair'
  BY <1>13 DEF ReadProfile
<1>14. ASSUME NEW d \in Edits, WriteProfile(d) PROVE WithPair'
  BY <1>14 DEF WriteProfile, Forget
<1>15. CASE Tick
  BY <1>15 DEF Tick
<1>16. CASE UNCHANGED vars
  BY <1>16 DEF vars
<1> QED
  BY <1>1, <1>2, <1>3, <1>4, <1>5, <1>6, <1>7, <1>8, <1>9, <1>10, <1>11, <1>12,
     <1>13, <1>14, <1>15, <1>16 DEF Next

LEMMA NextName == Shape /\ WithUser /\ WithName /\ [Next]_vars => WithName'
<1> SUFFICES ASSUME Shape, WithUser, WithName, [Next]_vars PROVE WithName'
  OBVIOUS
<1> USE AccountsAssumption
        DEF WithName, Shape, Goto, redis, tokens, profile, Signed, Requests, Issuers,
          Users
<1>1. ASSUME NEW s \in Signups, CheckEmail(s) PROVE WithName'
  BY <1>1 DEF CheckEmail
<1>2. ASSUME NEW s \in Signups, Create(s) PROVE WithName'
  BY <1>2 DEF Create, Sign, Register
<1>3. ASSUME NEW l \in Logins, Enter(l) PROVE WithName'
  BY <1>3 DEF Enter, Sign
<1>4. ASSUME NEW f \in Refreshes, ShowRefresh(f) PROVE WithName'
  BY <1>4 DEF ShowRefresh
<1>5. ASSUME NEW f \in Refreshes, Retire(f) PROVE WithName'
  BY <1>5 DEF Retire, Sign
<1>6. ASSUME NEW i \in Issuers, StoreAccess(i) PROVE WithName'
  BY <1>6 DEF StoreAccess
<1>7. ASSUME NEW i \in Issuers, StoreRefresh(i) PROVE WithName'
  BY <1>7 DEF StoreRefresh
<1>8. ASSUME NEW i \in Issuers, StoreFails(i) PROVE WithName'
  BY <1>8 DEF StoreFails
<1>9. ASSUME NEW o \in Logouts, EnterLogout(o) PROVE WithName'
  BY <1>9 DEF EnterLogout, Admit
<1>10. ASSUME NEW o \in Logouts, Cut(o) PROVE WithName'
  BY <1>10 DEF Cut
<1>11. ASSUME NEW o \in Logouts, Drop(o) PROVE WithName'
  BY <1>11 DEF Drop
<1>12. ASSUME NEW d \in Edits, EnterEdit(d) PROVE WithName'
  BY <1>12 DEF EnterEdit, Admit
<1>13. ASSUME NEW d \in Edits, ReadProfile(d) PROVE WithName'
  <2>1. name[user[d]] \in Names /\ d \in Edits
    BY <1>13 DEF ReadProfile, WithUser, Acting
  <2>2. asked[d] # NoName => asked[d] \in Names
    OBVIOUS
  <2> QED
    BY <1>13, <2>1, <2>2 DEF ReadProfile
<1>14. ASSUME NEW d \in Edits, WriteProfile(d) PROVE WithName'
  BY <1>14 DEF WriteProfile, Forget
<1>15. CASE Tick
  BY <1>15 DEF Tick
<1>16. CASE UNCHANGED vars
  BY <1>16 DEF vars
<1> QED
  BY <1>1, <1>2, <1>3, <1>4, <1>5, <1>6, <1>7, <1>8, <1>9, <1>10, <1>11, <1>12,
     <1>13, <1>14, <1>15, <1>16 DEF Next

LEMMA InitTyped == Init => Typed
BY AccountsAssumption
   DEF Init, Typed, Shape, WithAddress, WithUser, WithPair, WithName, Owned, Acting,
     Signed,
       Requests, Issuers, Times, Users

LEMMA NextTyped == Typed /\ [Next]_vars => Typed'
BY ShapeNext, NextAddress, NextUser, NextOwned, NextPair, NextName DEF Typed

LEMMA TypedType == Typed => TypeOK
BY DEF Typed, TypeOK, Shape, WithUser, Owned, Acting, Requests

LEMMA AlwaysTyped == Spec => []Typed
<1>1. Typed /\ [Next]_vars => Typed'
  BY NextTyped
<1> QED
  BY InitTyped, <1>1, PTL DEF Spec

\* Accounts, tokens and requests keep their types; whoever acts is a user with a
\* name (api/auth.go, middlewares/auth.go, api/profile.go).
THEOREM TypeCorrect == Spec => []TypeOK
BY AlwaysTyped, TypedType, PTL

-----------------------------------------------------------------------------
(* Addresses and tokens *)

\* The access key of a pair outlives its token, was not taken, or was deleted by
\* the logout of the pair.
Kept ==
  \A p \in Issuers :
    pc[p] \in {"refresh", "issued"} =>
      \/ akey[p] >= signed[p] + AccessLife
      \/ p \in unsaved
      \/ \E o \in Logouts : shown[o] = p /\ pc[o] \notin {"idle", "cut"}

\* What the logout of a pair leaves.
Gone ==
  \A o \in Logouts :
    pc[o] \in {"drop", "out"} =>
      akey[shown[o]] = 0 \/ now > signed[shown[o]] + AccessLife

LEMMA NextOwns == Typed /\ SignupOwnsEmail /\ [Next]_vars => SignupOwnsEmail'
<1> SUFFICES ASSUME Typed, SignupOwnsEmail, [Next]_vars PROVE SignupOwnsEmail'
  OBVIOUS
<1> USE AccountsAssumption
        DEF SignupOwnsEmail, Signed, WithAddress, Typed, Shape, Goto, redis, tokens,
          profile, Issuers, Requests, Users
<1>1. ASSUME NEW s \in Signups, CheckEmail(s) PROVE SignupOwnsEmail'
  BY <1>1 DEF CheckEmail
<1>2. ASSUME NEW s \in Signups, Create(s) PROVE SignupOwnsEmail'
  BY <1>2 DEF Create, Sign, Register
<1>3. ASSUME NEW l \in Logins, Enter(l) PROVE SignupOwnsEmail'
  BY <1>3 DEF Enter, Sign
<1>4. ASSUME NEW f \in Refreshes, ShowRefresh(f) PROVE SignupOwnsEmail'
  BY <1>4 DEF ShowRefresh
<1>5. ASSUME NEW f \in Refreshes, Retire(f) PROVE SignupOwnsEmail'
  BY <1>5 DEF Retire, Sign
<1>6. ASSUME NEW i \in Issuers, StoreAccess(i) PROVE SignupOwnsEmail'
  BY <1>6 DEF StoreAccess
<1>7. ASSUME NEW i \in Issuers, StoreRefresh(i) PROVE SignupOwnsEmail'
  BY <1>7 DEF StoreRefresh
<1>8. ASSUME NEW i \in Issuers, StoreFails(i) PROVE SignupOwnsEmail'
  BY <1>8 DEF StoreFails
<1>9. ASSUME NEW o \in Logouts, EnterLogout(o) PROVE SignupOwnsEmail'
  BY <1>9 DEF EnterLogout, Admit
<1>10. ASSUME NEW o \in Logouts, Cut(o) PROVE SignupOwnsEmail'
  BY <1>10 DEF Cut
<1>11. ASSUME NEW o \in Logouts, Drop(o) PROVE SignupOwnsEmail'
  BY <1>11 DEF Drop
<1>12. ASSUME NEW d \in Edits, EnterEdit(d) PROVE SignupOwnsEmail'
  BY <1>12 DEF EnterEdit, Admit
<1>13. ASSUME NEW d \in Edits, ReadProfile(d) PROVE SignupOwnsEmail'
  BY <1>13 DEF ReadProfile
<1>14. ASSUME NEW d \in Edits, WriteProfile(d) PROVE SignupOwnsEmail'
  BY <1>14 DEF WriteProfile, Forget
<1>15. CASE Tick
  BY <1>15 DEF Tick
<1>16. CASE UNCHANGED vars
  BY <1>16 DEF vars
<1> QED
  BY <1>1, <1>2, <1>3, <1>4, <1>5, <1>6, <1>7, <1>8, <1>9, <1>10, <1>11, <1>12,
     <1>13, <1>14, <1>15, <1>16 DEF Next

\* A signup that is answered with tokens owns its address, however signups overlap.
THEOREM OwnerTheorem == Spec => []SignupOwnsEmail
<1>1. Init => SignupOwnsEmail
  BY DEF Init, SignupOwnsEmail, Signed, Requests, Issuers
<1>2. Typed /\ SignupOwnsEmail /\ [Next]_vars => SignupOwnsEmail'
  BY NextOwns
<1> QED
  BY AlwaysTyped, <1>1, <1>2, PTL DEF Spec

LEMMA NextKept == Typed /\ Kept /\ [Next]_vars => Kept'
<1> SUFFICES ASSUME Typed, Kept, [Next]_vars PROVE Kept'
  OBVIOUS
<1> USE AccountsAssumption
        DEF Kept, WithPair, Typed, Shape, Goto, redis, tokens, profile, Issuers,
          Requests, Users
<1>1. ASSUME NEW s \in Signups, CheckEmail(s) PROVE Kept'
  BY <1>1 DEF CheckEmail
<1>2. ASSUME NEW s \in Signups, Create(s) PROVE Kept'
  BY <1>2 DEF Create, Sign, Register
<1>3. ASSUME NEW l \in Logins, Enter(l) PROVE Kept'
  BY <1>3 DEF Enter, Sign
<1>4. ASSUME NEW f \in Refreshes, ShowRefresh(f) PROVE Kept'
  BY <1>4 DEF ShowRefresh
<1>5. ASSUME NEW f \in Refreshes, Retire(f) PROVE Kept'
  BY <1>5 DEF Retire, Sign
<1>6. ASSUME NEW i \in Issuers, StoreAccess(i) PROVE Kept'
  <2>1. PICK t \in KeyEnds(i) : akey' = [akey EXCEPT ![i] = t]
    BY <1>6 DEF StoreAccess
  <2>2. t >= signed[i] + AccessLife
    BY <2>1, KeyRange
  <2>3. pc' = [pc EXCEPT ![i] = "refresh"] /\ UNCHANGED <<signed, shown, unsaved>>
    BY <1>6 DEF StoreAccess
  <2> QED
    BY <2>1, <2>2, <2>3
<1>7. ASSUME NEW i \in Issuers, StoreRefresh(i) PROVE Kept'
  BY <1>7 DEF StoreRefresh
<1>8. ASSUME NEW i \in Issuers, StoreFails(i) PROVE Kept'
  BY <1>8 DEF StoreFails
<1>9. ASSUME NEW o \in Logouts, EnterLogout(o) PROVE Kept'
  BY <1>9 DEF EnterLogout, Admit
<1>10. ASSUME NEW o \in Logouts, Cut(o) PROVE Kept'
  BY <1>10 DEF Cut
<1>11. ASSUME NEW o \in Logouts, Drop(o) PROVE Kept'
  BY <1>11 DEF Drop
<1>12. ASSUME NEW d \in Edits, EnterEdit(d) PROVE Kept'
  BY <1>12 DEF EnterEdit, Admit
<1>13. ASSUME NEW d \in Edits, ReadProfile(d) PROVE Kept'
  BY <1>13 DEF ReadProfile
<1>14. ASSUME NEW d \in Edits, WriteProfile(d) PROVE Kept'
  BY <1>14 DEF WriteProfile, Forget
<1>15. CASE Tick
  BY <1>15 DEF Tick
<1>16. CASE UNCHANGED vars
  BY <1>16 DEF vars
<1> QED
  BY <1>1, <1>2, <1>3, <1>4, <1>5, <1>6, <1>7, <1>8, <1>9, <1>10, <1>11, <1>12,
     <1>13, <1>14, <1>15, <1>16 DEF Next

\* A pair that was handed out is let in until its token expires, unless it was
\* logged out itself or Redis had not taken its key.
THEOREM IssuedTheorem == Spec => []IssuedWorks
<1>1. Init => Kept
  BY DEF Init, Kept, Requests, Issuers
<1>2. Typed /\ Kept /\ [Next]_vars => Kept'
  BY NextKept
<1>3. Typed /\ Kept => IssuedWorks
  BY AccountsAssumption DEF Typed, Shape, Kept, IssuedWorks, Issued, Live, Times
<1> QED
  BY AlwaysTyped, <1>1, <1>2, <1>3, PTL DEF Spec

LEMMA NextGone == Typed /\ Gone /\ [Next]_vars => Gone'
<1> SUFFICES ASSUME Typed, Gone, [Next]_vars PROVE Gone'
  OBVIOUS
<1> USE AccountsAssumption
        DEF Gone, WithPair, Issued, Typed, Shape, Goto, redis, tokens, profile,
          Issuers, Requests, Users
<1>1. ASSUME NEW s \in Signups, CheckEmail(s) PROVE Gone'
  BY <1>1 DEF CheckEmail
<1>2. ASSUME NEW s \in Signups, Create(s) PROVE Gone'
  BY <1>2 DEF Create, Sign, Register
<1>3. ASSUME NEW l \in Logins, Enter(l) PROVE Gone'
  BY <1>3 DEF Enter, Sign
<1>4. ASSUME NEW f \in Refreshes, ShowRefresh(f) PROVE Gone'
  BY <1>4 DEF ShowRefresh
<1>5. ASSUME NEW f \in Refreshes, Retire(f) PROVE Gone'
  BY <1>5 DEF Retire, Sign
<1>6. ASSUME NEW i \in Issuers, StoreAccess(i) PROVE Gone'
  BY <1>6 DEF StoreAccess
<1>7. ASSUME NEW i \in Issuers, StoreRefresh(i) PROVE Gone'
  BY <1>7 DEF StoreRefresh
<1>8. ASSUME NEW i \in Issuers, StoreFails(i) PROVE Gone'
  BY <1>8 DEF StoreFails
<1>9. ASSUME NEW o \in Logouts, EnterLogout(o) PROVE Gone'
  BY <1>9 DEF EnterLogout, Admit
<1>10. ASSUME NEW o \in Logouts, Cut(o) PROVE Gone'
  <2>1. shown[o] \in Issuers /\ UNCHANGED <<signed, shown, now>>
    BY <1>10 DEF Cut
  <2>2. CASE pc' = [pc EXCEPT ![o] = "skip"] /\ UNCHANGED akey
    BY <2>1, <2>2
  <2>3. CASE /\ pc' = [pc EXCEPT ![o] = "drop"]
             /\ AccessGood(shown[o]) /\ akey' = [akey EXCEPT ![shown[o]] = 0]
    BY <2>1, <2>3
  <2>4. CASE /\ pc' = [pc EXCEPT ![o] = "drop"]
             /\ ~AccessGood(shown[o]) /\ UNCHANGED akey
    <3>1. now > signed[shown[o]] + AccessLife
      BY <2>1, <2>4 DEF AccessGood
    <3> QED
      BY <2>1, <2>4, <3>1
  <2> QED
    BY <1>10, <2>2, <2>3, <2>4 DEF Cut
<1>11. ASSUME NEW o \in Logouts, Drop(o) PROVE Gone'
  BY <1>11 DEF Drop
<1>12. ASSUME NEW d \in Edits, EnterEdit(d) PROVE Gone'
  BY <1>12 DEF EnterEdit, Admit
<1>13. ASSUME NEW d \in Edits, ReadProfile(d) PROVE Gone'
  BY <1>13 DEF ReadProfile
<1>14. ASSUME NEW d \in Edits, WriteProfile(d) PROVE Gone'
  BY <1>14 DEF WriteProfile, Forget
<1>15. CASE Tick
  BY <1>15 DEF Tick
<1>16. CASE UNCHANGED vars
  BY <1>16 DEF vars
<1> QED
  BY <1>1, <1>2, <1>3, <1>4, <1>5, <1>6, <1>7, <1>8, <1>9, <1>10, <1>11, <1>12,
     <1>13, <1>14, <1>15, <1>16 DEF Next

\* Once the logout of a pair has run its DEL, the pair is never let in again.
THEOREM LogoutTheorem == Spec => []LogoutHolds
<1>1. Init => Gone
  BY DEF Init, Gone, Requests
<1>2. Typed /\ Gone /\ [Next]_vars => Gone'
  BY NextGone
<1>3. Typed /\ Gone => LogoutHolds
  BY AccountsAssumption DEF Typed, Shape, WithPair, Issued, Gone, LogoutHolds,
     AccessGood, Live, Times, Requests
<1> QED
  BY AlwaysTyped, <1>1, <1>2, <1>3, PTL DEF Spec

-----------------------------------------------------------------------------
(* Names *)

\* Some edit wrote a name from before the last one asked for.
WroteStale(u) == \E d \in stale : pc[d] = "done" /\ user[d] = u

\* An edit holds the name it asks for, or the last one asked for when it read, or
\* one that another had left stale.
HeldAccounted ==
  \A d \in Edits :
    pc[d] = "write" =>
      IF asked[d] = NoName
        THEN held[d] = wanted[user[d]] \/ d \in stale \/ WroteStale(user[d])
        ELSE held[d] = asked[d]

LEMMA NextHeld == Typed /\ NameAccounted /\ HeldAccounted
  /\ [Next]_vars => HeldAccounted'
<1> SUFFICES ASSUME Typed, NameAccounted, HeldAccounted, [Next]_vars
  PROVE HeldAccounted'
  OBVIOUS
<1> USE AccountsAssumption
        DEF HeldAccounted, WithUser, WithName, NameAccounted, WroteStale, Acting,
          Typed, Shape, Goto, redis, tokens, profile, Issuers, Requests, Users
<1>1. ASSUME NEW s \in Signups, CheckEmail(s) PROVE HeldAccounted'
  BY <1>1 DEF CheckEmail
<1>2. ASSUME NEW s \in Signups, Create(s) PROVE HeldAccounted'
  <2>1. s \in Signups /\ name[s] \notin Names
    BY <1>2 DEF Create, Names
  <2>2. \A d \in Edits : pc'[d] = pc[d] /\ user'[d] = user[d]
        /\ (pc[d] = "write" => user[d] # s)
    BY <1>2, <2>1 DEF Create, Register, Sign
  <2>3. UNCHANGED <<asked, held, stale>>
                    /\ \A u \in Users \ {s} : wanted'[u] = wanted[u]
    BY <1>2 DEF Create, Register
  <2>4. \A d \in Edits : pc[d] = "write" => (WroteStale(user[d]) => WroteStale(user[d])')
    BY <2>2, <2>3
  <2> QED
    BY <2>2, <2>3, <2>4
<1>3. ASSUME NEW l \in Logins, Enter(l) PROVE HeldAccounted'
  BY <1>3 DEF Enter, Sign
<1>4. ASSUME NEW f \in Refreshes, ShowRefresh(f) PROVE HeldAccounted'
  BY <1>4 DEF ShowRefresh
<1>5. ASSUME NEW f \in Refreshes, Retire(f) PROVE HeldAccounted'
  BY <1>5 DEF Retire, Sign
<1>6. ASSUME NEW i \in Issuers, StoreAccess(i) PROVE HeldAccounted'
  BY <1>6 DEF StoreAccess
<1>7. ASSUME NEW i \in Issuers, StoreRefresh(i) PROVE HeldAccounted'
  BY <1>7 DEF StoreRefresh
<1>8. ASSUME NEW i \in Issuers, StoreFails(i) PROVE HeldAccounted'
  BY <1>8 DEF StoreFails
<1>9. ASSUME NEW o \in Logouts, EnterLogout(o) PROVE HeldAccounted'
  BY <1>9 DEF EnterLogout, Admit
<1>10. ASSUME NEW o \in Logouts, Cut(o) PROVE HeldAccounted'
  BY <1>10 DEF Cut
<1>11. ASSUME NEW o \in Logouts, Drop(o) PROVE HeldAccounted'
  BY <1>11 DEF Drop
<1>12. ASSUME NEW d \in Edits, EnterEdit(d) PROVE HeldAccounted'
  BY <1>12 DEF EnterEdit, Admit
<1>13. ASSUME NEW d \in Edits, ReadProfile(d) PROVE HeldAccounted'
  BY <1>13 DEF ReadProfile
<1>14. ASSUME NEW d \in Edits, WriteProfile(d) PROVE HeldAccounted'
  BY <1>14 DEF WriteProfile, Forget
<1>15. CASE Tick
  BY <1>15 DEF Tick
<1>16. CASE UNCHANGED vars
  BY <1>16 DEF vars
<1> QED
  BY <1>1, <1>2, <1>3, <1>4, <1>5, <1>6, <1>7, <1>8, <1>9, <1>10, <1>11, <1>12,
     <1>13, <1>14, <1>15, <1>16 DEF Next

LEMMA NextNamed == Typed /\ NameAccounted /\ HeldAccounted
  /\ [Next]_vars => NameAccounted'
<1> SUFFICES ASSUME Typed, NameAccounted, HeldAccounted, [Next]_vars
  PROVE NameAccounted'
  OBVIOUS
<1> USE AccountsAssumption
        DEF HeldAccounted, WithUser, WithName, NameAccounted, WroteStale, Acting,
          Typed, Shape, Goto, redis, tokens, profile, Issuers, Requests, Users
<1>1. ASSUME NEW s \in Signups, CheckEmail(s) PROVE NameAccounted'
  BY <1>1 DEF CheckEmail
<1>2. ASSUME NEW s \in Signups, Create(s) PROVE NameAccounted'
  BY <1>2 DEF Create, Sign, Register
<1>3. ASSUME NEW l \in Logins, Enter(l) PROVE NameAccounted'
  BY <1>3 DEF Enter, Sign
<1>4. ASSUME NEW f \in Refreshes, ShowRefresh(f) PROVE NameAccounted'
  BY <1>4 DEF ShowRefresh
<1>5. ASSUME NEW f \in Refreshes, Retire(f) PROVE NameAccounted'
  BY <1>5 DEF Retire, Sign
<1>6. ASSUME NEW i \in Issuers, StoreAccess(i) PROVE NameAccounted'
  BY <1>6 DEF StoreAccess
<1>7. ASSUME NEW i \in Issuers, StoreRefresh(i) PROVE NameAccounted'
  BY <1>7 DEF StoreRefresh
<1>8. ASSUME NEW i \in Issuers, StoreFails(i) PROVE NameAccounted'
  BY <1>8 DEF StoreFails
<1>9. ASSUME NEW o \in Logouts, EnterLogout(o) PROVE NameAccounted'
  BY <1>9 DEF EnterLogout, Admit
<1>10. ASSUME NEW o \in Logouts, Cut(o) PROVE NameAccounted'
  BY <1>10 DEF Cut
<1>11. ASSUME NEW o \in Logouts, Drop(o) PROVE NameAccounted'
  BY <1>11 DEF Drop
<1>12. ASSUME NEW d \in Edits, EnterEdit(d) PROVE NameAccounted'
  BY <1>12 DEF EnterEdit, Admit
<1>13. ASSUME NEW d \in Edits, ReadProfile(d) PROVE NameAccounted'
  BY <1>13 DEF ReadProfile
<1>14. ASSUME NEW d \in Edits, WriteProfile(d) PROVE NameAccounted'
  BY <1>14 DEF WriteProfile, Forget
<1>15. CASE Tick
  BY <1>15 DEF Tick
<1>16. CASE UNCHANGED vars
  BY <1>16 DEF vars
<1> QED
  BY <1>1, <1>2, <1>3, <1>4, <1>5, <1>6, <1>7, <1>8, <1>9, <1>10, <1>11, <1>12,
     <1>13, <1>14, <1>15, <1>16 DEF Next

\* The name of a user is the last one asked for, but for edits without a name that
\* had read it before that.
THEOREM NameTheorem == Spec => []NameAccounted
<1>1. Init => NameAccounted /\ HeldAccounted
  BY DEF Init, NameAccounted, HeldAccounted, Requests
<1>2. Typed /\ NameAccounted /\ HeldAccounted /\ [Next]_vars => (NameAccounted
      /\ HeldAccounted)'
  BY NextHeld, NextNamed
<1> QED
  BY AlwaysTyped, <1>1, <1>2, PTL DEF Spec
=============================================================================
