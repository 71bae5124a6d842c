------------------------------ MODULE Accounts ------------------------------
(***************************************************************************)
(* Accounts and their tokens (api/auth.go, models/auth.go, models/user.go, *)
(* middlewares/auth.go) with one protected handler behind the middleware,  *)
(* the PUT of the own profile (api/profile.go:78-108).                     *)
(*                                                                         *)
(* A token pair is named by the request that made it.  A token is good     *)
(* until the time signed into it; Redis has a key for each half of the     *)
(* pair, which goes at its own time or is deleted.  Signing and hashing    *)
(* are libraries', and every token a client shows is one it was given.     *)
(* Signup's row of user_stats is the initial state of UserStats.           *)
(***************************************************************************)
EXTENDS Integers

CONSTANTS Emails,
          Signups, Logins, Refreshes, Logouts, Edits,   \* one request each
          NoName,                  \* the name in the body is empty
          Nobody,
          AccessLife, RefreshLife, \* 15 minutes and 7 days
          MaxTime,                 \* bound on the clock
          MaxFaults                \* bound on failing statements, dying handlers

Issuers  == Signups \cup Logins \cup Refreshes
Requests == Issuers \cup Logouts \cup Edits

ASSUME AccountsAssumption ==
  /\ Signups \cap Logins = {} /\ Signups \cap Refreshes = {}
  /\ Logins \cap Refreshes = {} /\ Issuers \cap Logouts = {}
  /\ Issuers \cap Edits = {} /\ Logouts \cap Edits = {}
  /\ Nobody \notin Requests \cup Emails /\ NoName \notin Requests
  /\ AccessLife \in Nat \ {0} /\ RefreshLife \in Nat \ {0}
  /\ AccessLife < RefreshLife
  /\ MaxTime \in Nat /\ MaxFaults \in Nat

VARIABLES account,       \* users.email: the signup whose row has the address
          name,          \* users.name, by user; a user is named by its signup
          akey,          \* Redis: when the access key of a pair goes, 0 if not there
          rkey,          \* Redis: whose refresh key was stored and not deleted;
                         \* nothing reads it, so when it goes is left out
          pc,            \* where each request is
          email,         \* the address in the body of a signup
          user,          \* the user a request acts for
          signed,        \* when a pair was signed
          shown,         \* the pair whose tokens a request shows
          asked, held,   \* the name an edit asks for, and the one it will write
          now, faults,
          \* History, not read by any action.
          unsaved,       \* pairs whose access key Redis did not take
          wanted,        \* the name that was last asked for and written
          stale          \* edits that hold a name from before the last such write

redis   == <<akey, rkey>>
tokens  == <<user, signed, shown>>
profile == <<name, asked, held, wanted, stale>>
vars    == <<account, email, redis, tokens, profile, pc, now, faults, unsaved>>

Users == Signups

\* Each request that gives a name gives one of its own.
Names == Signups \cup Edits
Times == 0..(MaxTime + AccessLife)

Steps == {"create", "retire", "access", "refresh", "cut", "drop", "skip",
          "read", "write"}
\* "kept": answered 200 like "out", but the access key was not deleted.
Outcomes == {"issued", "conflict", "out", "kept", "done", "failed"}

Signed(i) == pc[i] \in {"access", "refresh", "issued"}

TypeOK ==
  /\ account \in [Emails -> Users \cup {Nobody}]
  /\ name \in [Users -> Names \cup {NoName}]
  /\ wanted \in [Users -> Names \cup {NoName}]
  /\ akey \in [Issuers -> Times] /\ rkey \subseteq Issuers
  /\ pc \in [Requests -> {"idle"} \cup Steps \cup Outcomes]
  /\ email \in [Signups -> Emails \cup {Nobody}]
  /\ user \in [Requests -> Users \cup {Nobody}]
  /\ signed \in [Issuers -> 0..MaxTime]
  /\ shown \in [Refreshes \cup Logouts -> Issuers \cup {Nobody}]
  /\ asked \in [Edits -> Names \cup {NoName}]
  /\ held \in [Edits -> Names \cup {NoName}]
  /\ now \in 0..MaxTime /\ faults \in 0..MaxFaults
  /\ unsaved \subseteq Issuers /\ stale \subseteq Edits
  \* Tokens are of users, and every user has a name.
  /\ \A i \in Issuers : Signed(i) => user[i] \in Users
  /\ \A e \in Emails : account[e] # Nobody => name[account[e]] \in Names

Init ==
  /\ account = [e \in Emails |-> Nobody]
  /\ name = [u \in Users |-> NoName] /\ wanted = name
  /\ akey = [i \in Issuers |-> 0] /\ rkey = {}
  /\ pc = [r \in Requests |-> "idle"]
  /\ email = [s \in Signups |-> Nobody]
  /\ user = [r \in Requests |-> Nobody]
  /\ signed = [i \in Issuers |-> 0]
  /\ shown = [r \in Refreshes \cup Logouts |-> Nobody]
  /\ asked = [d \in Edits |-> NoName] /\ held = [d \in Edits |-> NoName]
  /\ now = 0 /\ faults = 0
  /\ unsaved = {} /\ stale = {}

Issued == {i \in Issuers : pc[i] = "issued"}

\* exp, to the second and inclusive; the key of a token goes a moment earlier.
AccessGood(p)  == now <= signed[p] + AccessLife
RefreshGood(p) == now <= signed[p] + RefreshLife
Live(key)      == now < key

Goto(r, step) == pc' = [pc EXCEPT ![r] = step]
Fault         == faults < MaxFaults /\ faults' = faults + 1

\* CreateToken.
Sign(i, u) == /\ user' = [user EXCEPT ![i] = u]
              /\ signed' = [signed EXCEPT ![i] = now]
              /\ Goto(i, "access")

-----------------------------------------------------------------------------
(* POST /api/auth/signup, login, refresh *)

\* EmailExists; an error of its statement reads as no.
CheckEmail(s) ==
  /\ pc[s] = "idle"
  /\ \E e \in Emails :
       /\ email' = [email EXCEPT ![s] = e]
       /\ \/ Goto(s, IF account[e] = Nobody THEN "create" ELSE "conflict")
             /\ UNCHANGED faults
          \/ Goto(s, "create") /\ Fault
  /\ UNCHANGED <<account, redis, tokens, profile, now, unsaved>>

Register(s) == /\ account' = [account EXCEPT ![email[s]] = s]
               /\ name' = [name EXCEPT ![s] = s] /\ wanted' = [wanted EXCEPT ![s] = s]
               /\ Sign(s, s)

\* Mutant: the INSERT overwrites a row with the same address.
CreateOver(s) ==
  /\ pc[s] = "create"
  /\ Register(s)
  /\ UNCHANGED <<email, redis, shown, asked, held, stale, now, faults, unsaved>>

\* The INSERT, or the unique key refuses it.
Create(s) ==
  /\ pc[s] = "create"
  /\ \/ /\ account[email[s]] = Nobody
        /\ Register(s)
     \/ /\ account[email[s]] # Nobody
        /\ Goto(s, "failed")
        /\ UNCHANGED <<account, name, wanted, user, signed>>
  /\ UNCHANGED <<email, redis, shown, asked, held, stale, now, faults, unsaved>>

\* The address is known and the password right; otherwise nothing happens.
Enter(l) ==
  /\ pc[l] = "idle"
  /\ \E e \in Emails : account[e] # Nobody /\ Sign(l, account[e])
  /\ UNCHANGED <<account, email, redis, shown, profile, now, faults, unsaved>>

\* ValidateRefreshToken looks at the token only.
ShowRefresh(f) ==
  /\ pc[f] = "idle"
  /\ \E p \in Issued : RefreshGood(p) /\ shown' = [shown EXCEPT ![f] = p]
  /\ Goto(f, "retire")
  /\ UNCHANGED <<account, email, redis, user, signed, profile, now, faults, unsaved>>

\* DeleteAuth of the refresh key, its error ignored, and a new pair.
Retire(f) ==
  /\ pc[f] = "retire"
  /\ \/ rkey' = rkey \ {shown[f]} /\ UNCHANGED faults
     \/ Fault /\ UNCHANGED rkey
  /\ Sign(f, user[shown[f]])
  /\ shown' = [shown EXCEPT ![f] = Nobody]
  /\ UNCHANGED <<account, email, akey, profile, now, unsaved>>

\* The two SETs of CreateAuth.  A key is to live for what was left of its token when
\* CreateAuth read the clock, some time after it was signed (which is something: no
\* handler takes 15 minutes to get there), from when Redis has it.
Left(i)    == {signed[i] + AccessLife - read : read \in signed[i]..now} \cap (Nat \ {0})
KeyEnds(i) == {now + left : left \in Left(i)}

StoreAccess(i) ==
  /\ pc[i] = "access"
  /\ \E t \in KeyEnds(i) : akey' = [akey EXCEPT ![i] = t]
  /\ Goto(i, "refresh")
  /\ UNCHANGED <<account, email, rkey, tokens, profile, now, faults, unsaved>>

StoreRefresh(i) ==
  /\ pc[i] = "refresh"
  /\ rkey' = rkey \cup {i}
  /\ Goto(i, "issued")
  /\ UNCHANGED <<account, email, akey, tokens, profile, now, faults, unsaved>>

\* Signup and Refresh ignore an error of CreateAuth, which after the first SET
\* does not try the second; Login answers 500, and no pair.
StoreFails(i) ==
  /\ i \notin Logins /\ pc[i] \in {"access", "refresh"}
  /\ Fault
  /\ unsaved' = IF pc[i] = "access" THEN unsaved \cup {i} ELSE unsaved
  /\ Goto(i, "issued")
  /\ UNCHANGED <<account, email, redis, tokens, profile, now>>

-----------------------------------------------------------------------------
(* AuthMiddleware and the handlers behind it *)

\* The token is good and its key there.  Who is refused changes nothing.
Admit(r, p) ==
  /\ pc[r] = "idle"
  /\ p \in Issued /\ AccessGood(p) /\ Live(akey[p])
  /\ user' = [user EXCEPT ![r] = user[p]]

EnterLogout(o) ==
  /\ \E p \in Issuers : Admit(o, p) /\ shown' = [shown EXCEPT ![o] = p]
  /\ Goto(o, "cut")
  /\ UNCHANGED <<account, email, redis, signed, profile, now, faults, unsaved>>

\* Mutant: a logout ends every session of the user.
CutAll(o) ==
  /\ pc[o] = "cut"
  /\ akey' = [i \in Issuers |-> IF user[i] = user[o] THEN 0 ELSE akey[i]]
  /\ Goto(o, "drop")
  /\ UNCHANGED <<account, email, rkey, tokens, profile, now, faults, unsaved>>

\* Mutant: the refresh key is deleted twice.
CutRefresh(o) ==
  /\ pc[o] = "cut"
  /\ rkey' = rkey \ {shown[o]}
  /\ Goto(o, "drop")
  /\ UNCHANGED <<account, email, akey, tokens, profile, now, faults, unsaved>>

\* DeleteAuth of the access key, its error ignored.  The token is read again
\* for it and may have expired by now.
Cut(o) ==
  /\ pc[o] = "cut"
  /\ \/ /\ akey' = IF AccessGood(shown[o]) THEN [akey EXCEPT ![shown[o]] = 0] ELSE akey
        /\ Goto(o, "drop") /\ UNCHANGED faults
     \/ Goto(o, "skip") /\ Fault /\ UNCHANGED akey
  /\ UNCHANGED <<account, email, rkey, tokens, profile, now, unsaved>>

\* DeleteAuth of the refresh key, when a good refresh token came along: of this
\* pair or another.
Drop(o) ==
  /\ pc[o] \in {"drop", "skip"}
  /\ \/ \E q \in Issued : RefreshGood(q) /\ rkey' = rkey \ {q}
     \/ UNCHANGED rkey
  /\ Goto(o, IF pc[o] = "drop" THEN "out" ELSE "kept")
  /\ UNCHANGED <<account, email, akey, tokens, profile, now, faults, unsaved>>

EnterEdit(d) ==
  /\ \E p \in Issuers : Admit(d, p)
  /\ \E n \in {d, NoName} : asked' = [asked EXCEPT ![d] = n]
  /\ Goto(d, "read")
  /\ UNCHANGED <<account, email, redis, signed, shown, name, held, wanted, stale,
                 now, faults, unsaved>>

\* Mutant: no fall back to the name that is there.
ReadNothing(d) ==
  /\ pc[d] = "read"
  /\ held' = [held EXCEPT ![d] = asked[d]]
  /\ Goto(d, "write")
  /\ UNCHANGED <<account, email, redis, tokens, name, asked, wanted, stale,
                 now, faults, unsaved>>

\* GetById, and the name to write.
ReadProfile(d) ==
  /\ pc[d] = "read"
  /\ held' = [held EXCEPT ![d] = IF asked[d] = NoName THEN name[user[d]] ELSE asked[d]]
  /\ Goto(d, "write")
  /\ UNCHANGED <<account, email, redis, tokens, name, asked, wanted, stale,
                 now, faults, unsaved>>

\* The handler returns, and its variables are gone.
Forget(d) == /\ asked' = [asked EXCEPT ![d] = NoName]
             /\ held' = [held EXCEPT ![d] = NoName]

\* Mutant: UPDATE without WHERE.
WriteEveryProfile(d) ==
  /\ pc[d] = "write"
  /\ name' = [u \in Users |-> held[d]]
  /\ wanted' = IF asked[d] = NoName THEN wanted ELSE [wanted EXCEPT ![user[d]] = held[d]]
  /\ Forget(d)
  /\ Goto(d, "done")
  /\ UNCHANGED <<account, email, redis, tokens, stale, now, faults, unsaved>>

\* UpdateProfile.
WriteProfile(d) ==
  /\ pc[d] = "write"
  /\ name' = [name EXCEPT ![user[d]] = held[d]]
  /\ IF asked[d] = NoName
       THEN UNCHANGED <<wanted, stale>>
       ELSE /\ wanted' = [wanted EXCEPT ![user[d]] = held[d]]
            /\ stale' = stale \cup {c \in Edits : pc[c] = "write" /\ user[c] = user[d]
                                                  /\ asked[c] = NoName}
  /\ Forget(d)
  /\ Goto(d, "done")
  /\ UNCHANGED <<account, email, redis, tokens, now, faults, unsaved>>

-----------------------------------------------------------------------------
Tick ==
  /\ now < MaxTime
  /\ now' = now + 1
  /\ UNCHANGED <<account, email, redis, tokens, profile, pc, faults, unsaved>>

Next ==
  \/ \E s \in Signups : CheckEmail(s) \/ Create(s)
  \/ \E l \in Logins : Enter(l)
  \/ \E f \in Refreshes : ShowRefresh(f) \/ Retire(f)
  \/ \E i \in Issuers : StoreAccess(i) \/ StoreRefresh(i) \/ StoreFails(i)
  \/ \E o \in Logouts : EnterLogout(o) \/ Cut(o) \/ Drop(o)
  \/ \E d \in Edits : EnterEdit(d) \/ ReadProfile(d) \/ WriteProfile(d)
  \/ Tick

Spec == Init /\ [][Next]_vars

-----------------------------------------------------------------------------
\* However signups overlap, one that is answered with tokens is the one that owns
\* its address; EmailExists alone would not see to that (api/auth.go:69-78).
SignupOwnsEmail ==
  \A s \in Signups : Signed(s) => account[email[s]] = s

\* A pair that was handed out is let in until its token expires, even after it was
\* refreshed, unless it was logged out itself or Redis had not taken its key;
\* logging out one session leaves the others (api/auth.go:85, 98-111, 138-147).
IssuedWorks ==
  \A p \in Issued :
    now < signed[p] + AccessLife =>
      \/ Live(akey[p])
      \/ p \in unsaved
      \/ \E o \in Logouts : shown[o] = p /\ pc[o] \notin {"idle", "cut"}

\* Once the logout of a pair has run its DEL the pair is never let in again, with
\* whatever stores, refreshes and other logouts around it (api/auth.go:101-104).
LogoutHolds ==
  \A o \in Logouts :
    pc[o] \in {"drop", "out"} => ~(AccessGood(shown[o]) /\ Live(akey[shown[o]]))

\* The name of a user is the last one asked for, unless an edit without a name,
\* which writes back the one it read, had read it before that (api/profile.go:91-104).
NameAccounted ==
  \A u \in Users :
    name[u] = wanted[u]
      \/ \E d \in stale : pc[d] = "done" /\ user[d] = u
=============================================================================
