----------------------------- MODULE AdminTabs -----------------------------
(***************************************************************************)
(* An administrator's sessions: the first admin made at start, signing in  *)
(* and out (handlers/auth.ts, services/auth), and the dashboard's tabs,    *)
(* which share one local storage (dashboard hooks/useAuth.tsx). A tab's    *)
(* requests are on the wire while it goes on.                              *)
(***************************************************************************)
EXTENDS Naturals, FiniteSets

CONSTANTS
    Apis,          \* API processes that start together
    Tabs,          \* tabs of one browser
    MaxSessions,   \* bound: sessions made
    MaxReloads     \* bound: times a tab is loaded again

ASSUME AdminTabsAssumption == MaxSessions \in Nat /\ MaxReloads \in Nat

VARIABLES
    booting,       \* [Apis -> "start", "absent" (has found no admin) or "up"]
    admin,         \* the admin has its row
    live,          \* sessions in Redis
    made,          \* sessions made so far, numbered from 1
    storedToken,        \* the token in local storage, 0 without one
    storedUser,    \* a user is in local storage
    holds,         \* [Tabs -> the token the tab's state holds]
    verifying,     \* [Tabs -> the token whose check is on the wire]
    signing,       \* [Tabs -> "no", "asked", or the session it is answered]
    leaving,       \* [Tabs -> the token held and the token sent, by a tab that signs out]
    given,         \* history: [Tabs -> the session the tab was last given, if it should still hold it]
    left,          \* history: sessions signed out of with the server's word
    reloads        \* tabs loaded again so far

tabVars == <<booting, admin, live, made, storedToken, storedUser, holds, verifying,
             signing, leaving, given, left, reloads>>
serverVars == <<booting, admin, live, made, left>>
browserVars == <<storedToken, storedUser, reloads>>

SessionIds == 1..MaxSessions
NoToken == 0
Staying == <<NoToken, NoToken>>

AdminTabsTypeOK ==
    /\ booting \in [Apis -> {"start", "absent", "up"}]
    /\ admin \in BOOLEAN /\ storedUser \in BOOLEAN
    /\ live \subseteq SessionIds /\ left \subseteq SessionIds
    /\ made \in 0..MaxSessions
    /\ storedToken \in 0..MaxSessions
    /\ leaving \in [Tabs -> (0..MaxSessions) \X (0..MaxSessions)]
    /\ {holds, verifying, given} \subseteq [Tabs -> 0..MaxSessions]
    /\ \A t \in Tabs : signing[t] \in ({"no", "asked"} \X {NoToken}) \cup ({"answered"} \X SessionIds)
    /\ reloads \in 0..MaxReloads

AdminTabsInit ==
    /\ booting = [a \in Apis |-> "start"] /\ admin = FALSE
    /\ live = {} /\ left = {} /\ made = 0
    /\ storedToken = NoToken /\ storedUser = FALSE
    /\ holds = [t \in Tabs |-> NoToken] /\ verifying = holds
    /\ leaving = [t \in Tabs |-> Staying] /\ given = holds
    /\ signing = [t \in Tabs |-> <<"no", NoToken>>]
    /\ reloads = 0

-----------------------------------------------------------------------------
(* The server.                                                             *)

FindByEmail == admin
InsertAdmin == admin' \in {TRUE, admin}
GetSession(token) == token \in live
GetMe(t) == GetSession(verifying[t])
RevokeSession(token) == live' = live \ {token}

\* A new session of a random token, for as long as it is not revoked or old.
NewSession ==
    /\ made < MaxSessions
    /\ made' = made + 1
    /\ live' = live \cup {made'}

\* Two processes may both find no admin; the second's row is refused by the
\* unique email, and it starts all the same.
FindAdmin(a) ==
    /\ booting[a] = "start"
    /\ booting' = [booting EXCEPT ![a] = IF FindByEmail THEN "up" ELSE "absent"]
    /\ UNCHANGED <<admin, live, made, left, browserVars, holds, verifying, signing, leaving, given>>

CreateAdmin(a) ==
    /\ booting[a] = "absent"
    /\ booting' = [booting EXCEPT ![a] = "up"]
    /\ InsertAdmin
    /\ UNCHANGED <<live, made, left, browserVars, holds, verifying, signing, leaving, given>>

SessionExpires(s) ==
    /\ s \in live /\ live' = live \ {s}
    /\ UNCHANGED <<booting, admin, made, left, browserVars, holds, verifying, signing, leaving, given>>

\* Wrong credentials, an unknown name and a failure all end the attempt.
CreateSession(t) ==
    /\ signing[t][1] = "asked" /\ FindByEmail
    /\ NewSession
    /\ signing' = [signing EXCEPT ![t] = <<"answered", made'>>]
    /\ UNCHANGED <<booting, admin, left, browserVars, holds, verifying, leaving, given>>

-----------------------------------------------------------------------------
(* A tab.                                                                  *)

\* Loaded: nothing held, and the stored token is checked.
LoadTab(t) ==
    /\ reloads < MaxReloads /\ reloads' = reloads + 1
    /\ holds' = [holds EXCEPT ![t] = NoToken]
    /\ verifying' = [verifying EXCEPT ![t] = storedToken]
    /\ signing' = [signing EXCEPT ![t] = <<"no", NoToken>>]
    /\ leaving' = [leaving EXCEPT ![t] = Staying]
    /\ given' = [given EXCEPT ![t] = NoToken]
    /\ UNCHANGED <<serverVars, storedToken, storedUser>>

\* The answer replaces whatever the tab holds by now, a new session included.
\* Any answer but 200 (an ended session, a limit, an error) clears tab and
\* storage; without a network the cached user serves.
Verified(t) ==
    /\ verifying[t] # NoToken
    /\ verifying' = [verifying EXCEPT ![t] = NoToken]
    /\ \/ /\ GetMe(t)
          /\ holds' = [holds EXCEPT ![t] = verifying[t]]
          /\ storedUser' = TRUE /\ UNCHANGED storedToken
       \/ /\ holds' = [holds EXCEPT ![t] = NoToken]
          /\ storedUser' = FALSE /\ storedToken' = NoToken
       \/ /\ holds' = IF storedUser THEN [holds EXCEPT ![t] = verifying[t]] ELSE holds
          /\ UNCHANGED <<storedUser, storedToken>>
    /\ given' = [given EXCEPT ![t] = NoToken]
    /\ UNCHANGED <<serverVars, signing, leaving, reloads>>

\* The page to sign in on is open to a tab that holds nothing, one whose
\* stored token is still being checked included.
SignIn(t) ==
    /\ holds[t] = NoToken /\ signing[t][1] = "no" /\ leaving[t] = Staying
    /\ signing' = [signing EXCEPT ![t] = <<"asked", NoToken>>]
    /\ UNCHANGED <<serverVars, browserVars, holds, verifying, leaving, given>>

SignedIn(t) ==
    /\ signing[t][1] = "answered"
    /\ holds' = [holds EXCEPT ![t] = signing[t][2]]
    /\ storedToken' = signing[t][2] /\ storedUser' = TRUE
    /\ given' = [given EXCEPT ![t] = IF verifying[t] = NoToken THEN signing[t][2] ELSE NoToken]
    /\ signing' = [signing EXCEPT ![t] = <<"no", NoToken>>]
    /\ UNCHANGED <<serverVars, verifying, leaving, reloads>>

SignInFails(t) ==
    /\ signing[t][1] # "no"
    /\ signing' = [signing EXCEPT ![t] = <<"no", NoToken>>]
    /\ UNCHANGED <<serverVars, browserVars, holds, verifying, leaving, given>>

\* As SignOut, but of the token the storage holds.
SignOutOfStored(t) ==
    /\ holds[t] # NoToken /\ leaving[t] = Staying /\ storedToken # NoToken
    /\ leaving' = [leaving EXCEPT ![t] = <<holds[t], storedToken>>]
    /\ UNCHANGED <<serverVars, browserVars, holds, verifying, signing, given>>

SignOut(t) ==
    /\ holds[t] # NoToken /\ leaving[t] = Staying
    /\ leaving' = [leaving EXCEPT ![t] = <<holds[t], holds[t]>>]
    /\ UNCHANGED <<serverVars, browserVars, holds, verifying, signing, given>>

\* The session is revoked, or the network failed and it lives on; either way
\* storage and tab are cleared.
SignedOut(t) ==
    /\ leaving[t] # Staying
    /\ \/ RevokeSession(leaving[t][2]) /\ left' = left \cup {leaving[t][1]}
       \/ UNCHANGED <<live, left>>
    /\ storedToken' = NoToken /\ storedUser' = FALSE
    /\ holds' = [holds EXCEPT ![t] = NoToken]
    /\ leaving' = [leaving EXCEPT ![t] = Staying]
    /\ given' = [given EXCEPT ![t] = NoToken]
    /\ UNCHANGED <<booting, admin, made, verifying, signing, reloads>>

AdminTabsNext ==
    \/ \E a \in Apis : FindAdmin(a) \/ CreateAdmin(a)
    \/ \E s \in live : SessionExpires(s)
    \/ \E t \in Tabs :
         \/ LoadTab(t) \/ Verified(t) \/ SignIn(t) \/ CreateSession(t) \/ SignedIn(t)
         \/ SignInFails(t) \/ SignOut(t) \/ SignedOut(t)

AdminTabsSpec == AdminTabsInit /\ [][AdminTabsNext]_tabVars

-----------------------------------------------------------------------------
\* A tab that was signed in keeps the session it was given until it signs out
\* or is loaded again - unless a stored token was still being checked when it
\* was (useAuth.tsx, 60-113: that answer replaces the new session).
KeepsSession == \A t \in Tabs : given[t] # NoToken => holds[t] = given[t]

\* The session a tab signed out of with the server's word admits nobody
\* (auth.ts, 66-72): the tab revokes its own session, not the one another tab
\* left in the storage they share.
LeftIsRevoked == left \cap live = {}

\* A tab keeps its session until it leaves, and then nobody has it.
SessionsHold == KeepsSession /\ LeftIsRevoked
=============================================================================
