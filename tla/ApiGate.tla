------------------------------ MODULE ApiGate ------------------------------
(***************************************************************************)
(* What stands between a request and its handler (services/api/main.ts):   *)
(* the credential, the role, the project and the limits, and the table by  *)
(* which a cached API key can be found again when it is revoked.           *)
(***************************************************************************)
EXTENDS Naturals, FiniteSets, Sequences, SequencesExt

CONSTANTS
    ApiKeys,       \* API keys in the database
    ReadOnlyKeys,  \* those whose role is read_only
    CacheSize,     \* the 1000 keys the auth cache holds
    HashLimit,     \* the 2000 hashes after which both tables are cleared
    LoginLimit,    \* the 10 attempts to sign in per minute and address
    MaxLookups     \* bound: tokens looked up at a time

ASSUME ApiGateAssumption ==
    /\ ReadOnlyKeys \subseteq ApiKeys
    /\ ApiKeys \cap {"writer", "reader", "adminKey", "unknown", "none"} = {}
    /\ CacheSize \in Nat \ {0} /\ HashLimit \in Nat /\ LoginLimit \in Nat
    /\ MaxLookups \in Nat

VARIABLES
    authCache,     \* keys cached, least recently used first
    hashes,        \* keys whose hash leads back to the token
    revoked,       \* keys deleted from the database
    attempts,      \* attempts to sign in within the minute
    lookingUp,     \* tokens being looked up, and the row the query found
    reached        \* the last request that reached its handler

gateVars == <<authCache, hashes, revoked, attempts, lookingUp, reached>>

\* A session is a writer's or a reader's by the role of its admin
\* (sessionKeyRole); one that has ended is an unknown token.
Credentials == ApiKeys \cup {"writer", "reader", "adminKey", "unknown", "none"}

\* "data" names its project, "bare" is a data route that does not.
Paths == {"login", "logout", "projects", "unsubscribe", "system", "data", "bare", "page"}
GateRequests == [path : Paths, writes : BOOLEAN, by : Credentials]
Unreached == [path |-> "page", writes |-> FALSE, by |-> "none"]

ApiGateTypeOK ==
    /\ authCache \in BoundedSeq(ApiKeys, CacheSize)
    /\ hashes \subseteq ApiKeys /\ revoked \subseteq ApiKeys
    /\ attempts \in 0..LoginLimit + 1
    /\ lookingUp \subseteq [by : Credentials, row : {"asked", "found", "absent"}]
    /\ reached \in GateRequests

ApiGateInit ==
    /\ authCache = <<>> /\ hashes = {} /\ revoked = {}
    /\ attempts = 0
    /\ lookingUp = {}
    /\ reached = Unreached

-----------------------------------------------------------------------------
\* The cache without k, which it holds once or not at all.
PlaceInCache(k) == CHOOSE i \in DOMAIN authCache : authCache[i] = k
CacheWithout(k) == IF k \in Range(authCache) THEN RemoveAt(authCache, PlaceInCache(k)) ELSE authCache
Touch(k) == Append(CacheWithout(k), k)
Insert(k) == IF Len(Touch(k)) > CacheSize THEN Tail(Touch(k)) ELSE Touch(k)

\* The request is handed on, or answered here: 400, 401, 403 or 429.
Handle(r) == reached' = r
Refuse == reached' = Unreached

\* Routes that take no credential of ours.
Open(r) == r.path \in {"login", "unsubscribe", "page"}
Administers(by) == by \in {"writer", "reader", "adminKey"}
Reads(by) == by \in {"reader"} \cup ReadOnlyKeys

\* The role check and the project's rate limit, once the credential is known.
Admit(r) ==
    \/ /\ Reads(r.by) /\ r.writes /\ r.path # "logout"
       /\ Refuse
    \/ /\ ~(Reads(r.by) /\ r.writes /\ r.path # "logout")
       /\ Handle(r) \/ Refuse

\* An administrator names the project, except where none is needed.
AdminRequest(r) ==
    /\ ~Open(r) /\ r.path # "projects" /\ Administers(r.by)
    /\ IF r.path = "bare" THEN Refuse ELSE Admit(r)
    /\ UNCHANGED <<authCache, hashes, revoked, attempts, lookingUp>>

NoCredential(r) ==
    /\ ~Open(r) /\ r.by = "none"
    /\ Refuse
    /\ UNCHANGED <<authCache, hashes, revoked, attempts, lookingUp>>

\* Anything else is taken for an API key: found in the cache,
CachedKey(r) ==
    /\ ~Open(r) /\ r.path # "projects" /\ r.by \in Range(authCache)
    /\ authCache' = Touch(r.by)
    /\ Admit(r)
    /\ UNCHANGED <<hashes, revoked, attempts, lookingUp>>

\* or looked up
AskKey(r) ==
    /\ ~Open(r) /\ r.path # "projects"
    /\ r.by # "none" /\ ~Administers(r.by) /\ r.by \notin Range(authCache)
    /\ Cardinality(lookingUp) < MaxLookups
    /\ lookingUp' = lookingUp \cup {[by |-> r.by, row |-> "asked"]}
    /\ UNCHANGED <<authCache, hashes, revoked, attempts, reached>>

ReadKey(l) ==
    /\ l.row = "asked"
    /\ lookingUp' = (lookingUp \ {l}) \cup
                       {[l EXCEPT !.row = IF l.by \in ApiKeys \ revoked THEN "found" ELSE "absent"]}
    /\ UNCHANGED <<authCache, hashes, revoked, attempts, reached>>

\* and kept in both tables, which are cleared together when one is full.
Keep(k) ==
    IF Cardinality(hashes \cup {k}) > HashLimit
    THEN authCache' = <<>> /\ hashes' = {}
    ELSE authCache' = Insert(k) /\ hashes' = hashes \cup {k}

KeyAnswered(r) ==
    /\ ~Open(r) /\ r.path # "projects"
    /\ \E l \in lookingUp :
          /\ l.by = r.by /\ l.row # "asked"
          /\ lookingUp' = lookingUp \ {l}
          /\ IF l.row = "found"
             THEN Keep(r.by) /\ Admit(r)
             ELSE Refuse /\ UNCHANGED <<authCache, hashes>>
    /\ UNCHANGED <<revoked, attempts>>

\* Projects and their keys are managed with an admin credential only.
ManageProjects(r) ==
    /\ r.path = "projects" /\ r.by # "none"
    /\ \/ r.by = "reader" /\ r.writes /\ Refuse
       \/ r.by = "reader" /\ ~r.writes /\ Handle(r)
       \/ r.by \in {"writer", "adminKey"} /\ Handle(r)
       \/ ~Administers(r.by) /\ Refuse
    /\ UNCHANGED <<authCache, hashes, revoked, attempts, lookingUp>>

\* Signing in is counted per address; when Redis cannot count, it is let through.
OpenRequest(r) ==
    /\ Open(r)
    /\ \/ r.path # "login" /\ Handle(r) /\ UNCHANGED attempts
       \/ r.path = "unsubscribe" /\ Refuse /\ UNCHANGED attempts
       \/ r.path = "login" /\ Handle(r) /\ UNCHANGED attempts
       \/ /\ r.path = "login" /\ attempts <= LoginLimit
          /\ attempts' = attempts + 1
          /\ IF attempts' > LoginLimit THEN Refuse ELSE Handle(r)
    /\ UNCHANGED <<authCache, hashes, revoked, lookingUp>>

-----------------------------------------------------------------------------
\* A key is deleted. The handler then has every cache dropped (InvalidateAll,
\* as for a change of a project's limit); the subscriber also takes the hash
\* of one key. A cached entry expires by itself, its hash does not.
DeleteKey(k) ==
    /\ k \notin revoked /\ revoked' = revoked \cup {k}
    /\ UNCHANGED <<authCache, hashes, attempts, lookingUp, reached>>

InvalidateHash(k) ==
    /\ k \in hashes
    /\ authCache' = CacheWithout(k)
    /\ hashes' = hashes \ {k}
    /\ UNCHANGED <<revoked, attempts, lookingUp, reached>>

EntryExpires(k) ==
    /\ k \in Range(authCache)
    /\ authCache' = CacheWithout(k)
    /\ UNCHANGED <<hashes, revoked, attempts, lookingUp, reached>>

InvalidateAll ==
    /\ authCache' = <<>> /\ hashes' = {}
    /\ UNCHANGED <<revoked, attempts, lookingUp, reached>>

NextMinute ==
    /\ attempts > 0 /\ attempts' = 0
    /\ UNCHANGED <<authCache, hashes, revoked, lookingUp, reached>>

\* The handler answers what reached it.
Replied ==
    /\ reached # Unreached /\ reached' = Unreached
    /\ UNCHANGED <<authCache, hashes, revoked, attempts, lookingUp>>

ApiGateNext ==
    \/ InvalidateAll \/ NextMinute \/ Replied
    \/ \E l \in lookingUp : ReadKey(l)
    \/ \E k \in ApiKeys : DeleteKey(k) \/ InvalidateHash(k) \/ EntryExpires(k)
    \/ /\ reached = Unreached
       /\ \E r \in GateRequests :
            \/ NoCredential(r) \/ AdminRequest(r) \/ CachedKey(r) \/ AskKey(r)
            \/ KeyAnswered(r) \/ ManageProjects(r) \/ OpenRequest(r)

ApiGateSpec == ApiGateInit /\ [][ApiGateNext]_gateVars

-----------------------------------------------------------------------------
\* A key that is cached can be revoked: its hash still leads back to it
\* (main.ts, 394-399, "so every cached token stays revocable by hash").
Revocable == Range(authCache) \subseteq hashes

\* A request changes something only for a credential that may write, and
\* projects are opened by no API key (main.ts, 403-448).
WritesAuthorised ==
    ~Open(reached) =>
        /\ reached.writes => ~Reads(reached.by) \/ reached.path = "logout"
        /\ reached.path = "projects" => reached.by \notin ApiKeys
        /\ reached.by \notin {"none", "unknown"}

\* Whoever is let through may do what is asked, and can be kept out again.
GateHolds == Revocable /\ WritesAuthorised
=============================================================================
