------------------------------- MODULE Caches -------------------------------
(***************************************************************************)
(* One cached row: project settings (rate-limiter/project-settings-cache), *)
(* a template (templates/cache.ts, in the engine, delivery and AI workers, *)
(* which subscribe to invalidations, and in the enricher, which does not)  *)
(* or an API key (services/api/main.ts). The API changes the row and then  *)
(* publishes; pub/sub delivers once or not at all; a lookup is on the wire *)
(* meanwhile.                                                              *)
(***************************************************************************)
EXTENDS Naturals, FiniteSets

CONSTANTS
    Lookups,       \* lookups that can be in flight together
    MaxVersion     \* bound: changes of the row

ASSUME CachesAssumption == MaxVersion \in Nat

VARIABLES
    cacheKind,     \* which of the caches this is
    row,           \* the version in the database
    entry,         \* the cached version, if any, and whether its lookup was overtaken
    lookup,        \* each lookup: where it is and the version it saw
    current,       \* inFlight of the settings cache: the lookup that may store
    unpublished,   \* changes whose handler has not published yet
    onWire,        \* invalidations published and not delivered
    told           \* history: the version of the row at the last invalidation delivered

cachesVars == <<cacheKind, row, entry, lookup, current, unpublished, onWire, told>>

CacheKinds == {"settings", "template", "enricher", "auth"}
Listens    == cacheKind # "enricher"
NoEntry    == [cached |-> FALSE, version |-> 0, overtaken |-> FALSE]
Idle       == [at |-> "idle", saw |-> 0, overtaken |-> FALSE]

CachesTypeOK ==
    /\ cacheKind \in CacheKinds
    /\ row \in 0..MaxVersion
    /\ entry \in [cached : BOOLEAN, version : 0..MaxVersion, overtaken : BOOLEAN]
    /\ lookup \in [Lookups -> [at : {"idle", "asked", "answered"},
                               saw : 0..MaxVersion, overtaken : BOOLEAN]]
    /\ current \subseteq Lookups
    /\ unpublished \in 0..MaxVersion
    /\ onWire \in 0..MaxVersion
    /\ told \in 0..MaxVersion

CachesInit ==
    /\ cacheKind \in CacheKinds
    /\ row = 0
    /\ entry = NoEntry
    /\ lookup = [l \in Lookups |-> Idle]
    /\ current = {}
    /\ unpublished = 0
    /\ onWire = 0
    /\ told = 0

(***************************************************************************)
(* The API: change the row, then publish. A project is deleted, and its    *)
(* keys with it, without a word (handlers/projects.ts, deleteProject).     *)
(***************************************************************************)
Change ==
    /\ row < MaxVersion
    /\ row' = row + 1
    /\ unpublished' = unpublished + 1
    /\ UNCHANGED <<cacheKind, entry, lookup, current, onWire, told>>

ChangeSilently ==
    /\ cacheKind = "auth"
    /\ row < MaxVersion
    /\ row' = row + 1
    /\ UNCHANGED <<cacheKind, entry, lookup, current, unpublished, onWire, told>>

\* A failed call, a dead handler or a lost message: nobody hears of the change.
Publish ==
    /\ unpublished > 0
    /\ unpublished' = unpublished - 1
    /\ onWire' \in {onWire} \cup (IF Listens THEN {onWire + 1} ELSE {})
    /\ UNCHANGED <<cacheKind, row, entry, lookup, current, told>>

(***************************************************************************)
(* The reader                                                              *)
(***************************************************************************)

\* A miss. In the settings cache a second caller joins the lookup in flight.
Ask(l) ==
    /\ ~entry.cached
    /\ lookup[l].at = "idle"
    /\ cacheKind = "settings" => current = {}
    /\ lookup' = [lookup EXCEPT ![l].at = "asked"]
    /\ current' = IF cacheKind = "settings" THEN {l} ELSE current
    /\ UNCHANGED <<cacheKind, row, entry, unpublished, onWire, told>>

\* The database takes its snapshot for the query.
Query(l) ==
    /\ lookup[l].at = "asked"
    /\ lookup' = [lookup EXCEPT ![l].at = "answered", ![l].saw = row]
    /\ UNCHANGED <<cacheKind, row, entry, current, unpublished, onWire, told>>

StoreEntry(l) == [cached |-> TRUE, version |-> lookup[l].saw, overtaken |-> lookup[l].overtaken]

\* As Store, but the settings cache keeps the answer of any lookup too.
StoreAlways(l) ==
    /\ lookup[l].at = "answered"
    /\ entry' = StoreEntry(l)
    /\ lookup' = [lookup EXCEPT ![l] = Idle]
    /\ current' = current \ {l}
    /\ UNCHANGED <<cacheKind, row, unpublished, onWire, told>>

Store(l) ==
    /\ lookup[l].at = "answered"
    /\ entry' = IF cacheKind # "settings" \/ l \in current THEN StoreEntry(l) ELSE entry
    /\ lookup' = [lookup EXCEPT ![l] = Idle]
    /\ current' = current \ {l}
    /\ UNCHANGED <<cacheKind, row, unpublished, onWire, told>>

LookupFails(l) ==
    /\ lookup[l].at # "idle"
    /\ lookup' = [lookup EXCEPT ![l] = Idle]
    /\ current' = current \ {l}
    /\ UNCHANGED <<cacheKind, row, entry, unpublished, onWire, told>>

\* The invalidation arrives: the entry and the lookup in flight are dropped. In
\* the caches that do not know their lookups these are overtaken by it.
Invalidate ==
    /\ onWire > 0
    /\ onWire' = onWire - 1
    /\ entry' = NoEntry
    /\ current' = {}
    /\ told' = row
    /\ lookup' = [l \in Lookups |->
                    [lookup[l] EXCEPT !.overtaken = cacheKind # "settings" /\ lookup[l].at = "answered"]]
    /\ UNCHANGED <<cacheKind, row, unpublished>>

\* The TTL, or the size of the cache (shared/cache.ts).
Drop ==
    /\ entry.cached
    /\ entry' = NoEntry
    /\ UNCHANGED <<cacheKind, row, lookup, current, unpublished, onWire, told>>

CachesNext ==
    \/ Change \/ ChangeSilently \/ Publish \/ Invalidate \/ Drop
    \/ \E l \in Lookups : Ask(l) \/ Query(l) \/ Store(l) \/ LookupFails(l)

CachesSpec == CachesInit /\ [][CachesNext]_cachesVars

(***************************************************************************)
(* Properties                                                              *)
(***************************************************************************)

\* After an invalidation has arrived nothing older than it is cached: without
\* exception in the settings cache, whose lookups know when they have been
\* dropped; elsewhere unless the answer to a lookup was on its way when the
\* invalidation overtook it (templates/cache.ts:14, api/main.ts:388).
FreshAfterInvalidate ==
    entry.cached /\ entry.version < told => entry.overtaken /\ cacheKind # "settings"
=============================================================================
