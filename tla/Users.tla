------------------------------- MODULE Users -------------------------------
(***************************************************************************)
(* One user of a project as the repositories keep it: the profile with its *)
(* preferences (repositories/user.ts) and an address with its opt-outs     *)
(* (repositories/contact.ts), the caches in front of both, and the calls   *)
(* of the API on them (services/api/handlers/users.ts, persistUsers).      *)
(*                                                                         *)
(* A value is the number of the call that wrote it, 0 when it is not set;  *)
(* a language or time zone that is not set is read as its default.  Each   *)
(* process has repositories, and so caches, of its own: a writing call     *)
(* clears the API's, and the workers' entries stay until they run out.  An *)
(* import runs on repositories of its own (withTx) and clears none; a      *)
(* PATCH reads the attributes, defaults filled in, before its transaction  *)
(* and writes them all; deletions clear the cache before they delete.      *)
(* Left out: list and its filters, the retries of a deadlocked import, the *)
(* deletion of one address (a deactivation whose row goes as well).        *)
(***************************************************************************)
EXTENDS Naturals

CONSTANTS
    Callers,       \* requests that run together
    Attributes,    \* fields of the users row, written as one JSON value
    Defaulted,     \* those read with a default when they are not set: language, time zone
    Preferences,   \* rows of the tables beside it: topics, channels, quiet hours, segments
    CacheNames,    \* the caches that are filled, out of AllCaches
    MaxWrites      \* bound: writing calls

Kinds == {"profile", "address"}
AddressFields == {"enabled", "optOut"}
\* The caches that anything fills: of profiles the API's own and a worker's, of
\* addresses a worker's, for the API and delivery only write addresses.
AllCaches == {"own", "records", "contacts"}
KindOf(x) == IF x = "contacts" THEN "address" ELSE "profile"

ASSUME UsersAssumption ==
    /\ MaxWrites \in Nat /\ CacheNames \subseteq AllCaches
    /\ Defaulted \subseteq Attributes /\ Attributes \cap (Preferences \cup AddressFields) = {}

FieldsOf(k) == IF k = "profile" THEN Attributes \cup Preferences ELSE AddressFields
\* A reader takes the main rows in a first query and the others in a second.
FirstOf(k) == IF k = "profile" THEN Attributes ELSE {"enabled"}

VARIABLES
    exists,        \* the user has a row
    stored,        \* what the tables hold of each kind
    cached,        \* what each cache holds, {} when it has no entry
    caller,        \* the requests
    writes,        \* writing calls so far
    latest,        \* history: the last call that set each field
    clobbered,     \* history: attributes a PATCH wrote back from an old read
    behind         \* history: the first reason why a cache entry may be older than the tables

usersVars == <<exists, stored, cached, caller, writes, latest, clobbered, behind>>

Unset(k) == [f \in FieldsOf(k) |-> 0]
AtRest == [pc |-> "idle", kind |-> "profile", into |-> {}, call |-> 0, named |-> {},
           seen |-> Unset("profile"), crossed |-> FALSE]
Default == MaxWrites + 1
Values(k) == [FieldsOf(k) -> 0..Default]
\* findById, findRecordsByIds: what a reader is shown of a record.
Shown(r) == [f \in DOMAIN r |-> IF f \in Defaulted /\ r[f] = 0 THEN Default ELSE r[f]]

UsersTypeOK ==
    /\ exists \in BOOLEAN
    /\ writes \in 0..MaxWrites
    /\ clobbered \subseteq Attributes
    /\ \A k \in Kinds :
          /\ stored[k] \in Values(k) /\ latest[k] \in Values(k)
    /\ \A x \in CacheNames :
          /\ cached[x] \subseteq Values(KindOf(x))
          /\ behind[x] \subseteq {"crossed", "import", "cleared first", "elsewhere"}
    /\ \A c \in Callers :
          /\ caller[c].pc \in {"idle", "load", "write", "optOut", "clear", "remove"}
          /\ caller[c].kind \in Kinds /\ caller[c].into \subseteq CacheNames
          /\ caller[c].seen \in Values("profile") \cup Values("address")

\* No row yet, or that of an import that named no field.
UsersInit ==
    /\ exists \in BOOLEAN
    /\ stored = [k \in Kinds |-> Unset(k)]
    /\ cached = [x \in CacheNames |-> {}]
    /\ caller = [c \in Callers |-> AtRest]
    /\ writes = 0
    /\ latest = stored
    /\ clobbered = {}
    /\ behind = [x \in CacheNames |-> {}]

\* The record r with the fields of a set written by a call.
Written(r, fields, call) == [f \in DOMAIN r |-> IF f \in fields THEN call ELSE r[f]]
\* The requests after a commit on a kind: reads of it under way have crossed it.
Crossing(k) == [c \in Callers |->
    IF caller[c].pc = "load" /\ caller[c].kind = k THEN [caller[c] EXCEPT !.crossed = TRUE] ELSE caller[c]]
CrossingAny == [c \in Callers |-> IF caller[c].pc = "load" THEN [caller[c] EXCEPT !.crossed = TRUE] ELSE caller[c]]
Uncache(x) ==
    /\ cached' = [y \in CacheNames |-> IF y = x THEN {} ELSE cached[y]]
    /\ behind' = [y \in CacheNames |-> IF y = x THEN {} ELSE behind[y]]
\* The API clears the cache of its own repository; of addresses that one is empty.
UncacheOwn(k) == IF k = "profile" THEN Uncache("own") ELSE UNCHANGED <<cached, behind>>
\* What a commit on the kinds K leaves behind: the workers' entries, and the API's for
\* the reason the call gives, if it has one.
Outdated(K, why) == [x \in CacheNames |->
    IF cached[x] = {} \/ KindOf(x) \notin K \/ behind[x] # {} THEN behind[x]
    ELSE IF x = "own" THEN why ELSE {"elsewhere"}]
NewCall == writes < MaxWrites /\ writes' = writes + 1

(***************************************************************************)
(* Reads                                                                   *)
(***************************************************************************)

\* findRecordsByIds, findActiveByUserIds: a cached entry is served, else the first query
\* runs. A user without a row has no profile to store, but an empty list of addresses.
BeginRead(c, x) ==
    /\ caller[c].pc = "idle" /\ cached[x] = {} /\ (exists \/ x = "contacts")
    /\ caller' = [caller EXCEPT ![c] = [AtRest EXCEPT !.pc = "load", !.kind = KindOf(x), !.into = {x},
                                                      !.seen = stored[KindOf(x)]]]
    /\ UNCHANGED <<exists, stored, cached, writes, latest, clobbered, behind>>

\* The second query; what was read is stored for its time to live.
EndRead(c) ==
    /\ caller[c].pc = "load"
    /\ \E x \in caller[c].into :
          LET k == KindOf(x)
              record == [f \in FieldsOf(k) |-> IF f \in FirstOf(k) THEN caller[c].seen[f] ELSE stored[k][f]]
          IN /\ cached' = [cached EXCEPT ![x] = {Shown(record)}]
             /\ behind' = [behind EXCEPT ![x] = IF caller[c].crossed THEN {"crossed"} ELSE {}]
    /\ caller' = [caller EXCEPT ![c] = AtRest]
    /\ UNCHANGED <<exists, stored, writes, latest, clobbered>>

CacheLapses(x) ==
    /\ cached[x] # {}
    /\ Uncache(x)
    /\ UNCHANGED <<exists, stored, caller, writes, latest, clobbered>>

(***************************************************************************)
(* Writes                                                                  *)
(***************************************************************************)

\* upsertMany: an address of the import is enabled, with or without opt-outs.
ImportedAddress == {{}, {"enabled"}, {"enabled", "optOut"}}

\* persistUsers, upsertManyFull: one transaction merges the fields that
\* are named and adds the addresses.
ImportUser(c) ==
    /\ caller[c].pc = "idle" /\ NewCall
    /\ \E named \in SUBSET FieldsOf("profile"), address \in ImportedAddress :
          LET with(old) == [old EXCEPT !["profile"] = Written(@, named, writes'),
                                       !["address"] = Written(@, address, writes')]
          IN stored' = with(stored) /\ latest' = with(latest) /\ clobbered' = clobbered \ named
    /\ exists' = TRUE
    /\ caller' = CrossingAny
    /\ behind' = Outdated(Kinds, {"import"})
    /\ UNCHANGED cached

\* updatePartial: the profile is read first; without one it is 404.
BeginPatch(c) ==
    /\ caller[c].pc = "idle" /\ exists /\ NewCall
    /\ \E named \in (SUBSET FieldsOf("profile")) \ {{}} :
          caller' = [caller EXCEPT ![c] = [AtRest EXCEPT !.pc = "write", !.call = writes', !.named = named,
                                                         !.seen = Shown(stored["profile"])]]
    /\ UNCHANGED <<exists, stored, cached, latest, clobbered, behind>>

\* Its transaction: every attribute, from the patch or from that read with its defaults,
\* and the preferences named. A user deleted since has no row left to update.
CommitPatch(c) ==
    /\ caller[c].pc = "write"
    /\ LET me == caller[c]
           new == [f \in FieldsOf("profile") |->
                      IF f \in me.named THEN me.call
                      ELSE IF f \in Attributes THEN me.seen[f] ELSE stored["profile"][f]]
       IN IF exists
          THEN /\ stored' = [stored EXCEPT !["profile"] = new]
               /\ latest' = [latest EXCEPT !["profile"] = Written(@, me.named, me.call)]
               /\ clobbered' = (clobbered \ me.named) \cup
                     {f \in Attributes \ me.named : me.seen[f] # Shown(latest["profile"])[f]}
               /\ behind' = Outdated({"profile"}, {})
          ELSE UNCHANGED <<stored, latest, clobbered, behind>>
    /\ caller' = [Crossing("profile") EXCEPT ![c].pc = "clear"]
    /\ UNCHANGED <<exists, cached, writes>>

\* ContactRepository.upsert: the address is enabled, then its opt-outs are
\* written, then the cache is cleared; three calls, no transaction.
BeginAddress(c) ==
    /\ caller[c].pc = "idle" /\ exists /\ NewCall
    /\ stored' = [stored EXCEPT !["address"] = Written(@, {"enabled"}, writes')]
    /\ latest' = [latest EXCEPT !["address"] = Written(@, {"enabled"}, writes')]
    /\ \E next \in {"optOut", "clear"} :
          caller' = [Crossing("address") EXCEPT ![c] =
                        [AtRest EXCEPT !.pc = next, !.kind = "address", !.call = writes']]
    /\ behind' = Outdated({"address"}, {})
    /\ UNCHANGED <<exists, cached, clobbered>>

WriteOptOut(c) ==
    /\ caller[c].pc = "optOut" /\ exists
    /\ stored' = [stored EXCEPT !["address"] = Written(@, {"optOut"}, caller[c].call)]
    /\ latest' = [latest EXCEPT !["address"] = Written(@, {"optOut"}, caller[c].call)]
    /\ caller' = [Crossing("address") EXCEPT ![c].pc = "clear"]
    /\ behind' = Outdated({"address"}, {})
    /\ UNCHANGED <<exists, cached, writes, clobbered>>

\* The query fails, as it must when the contact is gone: the call ends there.
OptOutFails(c) ==
    /\ caller[c].pc = "optOut"
    /\ caller' = [caller EXCEPT ![c] = AtRest]
    /\ UNCHANGED <<exists, stored, cached, writes, latest, clobbered, behind>>

\* As ClearCache, but the entry is kept.
ClearNothing(c) ==
    /\ caller[c].pc = "clear"
    /\ caller' = [caller EXCEPT ![c] = AtRest]
    /\ UNCHANGED <<exists, stored, cached, writes, latest, clobbered, behind>>

ClearCache(c) ==
    /\ caller[c].pc = "clear"
    /\ UncacheOwn(caller[c].kind)
    /\ caller' = [caller EXCEPT ![c] = AtRest]
    /\ UNCHANGED <<exists, stored, writes, latest, clobbered>>

\* UserRepository.delete, ContactRepository.deactivate: the cache is cleared first.
BeginRemove(c, k) ==
    /\ caller[c].pc = "idle" /\ exists /\ NewCall
    /\ UncacheOwn(k)
    /\ caller' = [caller EXCEPT ![c] = [AtRest EXCEPT !.pc = "remove", !.kind = k, !.call = writes']]
    /\ UNCHANGED <<exists, stored, latest, clobbered>>

\* The deletion takes everything of the user along; a deactivated address is
\* only switched off.
CommitRemove(c) ==
    /\ caller[c].pc = "remove"
    /\ LET k == caller[c].kind IN
       /\ IF k = "profile"
          THEN /\ exists' = FALSE
               /\ stored' = [j \in Kinds |-> Unset(j)]
               /\ latest' = [j \in Kinds |-> Unset(j)]
               /\ clobbered' = {}
               /\ behind' = Outdated(Kinds, {"cleared first"})
               /\ caller' = [CrossingAny EXCEPT ![c] = AtRest]
          ELSE /\ stored' = [stored EXCEPT ![k] = IF exists THEN Written(@, {"enabled"}, caller[c].call) ELSE @]
               /\ latest' = [latest EXCEPT ![k] = IF exists THEN Written(@, {"enabled"}, caller[c].call) ELSE @]
               /\ behind' = Outdated({k}, {})
               /\ caller' = [Crossing(k) EXCEPT ![c] = AtRest]
               /\ UNCHANGED <<exists, clobbered>>
    /\ UNCHANGED <<cached, writes>>

UsersNext ==
    \E c \in Callers :
       \/ ImportUser(c) \/ BeginPatch(c) \/ CommitPatch(c) \/ BeginAddress(c)
       \/ WriteOptOut(c) \/ OptOutFails(c) \/ ClearCache(c) \/ CommitRemove(c) \/ EndRead(c)
       \/ \E k \in Kinds : BeginRemove(c, k)
       \/ \E x \in CacheNames : BeginRead(c, x) \/ CacheLapses(x)

UsersSpec == UsersInit /\ [][UsersNext]_usersVars

(***************************************************************************)
(* Properties                                                              *)
(***************************************************************************)

\* Each field holds what the last call that named it wrote: a call that leaves
\* it out never resets it (upsertManyFull, user.ts:292-297). The exceptions are the
\* attributes, which a PATCH writes back from the read before its transaction
\* (updatePartial, user.ts:449-463): an old value, or the default of one nobody set
\* (findById, user.ts:42-49).
FieldsKept ==
    \A k \in Kinds : \A f \in FieldsOf(k) :
        \/ stored[k][f] = latest[k][f]
        \/ f \in clobbered
        \/ f \in Defaulted /\ latest[k][f] = 0 /\ stored[k][f] = Default

\* A cached profile or address is the stored one, unless the read crossed a write; for
\* the API's own also unless an import went past the cache, a removal cleared it too
\* early, or a writer has yet to clear it (user.ts:532); and for a worker's unless
\* there was a write since, for those clear the cache of another process
\* (enricher/main.ts:570-571, contact.ts:193, delivery/main.ts:747).
CacheFollows ==
    \A x \in CacheNames :
        \/ cached[x] \subseteq {Shown(stored[KindOf(x)])}
        \/ behind[x] # {}
        \/ x = "own" /\ \E c \in Callers : caller[c].pc = "clear" /\ caller[c].kind = "profile"

\* A write is kept by the calls that do not name its field, and seen by the reads
\* after it (user.ts, contact.ts).
WritesAreKept == FieldsKept /\ CacheFollows
=============================================================================
