------------------------------- MODULE Notify -------------------------------
(***************************************************************************)
(* POST /v1/notify (services/api/handlers/notifications.ts): the users     *)
(* given inline are stored, then one event per target is published, in     *)
(* chunks; a caller that gets no answer repeats its request. The enricher  *)
(* takes one event per id (enricher/main.ts:330-333): the caller's own key *)
(* with the position of the target, or else an id of the event's own.      *)
(*                                                                         *)
(* Left out: what the events carry, the expiry of the enricher's markers   *)
(* (24 hours for a caller's key), and redeliveries, see Fanout.            *)
(***************************************************************************)
EXTENDS Naturals, Sequences, SequencesExt

CONSTANTS
    Bodies,        \* target lists a caller may send (sequences)
    Inline,        \* targets given as a user object, not as an id
    ChunkSize,     \* events of one publishBatch
    MaxPosts       \* bound: requests of this caller

ASSUME NotifyAssumption ==
    /\ ChunkSize \in Nat \ {0} /\ MaxPosts \in Nat
    /\ IsFiniteSet(Bodies) /\ \A b \in Bodies : b \in Seq(ToSet(b))

VARIABLES
    ownKey,        \* the caller sends x-idempotency-key, the same in every request
    post,          \* the request under way: pc, targets, targets published
    posts,         \* requests so far
    known,         \* users stored
    inbound,       \* events published and not taken: their id and target
    taken,         \* ids the enricher has marked, with the target each was for
    fanned,        \* [Targets -> times it was fanned out]
    answered202       \* history: targets of requests that were answered 202

notifyVars == <<ownKey, post, posts, known, inbound, taken, fanned, answered202>>

Targets == UNION {ToSet(b) : b \in Bodies}
NoPost == [pc |-> "idle", targets |-> <<>>, published |-> 0]
Upto(a, b) == IF a < b THEN a ELSE b

NotifyTypeOK ==
    /\ ownKey \in BOOLEAN
    /\ post \in [pc : {"idle", "persist", "publish", "answer"}, targets : Bodies \cup {<<>>}, published : Nat]
    /\ posts \in 0..MaxPosts
    /\ known \subseteq Targets /\ answered202 \subseteq Targets
    /\ \A e \in inbound \cup taken : e.target \in Targets
    /\ fanned \in [Targets -> Nat]

NotifyInit ==
    /\ ownKey \in BOOLEAN
    /\ post = NoPost
    /\ posts = 0
    /\ known = {} /\ inbound = {} /\ taken = {} /\ answered202 = {}
    /\ fanned = [t \in Targets |-> 0]

\* A request arrives; after a failure it is the caller's repetition.
Post ==
    /\ post.pc = "idle" /\ posts < MaxPosts
    /\ posts' = posts + 1
    /\ \E body \in Bodies : post' = [pc |-> "persist", targets |-> body, published |-> 0]
    /\ UNCHANGED <<ownKey, known, inbound, taken, fanned, answered202>>

\* persistUsers, one transaction.
PersistInline ==
    /\ post.pc = "persist"
    /\ known' = known \cup (ToSet(post.targets) \cap Inline)
    /\ post' = [post EXCEPT !.pc = "publish"]
    /\ UNCHANGED <<ownKey, posts, inbound, taken, fanned, answered202>>

\* As EventId, but of the position in its chunk.
ChunkId(i) ==
    IF ~ownKey THEN <<posts, i>>
    ELSE <<"key", IF Len(post.targets) > 1 THEN i - post.published ELSE 0>>

\* notificationId: a single target has the key itself. Without a key the event's
\* own id counts.
EventId(i) ==
    IF ~ownKey THEN <<posts, i>>
    ELSE <<"key", IF Len(post.targets) > 1 THEN i ELSE 0>>

LastOfChunk == Upto(post.published + ChunkSize, Len(post.targets))
ChunkEvents ==
    {[id |-> EventId(i), post |-> posts, target |-> post.targets[i]] :
        i \in (post.published + 1)..LastOfChunk}

\* publishBatch of the next chunk.
PublishChunk ==
    /\ post.pc = "publish"
    /\ inbound' = inbound \cup ChunkEvents
    /\ post' = [post EXCEPT !.published = LastOfChunk,
                            !.pc = IF LastOfChunk = Len(post.targets) THEN "answer" ELSE "publish"]
    /\ UNCHANGED <<ownKey, posts, known, taken, fanned, answered202>>

AnswerPost ==
    /\ post.pc = "answer"
    /\ answered202' = answered202 \cup ToSet(post.targets)
    /\ post' = NoPost
    /\ UNCHANGED <<ownKey, posts, known, inbound, taken, fanned>>

\* A call fails, the process dies or the answer is lost: what was published
\* stays, part of the last chunk included.
PostFails ==
    /\ post.pc # "idle"
    /\ \E some \in SUBSET (IF post.pc = "publish" THEN ChunkEvents ELSE {}) :
          inbound' = inbound \cup some
    /\ post' = NoPost
    /\ UNCHANGED <<ownKey, posts, known, taken, fanned, answered202>>

\* The enricher takes an event: it drops one whose id was seen, and one whose
\* user does not exist.
TakeInbound(e) ==
    /\ e \in inbound
    /\ inbound' = inbound \ {e}
    /\ IF \E t \in taken : t.id = e.id
       THEN UNCHANGED <<taken, fanned>>
       ELSE /\ taken' = taken \cup {[id |-> e.id, target |-> e.target]}
            /\ fanned' = IF e.target \in Inline \ known THEN fanned ELSE [fanned EXCEPT ![e.target] = @ + 1]
    /\ UNCHANGED <<ownKey, post, posts, known, answered202>>

NotifyNext ==
    \/ Post \/ PersistInline \/ PublishChunk \/ AnswerPost \/ PostFails
    \/ \E e \in inbound : TakeInbound(e)

NotifySpec == NotifyInit /\ [][NotifyNext]_notifyVars

(***************************************************************************)
(* Properties                                                              *)
(***************************************************************************)

\* The positions a target has in the lists the caller may send; 0 is a list of one.
Positions(t) ==
    UNION {{IF Len(b) > 1 THEN i ELSE 0 : i \in {j \in DOMAIN b : b[j] = t}} : b \in Bodies}

\* Repeated with its own key, in whatever part it failed, a request reaches each
\* target once; only the same key with another list can repeat one, as ids go by
\* position (notify, notifications.ts:76-96).
RepeatedOnce == ownKey => \A t \in Targets : fanned[t] <= Cardinality(Positions(t))

\* A target of an answered request has been fanned out or waits on the stream:
\* its user is stored before its event is published, and no other event has its
\* id (notifications.ts:53-56). Unless, under the same key, another list had
\* another target in its position.
AcceptedIsSent ==
    \A t \in answered202 :
        \/ fanned[t] > 0
        \/ \E e \in inbound : e.target = t
        \/ ownKey /\ \E u \in Targets \ {t} : Positions(t) \cap Positions(u) # {}

\* A repeated request is one notification for each target, and an answered one
\* is none less.
RequestsCountOnce == RepeatedOnce /\ AcceptedIsSent
=============================================================================
