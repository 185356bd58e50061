----------------------------- MODULE DeadLetters -----------------------------
(***************************************************************************)
(* The operators' view of the dead letter stream: list, replay and delete  *)
(* (services/api/handlers/system.ts). A request looks its entry up first   *)
(* and acts on what it found; a replay adds the event to the stream it     *)
(* failed on and then deletes the entry, in two calls to Redis.            *)
(* An event keeps its place as an inbound event when its stream is not one *)
(* that can be replayed to.                                                *)
(***************************************************************************)
EXTENDS Naturals, FiniteSets

CONSTANTS
    Letters,         \* dead letters
    Operators,       \* requests under way together
    ReplayStreams,   \* STREAMS without the dead letter stream
    FailedOn,        \* [Letters -> ReplayStreams \cup {"unknown"}]: dlq.originalStream
    InboundOf,       \* [Letters -> ReplayStreams]: the inbound stream of its priority
    MaxReplays       \* bound: replays added to the streams

ASSUME DeadLettersAssumption ==
    /\ MaxReplays \in Nat
    /\ FailedOn \in [Letters -> ReplayStreams \cup {"unknown"}]
    /\ InboundOf \in [Letters -> ReplayStreams]

VARIABLES
    letters,       \* entries of the dead letter stream
    replayed,      \* [Letters -> [ReplayStreams -> entries added]]
    operator,      \* the requests: pc and the entry they found
    shown,         \* the entries the dashboard lists
    removedBy,     \* history: entries removed by a delete request
    twice,         \* history: letters two replays found, or whose deletion failed
    replays        \* entries added so far

deadVars == <<letters, replayed, operator, shown, removedBy, twice, replays>>

NoRequest == [pc |-> "idle", letter |-> {}]

DeadLettersTypeOK ==
    /\ letters \subseteq Letters /\ shown \subseteq Letters
    /\ removedBy \subseteq Letters /\ twice \subseteq Letters
    /\ replayed \in [Letters -> [ReplayStreams -> 0..MaxReplays]]
    /\ operator \in [Operators -> [pc : {"idle", "add", "drop", "delete"}, letter : SUBSET Letters]]
    /\ replays \in 0..MaxReplays

DeadLettersInit ==
    /\ letters = Letters
    /\ replayed = [l \in Letters |-> [s \in ReplayStreams |-> 0]]
    /\ operator = [o \in Operators |-> NoRequest]
    /\ shown = {}
    /\ removedBy = {} /\ twice = {}
    /\ replays = 0

Target(l) == IF FailedOn[l] \in ReplayStreams THEN FailedOn[l] ELSE InboundOf[l]
Other(o, l) == \E p \in Operators \ {o} : operator[p].letter = {l}
\* Once another request holds the letter too, whatever it does may come twice.
Marked(l, when) == twice' = IF when THEN twice \cup {l} ELSE twice

\* getDLQMessages.
ListLetters ==
    /\ shown' = letters
    /\ UNCHANGED <<letters, replayed, operator, removedBy, twice, replays>>

\* findDlqEntry for a listed letter: 404 when it is gone.
FindLetter(o, l) ==
    /\ operator[o].pc = "idle" /\ l \in shown
    /\ IF l \in letters
       THEN \E next \in {"add", "delete"} :
               operator' = [operator EXCEPT ![o] = [pc |-> next, letter |-> {l}]]
       ELSE UNCHANGED operator
    /\ Marked(l, l \in letters /\ Other(o, l))
    /\ UNCHANGED <<letters, replayed, shown, removedBy, replays>>

\* The xadd of a replay.
AddToStream(o) ==
    /\ operator[o].pc = "add" /\ replays < MaxReplays
    /\ replays' = replays + 1
    /\ replayed' = [l \in Letters |->
                       IF operator[o].letter = {l} THEN [replayed[l] EXCEPT ![Target(l)] = @ + 1] ELSE replayed[l]]
    /\ operator' = [operator EXCEPT ![o].pc = "drop"]
    /\ UNCHANGED <<letters, shown, removedBy, twice>>

\* The xdel of a replay.
DropLetter(o) ==
    /\ operator[o].pc = "drop"
    /\ letters' = letters \ operator[o].letter
    /\ operator' = [operator EXCEPT ![o] = NoRequest]
    /\ UNCHANGED <<replayed, shown, removedBy, twice, replays>>

DeleteLetter(o) ==
    /\ operator[o].pc = "delete"
    /\ letters' = letters \ operator[o].letter
    /\ removedBy' = removedBy \cup operator[o].letter
    /\ operator' = [operator EXCEPT ![o] = NoRequest]
    /\ UNCHANGED <<replayed, shown, twice, replays>>

\* A call to Redis fails or the process dies: 500, and no later call of the request.
RequestFails(o) ==
    /\ operator[o].pc # "idle"
    /\ twice' = IF operator[o].pc = "drop" THEN twice \cup operator[o].letter ELSE twice
    /\ operator' = [operator EXCEPT ![o] = NoRequest]
    /\ UNCHANGED <<letters, replayed, shown, removedBy, replays>>

DeadLettersNext ==
    \/ ListLetters
    \/ \E o \in Operators :
          \/ \E l \in Letters : FindLetter(o, l)
          \/ AddToStream(o) \/ DropLetter(o) \/ DeleteLetter(o) \/ RequestFails(o)

DeadLettersSpec == DeadLettersInit /\ [][DeadLettersNext]_deadVars

(***************************************************************************)
(* Properties                                                              *)
(***************************************************************************)
Added(l) == {s \in ReplayStreams : replayed[l][s] > 0}

\* A dead letter that is gone was deleted or is back on the stream it failed on,
\* never both nor twice, unless two requests held it together or its deletion
\* failed (replayDLQMessage, system.ts:252-277).
ReplayedOnce ==
    \A l \in Letters :
        /\ l \notin letters => l \in removedBy \/ Added(l) = {Target(l)}
        /\ l \notin twice =>
              /\ \A s \in ReplayStreams : replayed[l][s] <= 1
              /\ ~(l \in removedBy /\ Added(l) # {})

\* A letter replayed is still a dead letter only while its request has yet to
\* delete it (system.ts:276-277).
NotBoth ==
    \A l \in letters : Added(l) # {} =>
        l \in twice \/ \E o \in Operators : operator[o] = [pc |-> "drop", letter |-> {l}]

\* A dead letter is replayed or deleted, once.
LettersCountOnce == ReplayedOnce /\ NotBoth
=============================================================================
