----------------------------- MODULE LiveStream -----------------------------
(***************************************************************************)
(* The live event stream: delivery publishes outcomes on a Redis channel   *)
(* (services/delivery/live-events.ts), goes quiet when nobody received one *)
(* and is woken when an API subscribes (services/api/live-events.ts); the  *)
(* API subscribes while it has a client (handlers/events.ts).              *)
(*                                                                         *)
(* Left out: what is written to a stream and when its headers leave; the   *)
(* connections, which are taken to stay up.                                *)
(***************************************************************************)
EXTENDS Naturals, Sequences, FiniteSets

CONSTANTS
    Clients,       \* browsers on GET /v1/events/stream
    MaxOutcomes,   \* bound: outcomes emitted
    MaxRetries     \* bound: subscriptions, and those that may fail

ASSUME LiveStreamAssumption == MaxOutcomes \in Nat /\ MaxRetries \in Nat

VARIABLES
    client,        \* idle, listening (no headers yet), open, left (closed while listening), closed
    promise,       \* subscribed: null, on its way, waking the deliveries, settled
    commands,      \* SUBSCRIBE and UNSUBSCRIBE on the subscriber connection, in order
    connected,     \* the channel has the API as a receiver
    subscriptions, \* history: how many subscriptions were begun
    failedSub,     \* history: the last subscription failed
    quiet,         \* Date.now() < quietUntil
    replies,       \* receivers counted by publishes whose reply is on its way
    wanted,        \* DELIVERY_EVENTS_WANTED on its way
    outcomes,      \* history: outcomes emitted
    crossed        \* history: a reply older than the subscription set the quiet after the wake-up

liveStreamVars == <<client, promise, commands, connected, subscriptions, failedSub,
                    quiet, replies, wanted, outcomes, crossed>>

Listeners == {c \in Clients : client[c] \in {"listening", "left", "open"}}

LiveStreamTypeOK ==
    /\ client \in [Clients -> {"idle", "listening", "left", "open", "closed"}]
    /\ promise \in {"none", "subscribing", "waking", "settled"}
    /\ commands \in Seq({"SUBSCRIBE", "UNSUBSCRIBE"})
    /\ connected \in BOOLEAN
    /\ subscriptions \in 0..MaxRetries
    /\ failedSub \in BOOLEAN
    /\ quiet \in BOOLEAN
    /\ replies \in Seq({0, 1})
    /\ wanted \in Nat
    /\ outcomes \in 0..MaxOutcomes
    /\ crossed \in BOOLEAN

LiveStreamInit ==
    /\ client = [c \in Clients |-> "idle"]
    /\ promise = "none"
    /\ commands = << >>
    /\ connected = FALSE
    /\ subscriptions = 0
    /\ failedSub = FALSE
    /\ quiet = FALSE
    /\ replies = << >>
    /\ wanted = 0
    /\ outcomes = 0
    /\ crossed = FALSE

deliverySide == <<quiet, replies, wanted, outcomes, crossed>>

(***************************************************************************)
(* The API                                                                 *)
(***************************************************************************)
Listen(c) ==
    /\ client[c] = "idle"
    /\ client' = [client EXCEPT ![c] = "listening"]
    /\ IF promise = "none"
       THEN /\ subscriptions < MaxRetries
            /\ subscriptions' = subscriptions + 1
            /\ promise' = "subscribing"
            /\ commands' = Append(commands, "SUBSCRIBE")
       ELSE UNCHANGED <<promise, commands, subscriptions>>
    /\ UNCHANGED <<connected, failedSub, deliverySide>>

\* As RunCommand, but the deliveries are not told.
RunCommandUntold ==
    /\ commands # << >>
    /\ commands' = Tail(commands)
    /\ connected' = (Head(commands) = "SUBSCRIBE")
    /\ IF Head(commands) = "SUBSCRIBE"
       THEN promise' = "settled" /\ failedSub' = FALSE
       ELSE UNCHANGED <<promise, failedSub>>
    /\ UNCHANGED <<client, subscriptions, deliverySide>>

\* Redis takes the next command of the connection.
RunCommand ==
    /\ commands # << >>
    /\ commands' = Tail(commands)
    /\ connected' = (Head(commands) = "SUBSCRIBE")
    /\ IF Head(commands) = "SUBSCRIBE"
       THEN promise' = "waking" /\ failedSub' = FALSE
       ELSE UNCHANGED <<promise, failedSub>>
    /\ UNCHANGED <<client, subscriptions, deliverySide>>

\* The deliveries are told that somebody listens.
Wake ==
    /\ promise = "waking"
    /\ promise' = "settled"
    /\ wanted' = wanted + 1
    /\ UNCHANGED <<client, commands, connected, subscriptions, failedSub,
                   quiet, replies, outcomes, crossed>>

\* That call fails: the promise is forgotten, the subscription is not.
WakeFails ==
    /\ promise = "waking"
    /\ promise' = "none"
    /\ UNCHANGED <<client, commands, connected, subscriptions, failedSub, deliverySide>>

\* SUBSCRIBE fails: the stream stays open and carries nothing until a retry.
SubscribeFails ==
    /\ promise = "subscribing"
    /\ commands # << >> /\ Head(commands) = "SUBSCRIBE"
    /\ commands' = Tail(commands)
    /\ promise' = "none"
    /\ failedSub' = TRUE
    /\ UNCHANGED <<client, connected, subscriptions, deliverySide>>

\* unlisten() of a client, the last of which ends the subscription.
Unlisten(c, to) ==
    /\ client' = [client EXCEPT ![c] = to]
    /\ IF Listeners = {c}
       THEN promise' = "none" /\ commands' = Append(commands, "UNSUBSCRIBE")
       ELSE UNCHANGED <<promise, commands>>

\* listen() returns: headers, unless the client has left meanwhile.
Listening(c) ==
    /\ promise \in {"settled", "none"}
    /\ \/ client[c] = "left" /\ Unlisten(c, "closed")
       \/ /\ client[c] = "listening"
          /\ client' = [client EXCEPT ![c] = "open"]
          /\ UNCHANGED <<promise, commands>>
    /\ UNCHANGED <<connected, subscriptions, failedSub, deliverySide>>

Close(c) ==
    /\ \/ client[c] = "open" /\ Unlisten(c, "closed")
       \/ /\ client[c] = "listening"
          /\ client' = [client EXCEPT ![c] = "left"]
          /\ UNCHANGED <<promise, commands>>
    /\ UNCHANGED <<connected, subscriptions, failedSub, deliverySide>>

(***************************************************************************)
(* Delivery                                                                *)
(***************************************************************************)

\* An outcome: dropped in the quiet, published otherwise.
Emit ==
    /\ outcomes < MaxOutcomes
    /\ outcomes' = outcomes + 1
    /\ IF quiet
       THEN UNCHANGED replies
       ELSE replies' = Append(replies, IF connected THEN 1 ELSE 0)
    /\ UNCHANGED <<client, promise, commands, connected, subscriptions, failedSub,
                   quiet, wanted, crossed>>

\* The reply to the oldest publish: nobody received it, so be quiet for a while.
Reply ==
    /\ replies # << >>
    /\ replies' = Tail(replies)
    /\ IF Head(replies) = 0
       THEN quiet' = TRUE /\ crossed' = connected
       ELSE UNCHANGED <<quiet, crossed>>
    /\ UNCHANGED <<client, promise, commands, connected, subscriptions, failedSub,
                   wanted, outcomes>>

Woken ==
    /\ wanted > 0
    /\ wanted' = wanted - 1
    /\ quiet' = FALSE
    /\ crossed' = FALSE
    /\ UNCHANGED <<client, promise, commands, connected, subscriptions, failedSub,
                   replies, outcomes>>

QuietEnds ==
    /\ quiet
    /\ quiet' = FALSE
    /\ crossed' = FALSE
    /\ UNCHANGED <<client, promise, commands, connected, subscriptions, failedSub,
                   replies, wanted, outcomes>>

LiveStreamNext ==
    \/ \E c \in Clients : Listen(c) \/ Listening(c) \/ Close(c)
    \/ RunCommand \/ Wake \/ WakeFails \/ SubscribeFails
    \/ Emit \/ Reply \/ Woken \/ QuietEnds

LiveStreamSpec == LiveStreamInit /\ [][LiveStreamNext]_liveStreamVars

(***************************************************************************)
(* Properties                                                              *)
(***************************************************************************)

\* An open stream is subscribed or about to be, whoever else came and went,
\* unless its subscription failed: commands overtake each other nowhere, and only
\* the last listener ends the subscription (live-events.ts:36-40).
OpenIsHeard ==
    \A c \in Clients : client[c] = "open" =>
        \/ failedSub
        \/ IF commands = << >> THEN connected
           ELSE commands[Len(commands)] = "SUBSCRIBE"

\* Delivery is not quiet while somebody listens, but for the time the wake-up
\* takes, so "the next outcome is not missed" (live-events.ts:58-59); unless the
\* reply to a publish from before the subscription arrives after the wake-up.
NotQuiet ==
    quiet /\ connected /\ Listeners # {} /\ promise = "settled" => wanted > 0 \/ crossed

\* Who watches sees the outcomes: the subscription lasts as long as a stream is
\* open, and delivery does not stay quiet beside it.
StreamsAreFed == OpenIsHeard /\ NotQuiet
=============================================================================
