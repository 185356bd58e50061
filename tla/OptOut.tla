------------------------------- MODULE OptOut -------------------------------
(***************************************************************************)
(* What keeps one address from being mailed again: the provider's webhook  *)
(* (services/api/webhooks.ts), the unsubscribe link (handlers/unsubscribe),*)
(* the operator's suppressions (handlers/suppressions), the suppressions   *)
(* the engine caches for ten seconds, and the gate that re-reads the       *)
(* database when a parked send is released (services/scheduler/send-gate). *)
(* One user with one topic; the address is the user's contact.             *)
(***************************************************************************)
EXTENDS Naturals, FiniteSets

CONSTANTS
    Events,        \* provider events about a message sent before
    StatusOf,      \* [Events -> {"unsubscribed", "complained", "hard", "soft"}]
    Mails,         \* further sends to the address
    CacheTicks,    \* ticks the engine keeps the set of suppressed addresses
    LastTick,      \* bound: ticks
    MaxTimeouts    \* bound: webhook calls that outlive their 15 seconds

ASSUME OptOutAssumption ==
    /\ StatusOf \in [Events -> {"unsubscribed", "complained", "hard", "soft"}]
    /\ CacheTicks \in Nat \ {0}
    /\ LastTick \in Nat /\ MaxTimeouts \in Nat

VARIABLES
    logged,        \* the earlier message has its row in message_logs
    reason,        \* the suppression of the address, "none" without one
    since,         \* ticks since that row was written
    optedOut,      \* the user's preference turns the topic off
    reachable,     \* the user exists and the contact is active
    hooks,         \* webhook calls that run: event, where it is, answered or not
    hookAnswer,        \* [Events -> what the provider last heard]
    missed,        \* history: events answered 200 that found no log row
    lifted,        \* history: events recorded before the operator lifted the suppression
    seen,          \* the engine's cached answer: "none", "clear" or "blocked", its age
    asking,        \* the cache's query on the wire: "no", "sent", or what it read
    mail,          \* [Mails -> where it is]
    heard,         \* [Mails -> opt-outs in force when the gate began to read]
    clock,         \* ticks so far
    slow           \* webhook calls that timed out so far

optOutVars == <<logged, reason, since, optedOut, reachable, hooks, hookAnswer, missed,
                lifted, seen, asking, mail, heard, clock, slow>>

hookVars == <<hooks, hookAnswer, missed, slow>>
sendVars == <<seen, asking, mail, heard>>

Blocking == {e \in Events : StatusOf[e] # "soft"}
Blocked  == reason # "none"
Unread   == [is |-> "none", age |-> 0]

OptOutTypeOK ==
    /\ logged \in BOOLEAN /\ optedOut \in BOOLEAN /\ reachable \in BOOLEAN
    /\ reason \in {"none", "unsubscribed", "complained", "hard", "manual"}
    /\ since \in 0..LastTick /\ clock \in 0..LastTick /\ slow \in 0..MaxTimeouts
    /\ hooks \subseteq [of : Events, at : {"read", "known", "stored"}, open : BOOLEAN]
    /\ hookAnswer \in [Events -> {"none", "pending", "ok", "failed"}]
    /\ missed \subseteq Events /\ lifted \subseteq Events
    /\ seen \in [is : {"none", "clear", "blocked"}, age : 0..CacheTicks]
    /\ asking \in {"no", "sent", "clear", "blocked"}
    /\ mail \in [Mails -> {"none", "engine", "parked", "read", "sent", "late", "dropped"}]
    /\ \A m \in Mails : heard[m] \subseteq {"suppressed", "gone", "off"}

OptOutInit ==
    /\ logged = FALSE /\ reason = "none" /\ since = 0
    /\ optedOut = FALSE /\ reachable = TRUE
    /\ hooks = {} /\ hookAnswer = [e \in Events |-> "none"]
    /\ missed = {} /\ lifted = {} /\ slow = 0
    /\ seen = Unread /\ asking = "no"
    /\ mail = [m \in Mails |-> "none"] /\ heard = [m \in Mails |-> {}]
    /\ clock = 0

-----------------------------------------------------------------------------
(* The webhook. A provider calls again until it hears 200.                 *)

\* The event worker's log batch (services/events/main.ts, 189-218) is flushed
\* after the send, and perhaps after the provider's first event about it.
LogFlushed ==
    /\ ~logged /\ logged' = TRUE
    /\ UNCHANGED <<reason, since, optedOut, reachable, hookVars, lifted, sendVars, clock>>

Call(e) ==
    /\ hookAnswer[e] \in {"none", "failed"}
    /\ hooks' = hooks \cup {[of |-> e, at |-> "read", open |-> TRUE]}
    /\ hookAnswer' = [hookAnswer EXCEPT ![e] = "pending"]
    /\ UNCHANGED <<logged, reason, since, optedOut, reachable, missed, lifted, slow, sendVars, clock>>

Advance(h, at) == hooks' = (hooks \ {h}) \cup {[h EXCEPT !.at = at]}

Respond(h, what) ==
    /\ hooks' = hooks \ {h}
    /\ hookAnswer' = IF h.open THEN [hookAnswer EXCEPT ![h.of] = what] ELSE hookAnswer

\* An event of a message that has no log row yet is skipped, and answered 200.
ReadLog(h) ==
    /\ h.at = "read"
    /\ \/ /\ logged /\ Advance(h, "known")
          /\ UNCHANGED <<hookAnswer, missed>>
       \/ /\ ~logged /\ Respond(h, "ok")
          /\ missed' = IF h.open THEN missed \cup {h.of} ELSE missed
    /\ UNCHANGED <<logged, reason, since, optedOut, reachable, lifted, slow, sendVars, clock>>

\* The engagement row (a repeat is a no-op), then the suppression.
StoreEvent(h) ==
    /\ h.at = "known" /\ Advance(h, "stored")
    /\ UNCHANGED <<logged, reason, since, optedOut, reachable, hookAnswer, missed, lifted,
                   slow, sendVars, clock>>

\* First reason wins: the insert does nothing on a conflict.
Record(why) ==
    /\ reason' = IF Blocked THEN reason ELSE why
    /\ since' = IF Blocked THEN since ELSE 0

\* As Suppress, but the provider is answered first.
SuppressLast(h) ==
    \/ /\ h.at = "stored" /\ h.open
       /\ hooks' = (hooks \ {h}) \cup {[h EXCEPT !.open = FALSE]}
       /\ hookAnswer' = [hookAnswer EXCEPT ![h.of] = "ok"]
       /\ UNCHANGED <<logged, reason, since, optedOut, reachable, missed, lifted, slow, sendVars, clock>>
    \/ /\ h.at = "stored" /\ ~h.open
       /\ IF h.of \in Blocking THEN Record(StatusOf[h.of]) ELSE UNCHANGED <<reason, since>>
       /\ Respond(h, "ok")
       /\ UNCHANGED <<logged, optedOut, reachable, missed, lifted, slow, sendVars, clock>>

Suppress(h) ==
    /\ h.at = "stored"
    /\ IF h.of \in Blocking THEN Record(StatusOf[h.of]) ELSE UNCHANGED <<reason, since>>
    /\ Respond(h, "ok")
    /\ UNCHANGED <<logged, optedOut, reachable, missed, lifted, slow, sendVars, clock>>

\* A query fails: 500, and the provider calls again.
HookFails(h) ==
    /\ Respond(h, "failed")
    /\ UNCHANGED <<logged, reason, since, optedOut, reachable, missed, lifted, slow, sendVars, clock>>

\* 15 seconds pass: the provider hears 500 while the call runs on.
CallTimesOut(h) ==
    /\ h.open /\ slow < MaxTimeouts
    /\ slow' = slow + 1
    /\ hooks' = (hooks \ {h}) \cup {[h EXCEPT !.open = FALSE]}
    /\ hookAnswer' = [hookAnswer EXCEPT ![h.of] = "failed"]
    /\ UNCHANGED <<logged, reason, since, optedOut, reachable, missed, lifted, sendVars, clock>>

-----------------------------------------------------------------------------
(* The link in a message, and the operator.                                *)

\* A claim with topics turns them off for the user; without topics, or when
\* the user is gone, it suppresses the address.
Unsubscribe(topical) ==
    /\ IF topical /\ reachable
       THEN optedOut' = TRUE /\ UNCHANGED <<reason, since>>
       ELSE Record("unsubscribed") /\ UNCHANGED optedOut
    /\ UNCHANGED <<logged, reachable, hookVars, lifted, sendVars, clock>>

CreateSuppression ==
    /\ Record("manual")
    /\ UNCHANGED <<logged, optedOut, reachable, hookVars, lifted, sendVars, clock>>

DeleteSuppression ==
    /\ Blocked
    /\ reason' = "none" /\ since' = 0
    /\ lifted' = lifted \cup {e \in Blocking : hookAnswer[e] = "ok"}
    /\ heard' = [m \in Mails |-> heard[m] \ {"suppressed"}]
    /\ UNCHANGED <<logged, optedOut, reachable, hookVars, seen, asking, mail, clock>>

\* The user is deleted, or the contact is deactivated.
RemoveContact ==
    /\ reachable /\ reachable' = FALSE
    /\ UNCHANGED <<logged, reason, since, optedOut, hookVars, lifted, sendVars, clock>>

-----------------------------------------------------------------------------
(* The engine's check of the suppressions, through its cache.              *)

sendRest == <<logged, reason, since, optedOut, reachable, hookVars, lifted, clock>>

Fresh == seen.is # "none"

DispatchMail(m) ==
    /\ mail[m] = "none" /\ reachable
    /\ mail' = [mail EXCEPT ![m] = "engine"]
    /\ UNCHANGED <<seen, asking, heard, sendRest>>

AskSuppressions ==
    /\ ~Fresh /\ asking = "no" /\ \E m \in Mails : mail[m] = "engine"
    /\ asking' = "sent"
    /\ UNCHANGED <<seen, mail, heard, sendRest>>

\* The database answers; a lookup that fails instead holds the messages.
ReadSuppressions ==
    /\ asking = "sent"
    /\ asking' \in {IF Blocked THEN "blocked" ELSE "clear", "no"}
    /\ UNCHANGED <<seen, mail, heard, sendRest>>

KeepSuppressions ==
    /\ asking \in {"clear", "blocked"}
    /\ seen' = [is |-> asking, age |-> 0] /\ asking' = "no"
    /\ UNCHANGED <<mail, heard, sendRest>>

\* Sent at once, parked for its time, or dropped. The send is "late" when the
\* address has been suppressed for longer than the cache keeps its answer.
Decide(m) ==
    /\ mail[m] = "engine" /\ Fresh
    /\ mail' = [mail EXCEPT ![m] =
                  IF seen.is = "blocked" THEN "dropped"
                  ELSE IF Blocked /\ since >= CacheTicks THEN "late" ELSE "sent"]
    /\ UNCHANGED <<seen, asking, heard, sendRest>>

Park(m) ==
    /\ mail[m] = "engine" /\ Fresh /\ seen.is = "clear"
    /\ mail' = [mail EXCEPT ![m] = "parked"]
    /\ UNCHANGED <<seen, asking, heard, sendRest>>

-----------------------------------------------------------------------------
(* The gate at release. A failed lookup holds the batch: the mail stays    *)
(* parked. Four queries run together; an opt-out may commit between them.  *)

Stops == {w \in {"suppressed", "gone", "off"} :
            CASE w = "suppressed" -> Blocked [] w = "gone" -> ~reachable [] w = "off" -> optedOut}

BeginRelease(m) ==
    /\ mail[m] = "parked"
    /\ mail' = [mail EXCEPT ![m] = "read"]
    /\ heard' = [heard EXCEPT ![m] = Stops]
    /\ UNCHANGED <<seen, asking, sendRest>>

Release(m) ==
    /\ mail[m] = "read"
    /\ mail' \in {[mail EXCEPT ![m] = to] :
                    to \in IF Stops # {} THEN {"dropped", "parked"} ELSE {"sent", "parked"}}
    /\ UNCHANGED <<seen, asking, heard, sendRest>>

\* A query is answered within the tick.
PassTick ==
    /\ clock < LastTick /\ asking = "no"
    /\ clock' = clock + 1
    /\ since' = IF Blocked /\ since < LastTick THEN since + 1 ELSE since
    /\ seen' = IF seen.age = CacheTicks - 1 \/ seen.is = "none" THEN Unread
               ELSE [seen EXCEPT !.age = @ + 1]
    /\ UNCHANGED <<logged, reason, optedOut, reachable, hookVars, lifted, asking, mail, heard>>

OptOutNext ==
    \/ LogFlushed \/ CreateSuppression \/ DeleteSuppression \/ RemoveContact
    \/ AskSuppressions \/ ReadSuppressions \/ KeepSuppressions \/ PassTick
    \/ \E e \in Events : Call(e)
    \/ \E h \in hooks : ReadLog(h) \/ StoreEvent(h) \/ Suppress(h) \/ HookFails(h) \/ CallTimesOut(h)
    \/ \E topical \in BOOLEAN : Unsubscribe(topical)
    \/ \E m \in Mails : DispatchMail(m) \/ Decide(m) \/ Park(m) \/ BeginRelease(m) \/ Release(m)

OptOutSpec == OptOutInit /\ [][OptOutNext]_optOutVars

-----------------------------------------------------------------------------
\* An opt-out the provider was told is taken is in force until the operator
\* lifts it - unless it came before the log row of its message
\* (webhooks.ts, 73-95). An event is taken to name its recipient: one that
\* does not is only logged (124-126).
OptOutHeld ==
    \A e \in Blocking : hookAnswer[e] = "ok" => Blocked \/ e \in missed \/ e \in lifted

\* Why an address is suppressed never changes under a row that stays
\* (webhooks.ts, 123; handlers/suppressions.ts, 61).
FirstReasonWins ==
    [][reason # "none" => reason' \in {reason, "none"}]_optOutVars

\* A send whose gate began after an opt-out is not released, whatever the
\* engine's caches said when it was parked (send-gate.ts, 20-24), unless the
\* operator lifts that opt-out meanwhile.
GateHeeds ==
    \A m \in Mails : mail[m] = "sent" => heard[m] = {}

\* A send that is not parked goes out only while the address has been
\* suppressed for less than the cache keeps its answer
\* (engine/main.ts, 154-156).
SoonHeeded == \A m \in Mails : mail[m] # "late"

\* An opt-out is stored, stays as it is, and is heeded by every send after it.
OptOutHeeded == [](OptOutHeld /\ GateHeeds /\ SoonHeeded) /\ FirstReasonWins
=============================================================================
