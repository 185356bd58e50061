------------------------------ MODULE Delivery ------------------------------
(***************************************************************************)
(* One notification.dispatched task in the delivery workers                *)
(* (services/delivery/main.ts): gates of the providers, the lease, the     *)
(* sends, and what each result leads to. A task that is parked comes back  *)
(* through the scheduler as a new entry; a crash leaves its entry pending, *)
(* to be delivered again. So several entries of one task can be handled at *)
(* the same time, and the lease on the task id is all that separates them. *)
(*                                                                         *)
(* The dispatch budget (25 s) is under the lease (60 s): a lease expires   *)
(* here only when its holder is gone or could not turn it into the mark.   *)
(***************************************************************************)
EXTENDS Naturals, FiniteSets

CONSTANTS
    Handlers,       \* process() calls that can run together
    MaxCopies,      \* bound: entries of the task
    MaxAttempts,    \* deliveryOptions.maxAttempts
    MaxDeferrals,   \* MAX_THROTTLE_DEFERRALS
    MaxDeliveries,  \* deliveries of one entry before it is dead-lettered
    MaxFaults       \* bound: crashes and failed calls

ASSUME DeliveryAssumption ==
    /\ {MaxCopies, MaxAttempts, MaxDeliveries} \subseteq Nat \ {0}
    /\ {MaxDeferrals, MaxFaults} \subseteq Nat

VARIABLES
    task,       \* providers registered for its channel, isPush, a fallback chain
    copy,       \* the entries of the task
    parked,     \* its row in scheduled_payloads; known: the scheduler has it in Redis
    job,        \* the handlers
    sendKey,    \* notif:processed:delivery:<taskId>
    faults,     \* crashes and failed calls so far
    accepted,   \* history, as in DeliveryPromise
    verdicts,
    passedOn,
    unsure

deliveryHistory == <<accepted, verdicts, passedOn, unsure>>
deliveryVars == <<task, copy, parked, job, sendKey, faults, deliveryHistory>>

Reasons   == {"sent", "verdict", "split", "unchecked"}
Copies    == 1..MaxCopies
NoCopy    == [at |-> "none", tries |-> 0, deferrals |-> 0, attempt |-> 0]
NotParked == [here |-> FALSE, known |-> FALSE, tries |-> 0, deferrals |-> 0]
Free      == [pc |-> "free", copy |-> 1, provider |-> 1, retryable |-> TRUE, did |-> {}]

TaskEntries == [at : {"none", "queued", "pending", "acked", "dead"}, tries : Nat,
                deferrals : 0..MaxDeferrals, attempt : 0..MaxDeliveries]
JobPcs == {"free", "gate", "lease", "render", "send", "won", "invalid", "lost", "retry", "defer",
           "pass", "drop", "settle", "ack"}
TaskJobs == [pc : JobPcs, copy : Copies, provider : 1..2, retryable : BOOLEAN, did : SUBSET Reasons]

DeliveryTypeOK ==
    /\ task \in [providers : 0..2, isPush : BOOLEAN, chain : BOOLEAN]
    /\ copy \in [Copies -> TaskEntries]
    /\ parked \in [here : BOOLEAN, known : BOOLEAN, tries : Nat, deferrals : 0..MaxDeferrals]
    /\ job \in [Handlers -> TaskJobs]
    /\ sendKey \in {"none", "lease", "done"}
    /\ faults \in 0..MaxFaults
    /\ accepted \in Nat
    /\ verdicts \subseteq {"delivered", "failed"}
    /\ passedOn \in Nat
    /\ unsure \subseteq Reasons

DeliveryInit ==
    /\ task \in [providers : 0..2, isPush : BOOLEAN, chain : BOOLEAN]
    /\ copy = [c \in Copies |-> IF c = 1 THEN [NoCopy EXCEPT !.at = "queued"] ELSE NoCopy]
    /\ parked = NotParked
    /\ job = [h \in Handlers |-> Free]
    /\ sendKey = "none"
    /\ faults = 0
    /\ accepted = 0 /\ verdicts = {} /\ passedOn = 0 /\ unsure = {}

(***************************************************************************)
(* Helpers of the steps. `did` is what a handler did that is not recorded  *)
(* yet: if it ends before the mark or the acknowledgement, that is a       *)
(* reason for what happens twice.                                          *)
(***************************************************************************)
CopyOf(h)    == copy[job[h].copy]
AttemptNo(h) == CopyOf(h).tries + CopyOf(h).attempt
UnderLease(h) == job[h].pc \in {"render", "send", "won", "invalid", "lost", "retry", "pass", "settle"}
Go(h, pc, did) == job' = [job EXCEPT ![h].pc = pc, ![h].did = did]
Faulty       == faults < MaxFaults /\ faults' = faults + 1

\* catch: release the lease, which may fail and is then only logged, and throw. The worker dead-letters what cannot be
\* retried or was delivered too often; anything else stays pending.
Throw(h, retryable) ==
    /\ job' = [job EXCEPT ![h] = Free]
    /\ copy' = IF retryable /\ CopyOf(h).attempt < MaxDeliveries THEN copy
               ELSE [copy EXCEPT ![job[h].copy].at = "dead"]
    /\ sendKey' \in IF UnderLease(h) THEN {"none", sendKey} ELSE {sendKey}

(***************************************************************************)
(* Around process(): an entry is delivered, or delivered again once nobody *)
(* handles it; the scheduler releases what is parked, and finds a row that *)
(* Redis does not know when it restarts.                                   *)
(***************************************************************************)
Handled(c) == \E h \in Handlers : job[h].pc # "free" /\ job[h].copy = c

TakeEntry(h, c) ==
    /\ job[h].pc = "free"
    /\ \/ copy[c].at = "queued"
       \/ copy[c].at = "pending" /\ ~Handled(c) /\ copy[c].attempt < MaxDeliveries
    /\ copy' = [copy EXCEPT ![c].at = "pending", ![c].attempt = @ + 1]
    /\ job' = [job EXCEPT ![h] = [Free EXCEPT !.pc = "gate", !.copy = c]]
    /\ UNCHANGED <<task, parked, sendKey, faults, deliveryHistory>>

GiveUpEntry(c) ==
    /\ copy[c].at = "pending" /\ ~Handled(c) /\ copy[c].attempt = MaxDeliveries
    /\ copy' = [copy EXCEPT ![c].at = "dead"]
    /\ UNCHANGED <<task, parked, job, sendKey, faults, deliveryHistory>>

ReleaseParked ==
    /\ parked.here /\ parked.known
    /\ \E c \in Copies :
          /\ copy[c].at = "none"
          /\ \A d \in 1..(c - 1) : copy[d].at # "none"
          /\ copy' = [copy EXCEPT ![c] = [at |-> "queued", tries |-> parked.tries,
                                          deferrals |-> parked.deferrals, attempt |-> 0]]
    /\ parked' = NotParked
    /\ UNCHANGED <<task, job, sendKey, faults, deliveryHistory>>

RebuildParked ==
    /\ parked.here /\ ~parked.known
    /\ parked' = [parked EXCEPT !.known = TRUE]
    /\ UNCHANGED <<task, copy, job, sendKey, faults, deliveryHistory>>

SendKeyExpires ==
    /\ sendKey = "lease"
    /\ \A h \in Handlers : ~UnderLease(h)
    /\ sendKey' = "none"
    /\ UNCHANGED <<task, copy, parked, job, faults, deliveryHistory>>

(***************************************************************************)
(* process(), up to the first send                                         *)
(***************************************************************************)
OutOfRoom(h) ==
    IF CopyOf(h).deferrals + 1 > MaxDeferrals THEN Go(h, "drop", {}) ELSE Go(h, "defer", {})

Gate(h) ==
    /\ job[h].pc = "gate"
    /\ IF task.providers = 0
       THEN Go(h, "drop", {})
       ELSE \/ \E p \in 1..task.providers :
                  job' = [job EXCEPT ![h].pc = "lease", ![h].provider = p]
            \/ OutOfRoom(h)
    /\ UNCHANGED <<task, copy, parked, sendKey, faults, deliveryHistory>>

\* No transport, or deferred too often: the next channel, or a failure. Nobody
\* looks at the key first: an entry that comes again after its task was sent can
\* end here, because the gates come before the lease.
DropTask(h) ==
    /\ job[h].pc = "drop"
    /\ unsure' = unsure \cup IF sendKey = "none" THEN {} ELSE {"unchecked"}
    /\ IF task.chain THEN passedOn' = passedOn + 1 /\ UNCHANGED verdicts
                     ELSE verdicts' = verdicts \cup {"failed"} /\ UNCHANGED passedOn
    /\ Go(h, "ack", {"verdict"})
    /\ UNCHANGED <<task, copy, parked, sendKey, faults, accepted>>

ParkAs(tries, deferrals, known) ==
    parked' = [here |-> TRUE, known |-> known, tries |-> tries, deferrals |-> deferrals]

Defer(h) ==
    /\ job[h].pc = "defer"
    /\ ParkAs(CopyOf(h).tries, CopyOf(h).deferrals + 1, TRUE)
    /\ Go(h, "ack", {"split"})
    /\ UNCHANGED <<task, copy, sendKey, faults, deliveryHistory>>

\* As TakeLease, but a completed task is not told from one that never ran.
TakeLeaseBlind(h) ==
    /\ job[h].pc = "lease"
    /\ IF sendKey = "lease"
       THEN job' = [job EXCEPT ![h] = Free] /\ UNCHANGED sendKey
       ELSE sendKey' = "lease" /\ Go(h, "render", {})
    /\ UNCHANGED <<task, copy, parked, faults, deliveryHistory>>

\* Completed: acknowledge. Locked: leave the entry pending.
TakeLease(h) ==
    /\ job[h].pc = "lease"
    /\ \/ sendKey = "none" /\ sendKey' = "lease" /\ Go(h, "render", {})
       \/ sendKey = "done" /\ Go(h, "ack", {}) /\ UNCHANGED sendKey
       \/ sendKey = "lease" /\ job' = [job EXCEPT ![h] = Free] /\ UNCHANGED sendKey
    /\ UNCHANGED <<task, copy, parked, faults, deliveryHistory>>

Render(h) ==
    /\ job[h].pc = "render"
    /\ Go(h, "send", {})
    /\ UNCHANGED <<task, copy, parked, sendKey, faults, deliveryHistory>>

\* The template was deleted since the engine looked.
TemplateGone(h) ==
    /\ job[h].pc = "render"
    /\ Throw(h, FALSE)
    /\ UNCHANGED <<task, parked, faults, deliveryHistory>>

(***************************************************************************)
(* The sends. After a failure the next provider whose gate, budget and     *)
(* breaker let it; the last one tried decides whether a retry makes sense. *)
(***************************************************************************)
NextProvider(h, retryable) ==
    \/ \E p \in (job[h].provider + 1)..task.providers : job' = [job EXCEPT ![h].provider = p]
    \/ job' = [job EXCEPT ![h].pc = "lost", ![h].retryable = retryable]

ProviderAccepts(h) ==
    /\ job[h].pc = "send"
    /\ accepted' = accepted + 1
    /\ Go(h, "won", {"sent"})
    /\ UNCHANGED <<task, copy, parked, sendKey, faults, verdicts, passedOn, unsure>>

\* Refused, timed out, or not asked because its breaker is open.
ProviderFails(h, retryable) ==
    /\ job[h].pc = "send"
    /\ NextProvider(h, retryable)
    /\ UNCHANGED <<task, copy, parked, sendKey, faults, deliveryHistory>>

\* Timed out here, accepted there.
ProviderAcceptsLate(h) ==
    /\ job[h].pc = "send"
    /\ Faulty
    /\ accepted' = accepted + 1
    /\ unsure' = unsure \cup {"sent"}
    /\ NextProvider(h, TRUE)
    /\ UNCHANGED <<task, copy, parked, sendKey, verdicts, passedOn>>

TokenRejected(h) ==
    /\ job[h].pc = "send" /\ task.isPush
    /\ Go(h, "invalid", {})
    /\ UNCHANGED <<task, copy, parked, sendKey, faults, deliveryHistory>>

(***************************************************************************)
(* The outcome                                                             *)
(***************************************************************************)
TellDelivered(h) ==
    /\ job[h].pc = "won"
    /\ verdicts' = verdicts \cup {"delivered"}
    /\ Go(h, "settle", {"sent", "verdict"})
    /\ UNCHANGED <<task, copy, parked, sendKey, faults, accepted, passedOn, unsure>>

\* The contact is deactivated, then the failure queued.
TellInvalid(h) ==
    /\ job[h].pc = "invalid"
    /\ verdicts' = verdicts \cup {"failed"}
    /\ Go(h, "pass", {"verdict"})
    /\ UNCHANGED <<task, copy, parked, sendKey, faults, accepted, passedOn, unsure>>

TriesAgain(h) == job[h].retryable /\ AttemptNo(h) < MaxAttempts

TellLost(h) ==
    /\ job[h].pc = "lost"
    /\ IF TriesAgain(h)
       THEN Go(h, "retry", {}) /\ UNCHANGED verdicts
       ELSE Go(h, "pass", {"verdict"}) /\ verdicts' = verdicts \cup {"failed"}
    /\ UNCHANGED <<task, copy, parked, sendKey, faults, accepted, passedOn, unsure>>

Retry(h) ==
    /\ job[h].pc = "retry"
    /\ ParkAs(AttemptNo(h), CopyOf(h).deferrals, TRUE)
    /\ Go(h, "settle", {"split"})
    /\ UNCHANGED <<task, copy, sendKey, faults, deliveryHistory>>

\* The next channel, or a throw that ends in the dead letters.
PassToNext(h) ==
    /\ job[h].pc = "pass"
    /\ IF task.chain
       THEN /\ passedOn' = passedOn + 1
            /\ Go(h, "settle", {"verdict"})
            /\ UNCHANGED <<copy, sendKey, unsure>>
       ELSE /\ Throw(h, FALSE)
            /\ unsure' = unsure \cup job[h].did
            /\ UNCHANGED passedOn
    /\ UNCHANGED <<task, parked, faults, accepted, verdicts>>

\* The lease is released for a parked task and turned into the mark otherwise.
Settle(h) ==
    /\ job[h].pc = "settle"
    /\ IF "split" \in job[h].did
       THEN sendKey' = "none" /\ Go(h, "ack", job[h].did)
       ELSE sendKey' = "done" /\ Go(h, "ack", {})
    /\ UNCHANGED <<task, copy, parked, faults, deliveryHistory>>

AckEntry(h) ==
    /\ job[h].pc = "ack"
    /\ copy' = [copy EXCEPT ![job[h].copy].at = "acked"]
    /\ job' = [job EXCEPT ![h] = Free]
    /\ UNCHANGED <<task, parked, sendKey, faults, deliveryHistory>>

(***************************************************************************)
(* Faults                                                                  *)
(***************************************************************************)

\* A call of Redis, Postgres or the stream fails where process() awaits it.
CallFails(h) ==
    /\ job[h].pc \in {"lease", "render", "invalid", "pass", "drop"}
    /\ Faulty
    /\ Throw(h, TRUE)
    /\ unsure' = unsure \cup job[h].did
    /\ UNCHANGED <<task, parked, accepted, verdicts, passedOn>>

\* The outcome cannot be published: the failure is logged and swallowed, so that
\* the task is not sent again for it.
TellFails(h) ==
    /\ job[h].pc \in {"won", "invalid"} \/ (job[h].pc = "lost" /\ ~TriesAgain(h))
    /\ Faulty
    /\ IF job[h].pc = "won" THEN Go(h, "settle", {"sent"}) ELSE Go(h, "pass", {})
    /\ UNCHANGED <<task, copy, parked, sendKey, deliveryHistory>>

\* As ParkFails, but the failure is only logged.
ParkFailsQuietly(h) ==
    /\ job[h].pc \in {"retry", "defer"}
    /\ Faulty
    /\ Go(h, IF job[h].pc = "retry" THEN "settle" ELSE "ack", {"split"})
    /\ UNCHANGED <<task, copy, parked, sendKey, deliveryHistory>>

\* reschedule() fails in one of its two steps: the row may stay, unknown to the
\* scheduler until it restarts.
ParkFails(h) ==
    /\ job[h].pc \in {"retry", "defer"}
    /\ Faulty
    /\ \/ UNCHANGED <<parked, unsure>>
       \/ /\ IF job[h].pc = "retry"
             THEN ParkAs(AttemptNo(h), CopyOf(h).deferrals, parked.known)
             ELSE ParkAs(CopyOf(h).tries, CopyOf(h).deferrals + 1, parked.known)
          /\ unsure' = unsure \cup {"split"}
    /\ Throw(h, TRUE)
    /\ UNCHANGED <<task, accepted, verdicts, passedOn>>

\* The release or the mark fails, which is only logged: the lease stays.
SettleFails(h) ==
    /\ job[h].pc = "settle"
    /\ Faulty
    /\ unsure' = unsure \cup (job[h].did \ {"split"})
    /\ Go(h, "ack", job[h].did \cap {"split"})
    /\ UNCHANGED <<task, copy, parked, sendKey, accepted, verdicts, passedOn>>

Crash(h) ==
    /\ job[h].pc # "free"
    /\ Faulty
    /\ job' = [job EXCEPT ![h] = Free]
    /\ unsure' = unsure \cup job[h].did
    /\ UNCHANGED <<task, copy, parked, sendKey, accepted, verdicts, passedOn>>

DeliveryNext ==
    \/ \E h \in Handlers :
          \/ \E c \in Copies : TakeEntry(h, c)
          \/ Gate(h) \/ DropTask(h) \/ Defer(h) \/ TakeLease(h) \/ Render(h) \/ TemplateGone(h)
          \/ ProviderAccepts(h) \/ ProviderAcceptsLate(h) \/ TokenRejected(h)
          \/ \E retryable \in BOOLEAN : ProviderFails(h, retryable)
          \/ TellDelivered(h) \/ TellInvalid(h) \/ TellLost(h) \/ Retry(h) \/ PassToNext(h)
          \/ Settle(h) \/ AckEntry(h)
          \/ CallFails(h) \/ TellFails(h) \/ ParkFails(h) \/ SettleFails(h) \/ Crash(h)
    \/ \E c \in Copies : GiveUpEntry(c)
    \/ ReleaseParked \/ RebuildParked \/ SendKeyExpires

DeliverySpec == DeliveryInit /\ [][DeliveryNext]_deliveryVars

(***************************************************************************)
(* Properties                                                              *)
(***************************************************************************)

\* However its copies are delivered, parked and released, the task keeps the
\* promise of DeliveryPromise (process, delivery/main.ts).
Promise == INSTANCE DeliveryPromise WITH
             accepted <- accepted, verdicts <- verdicts, passedOn <- passedOn, unsure <- unsure
Promised == Promise!PromiseSpec

\* When no entry and no parked row is left, the task came somewhere: a provider,
\* a verdict, the next channel or the dead letters. In particular no failed call
\* on the way of a retry loses it (reschedule, the catch of process).
NotLost ==
    (~parked.here /\ \A c \in Copies : copy[c].at \in {"none", "acked", "dead"})
        => accepted > 0 \/ verdicts # {} \/ passedOn > 0 \/ \E c \in Copies : copy[c].at = "dead"
=============================================================================
