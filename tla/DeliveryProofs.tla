--------------------------- MODULE DeliveryProofs ---------------------------
(***************************************************************************)
(* Proofs about Delivery, for any handlers and bounds: the detailed model  *)
(* keeps the promise of DeliveryPromise, and no task is lost.              *)
(***************************************************************************)
EXTENDS Delivery, TLAPS

(***************************************************************************)
(* The inductive invariant.                                                *)
(***************************************************************************)

\* A handler whose task is on its way elsewhere: parked, not acknowledged yet.
Leaving(h) == job[h].pc \in {"settle", "ack"} /\ "split" \in job[h].did

\* An entry from which the task may still be sent.
Open(c) ==
    /\ copy[c].at \in {"queued", "pending"}
    /\ \A h \in Handlers : ~(Leaving(h) /\ job[h].copy = c)

Over == ~parked.here /\ \A c \in Copies : ~Open(c)

\* What the types need: an entry starts without deliveries, and is deferred
\* only while there is room.
Fresh ==
    /\ \A c \in Copies : copy[c].at = "queued" => copy[c].attempt = 0
    /\ \A h \in Handlers : job[h].pc = "defer" => CopyOf(h).deferrals < MaxDeferrals

\* A handler holds a pending entry, and no other handler has it.
OwnEntries ==
    /\ \A h \in Handlers : job[h].pc # "free" => CopyOf(h).at = "pending"
    /\ \A g, h \in Handlers :
          job[g].pc # "free" /\ job[h].pc # "free" /\ job[g].copy = job[h].copy => g = h

\* The lease is held by whoever works under it, and by one handler only.
LeaseHeld ==
    /\ \A h \in Handlers : UnderLease(h) => sendKey = "lease"
    /\ \A g, h \in Handlers : UnderLease(g) /\ UnderLease(h) => g = h

\* What a handler did and has not recorded, by where it is.
DidFits ==
    \A h \in Handlers :
        /\ "sent"    \in job[h].did => job[h].pc \in {"won", "settle"} /\ accepted > 0
        /\ "verdict" \in job[h].did => job[h].pc \in {"pass", "settle", "ack"}
        /\ "split"   \in job[h].did =>
              /\ job[h].pc \in {"settle", "ack"}
              /\ "sent" \notin job[h].did /\ "verdict" \notin job[h].did
        /\ job[h].pc = "won" => "sent" \in job[h].did

\* An acceptance is recorded by the mark, or about to be by who saw it.
AcceptedKnown ==
    accepted > 0 /\ "sent" \notin unsure =>
        \/ sendKey = "done"
        \/ \E h \in Handlers : job[h].pc \in {"won", "settle"} /\ "sent" \in job[h].did

\* While nothing went unrecorded there is one place the task can be sent from.
OneOpen ==
    unsure = {} =>
        /\ \A c, d \in Copies : Open(c) /\ Open(d) => c = d
        /\ parked.here => \A c \in Copies : ~Open(c)

\* A verdict, or the next channel, is the end of the task.
JudgedIsOver ==
    unsure = {} /\ verdicts # {} =>
        \/ sendKey = "done" \/ Over
        \/ \E h \in Handlers : "verdict" \in job[h].did

PassedIsOver ==
    unsure = {} /\ passedOn > 0 =>
        \/ sendKey = "done" \/ Over
        \/ \E h \in Handlers : job[h].pc \in {"settle", "ack"} /\ "verdict" \in job[h].did

\* Somebody outside the worker has heard of the task.
Known == accepted > 0 \/ verdicts # {} \/ passedOn > 0

SettledIsKnown ==
    /\ sendKey = "done" => Known
    /\ \A h \in Handlers : job[h].pc \in {"settle", "ack"} /\ ~Leaving(h) => Known

Somewhere ==
    \/ Known \/ parked.here
    \/ \E c \in Copies : copy[c].at = "dead" \/ Open(c)

DeliveryTypes == DeliveryTypeOK /\ Fresh
DeliveryInv ==
    /\ DeliveryTypes /\ OwnEntries /\ LeaseHeld /\ DidFits /\ AcceptedKnown /\ OneOpen
    /\ JudgedIsOver /\ PassedIsOver /\ SettledIsKnown /\ Somewhere

-----------------------------------------------------------------------------
(* Types.                                                                  *)

\* The values a handler can be set to.
LEMMA JobValues ==
    /\ Free \in TaskJobs
    /\ \A j \in TaskJobs, p \in JobPcs : [j EXCEPT !.pc = p] \in TaskJobs
    /\ \A j \in TaskJobs, p \in JobPcs, d \in SUBSET Reasons :
          [j EXCEPT !.pc = p, !.did = d] \in TaskJobs
    /\ \A j \in TaskJobs : j.pc \in JobPcs /\ j.copy \in Copies /\ j.did \in SUBSET Reasons
<1>1. 1 \in Copies
  BY DeliveryAssumption DEF Copies
<1>2. "free" \in JobPcs
  BY DEF JobPcs
<1>3. Free \in TaskJobs
  BY <1>1, <1>2 DEF TaskJobs, Free
<1>4. ASSUME NEW j \in TaskJobs
      PROVE  j.pc \in JobPcs /\ j.copy \in Copies /\ j.did \in SUBSET Reasons
  BY DEF TaskJobs
<1>5. ASSUME NEW j \in TaskJobs, NEW p \in JobPcs PROVE [j EXCEPT !.pc = p] \in TaskJobs
  BY DEF TaskJobs
<1>6. ASSUME NEW j \in TaskJobs, NEW p \in JobPcs, NEW d \in SUBSET Reasons
      PROVE  [j EXCEPT !.pc = p, !.did = d] \in TaskJobs
  BY DEF TaskJobs
<1>7. QED  BY <1>3, <1>4, <1>5, <1>6

LEMMA ReasonSets ==
    /\ {} \in SUBSET Reasons /\ {"sent"} \in SUBSET Reasons /\ {"verdict"} \in SUBSET Reasons
    /\ {"split"} \in SUBSET Reasons /\ {"unchecked"} \in SUBSET Reasons
    /\ {"sent", "verdict"} \in SUBSET Reasons
BY DEF Reasons

LEMMA GoTypes ==
    ASSUME DeliveryTypeOK, NEW h \in Handlers, NEW p \in JobPcs, NEW d \in SUBSET Reasons,
           Go(h, p, d)
    PROVE  job' \in [Handlers -> TaskJobs]
BY JobValues DEF Go, DeliveryTypeOK

LEMMA NextProviderTypes ==
    ASSUME DeliveryTypeOK, NEW h \in Handlers, NEW r \in BOOLEAN, NextProvider(h, r)
    PROVE  job' \in [Handlers -> TaskJobs]
<1>1. \A q \in 1..task.providers : q \in 1..2
  BY DEF DeliveryTypeOK
<1>2. "lost" \in JobPcs
  BY DEF JobPcs
<1>3. job[h].provider + 1 \in Nat /\ job[h].provider + 1 >= 1
  BY DEF DeliveryTypeOK, TaskJobs
<1>4. ASSUME NEW q \in (job[h].provider + 1)..task.providers,
             job' = [job EXCEPT ![h].provider = q]
      PROVE  job' \in [Handlers -> TaskJobs]
  <2>1. q \in 1..2
    BY <1>1, <1>3 DEF DeliveryTypeOK
  <2>2. QED  BY <1>4, <2>1 DEF DeliveryTypeOK, TaskJobs
<1>5. ASSUME job' = [job EXCEPT ![h].pc = "lost", ![h].retryable = r]
      PROVE  job' \in [Handlers -> TaskJobs]
  BY ZenonT(30), <1>2, <1>5 DEF DeliveryTypeOK, TaskJobs
<1>6. QED  BY <1>4, <1>5 DEF NextProvider

LEMMA ThrowTypes ==
    ASSUME DeliveryTypeOK, NEW h \in Handlers, NEW r \in BOOLEAN, Throw(h, r)
    PROVE  /\ job' \in [Handlers -> TaskJobs]
           /\ copy' \in [Copies -> TaskEntries]
           /\ sendKey' \in {"none", "lease", "done"}
<1>1. job' \in [Handlers -> TaskJobs]
  BY JobValues DEF Throw, DeliveryTypeOK
<1>2. \A e \in TaskEntries : [e EXCEPT !.at = "dead"] \in TaskEntries
  BY DEF TaskEntries
<1>3. copy' \in [Copies -> TaskEntries]
  BY <1>2, JobValues DEF Throw, DeliveryTypeOK
<1>4. QED  BY <1>1, <1>3 DEF Throw, DeliveryTypeOK

\* A step keeps the types. Actions are grouped by what they set.
LEMMA TypesStep == DeliveryTypes /\ [DeliveryNext]_deliveryVars => DeliveryTypeOK'
<1> SUFFICES ASSUME DeliveryTypes, [DeliveryNext]_deliveryVars PROVE DeliveryTypeOK'
  OBVIOUS
<1> USE DEF DeliveryTypes, deliveryHistory
<1> DEFINE JobOK == job' \in [Handlers -> TaskJobs]
           RestOK == /\ task' \in [providers : 0..2, isPush : BOOLEAN, chain : BOOLEAN]
                     /\ copy' \in [Copies -> TaskEntries]
                     /\ parked' \in [here : BOOLEAN, known : BOOLEAN, tries : Nat,
                                     deferrals : 0..MaxDeferrals]
                     /\ sendKey' \in {"none", "lease", "done"}
                     /\ faults' \in 0..MaxFaults
                     /\ accepted' \in Nat
                     /\ verdicts' \subseteq {"delivered", "failed"}
                     /\ passedOn' \in Nat
                     /\ unsure' \subseteq Reasons
<1>f. Faulty => faults' \in 0..MaxFaults
  BY DeliveryAssumption DEF Faulty, DeliveryTypeOK
<1>p. \A p \in {"gate", "lease", "render", "send", "won", "invalid", "lost", "retry", "defer",
                "pass", "drop", "settle", "ack"} : p \in JobPcs
  BY DEF JobPcs
<1>d. \A j \in TaskJobs : j.did \in SUBSET Reasons
  BY JobValues
<1>h. ASSUME NEW h \in Handlers
      PROVE  job[h] \in TaskJobs /\ job[h].copy \in Copies /\ CopyOf(h) \in TaskEntries
  BY JobValues DEF DeliveryTypeOK, CopyOf
<1>k. \A n \in Nat, m \in 0..MaxDeferrals, b \in BOOLEAN : ParkAs(n, m, b) =>
         parked' \in [here : BOOLEAN, known : BOOLEAN, tries : Nat, deferrals : 0..MaxDeferrals]
  BY DEF ParkAs
<1>a. ASSUME NEW h \in Handlers
      PROVE  /\ CopyOf(h).tries \in Nat /\ CopyOf(h).deferrals \in 0..MaxDeferrals
             /\ AttemptNo(h) \in Nat
             /\ job[h].pc = "defer" => CopyOf(h).deferrals + 1 \in 0..MaxDeferrals
  BY <1>h, DeliveryAssumption DEF AttemptNo, TaskEntries, Fresh
<1>1. ASSUME NEW h \in Handlers, NEW c \in Copies, TakeEntry(h, c) PROVE DeliveryTypeOK'
  <2>1. [Free EXCEPT !.pc = "gate", !.copy = c] \in TaskJobs
    BY JobValues, <1>p DEF TaskJobs
  <2>2. copy[c].attempt + 1 \in 0..MaxDeliveries
    BY <1>1, DeliveryAssumption DEF TakeEntry, DeliveryTypeOK, Fresh, TaskEntries
  <2>3. copy' \in [Copies -> TaskEntries]
    BY <1>1, <2>2 DEF TakeEntry, DeliveryTypeOK, TaskEntries
  <2>4. QED  BY <1>1, <2>1, <2>3 DEF TakeEntry, DeliveryTypeOK
<1>2. ASSUME NEW h \in Handlers, \/ Gate(h) \/ TakeLease(h) \/ Render(h) \/ ProviderAccepts(h)
                                 \/ TokenRejected(h) \/ Settle(h) \/ AckEntry(h)
      PROVE  DeliveryTypeOK'
  <2>1. CASE Gate(h)
    <3>1. \A p \in 1..task.providers : p \in 1..2
      BY DEF DeliveryTypeOK
    <3>2. ASSUME NEW q \in 1..task.providers,
                 job' = [job EXCEPT ![h].pc = "lease", ![h].provider = q]
          PROVE  JobOK
      BY ZenonT(30), <3>1, <3>2, <1>p DEF DeliveryTypeOK, TaskJobs
    <3>3. JobOK
      BY <2>1, <3>2, <1>p, ReasonSets, GoTypes DEF Gate, OutOfRoom
    <3>4. QED  BY <2>1, <3>3 DEF Gate, DeliveryTypeOK
  <2>2. CASE TakeLease(h)
    <3>1. JobOK
      BY <2>2, <1>p, ReasonSets, GoTypes, JobValues DEF TakeLease, DeliveryTypeOK
    <3>2. QED  BY <2>2, <3>1 DEF TakeLease, DeliveryTypeOK
  <2>3. CASE Render(h)
    BY <2>3, <1>p, ReasonSets, GoTypes DEF Render, DeliveryTypeOK
  <2>4. CASE ProviderAccepts(h)
    BY <2>4, <1>p, ReasonSets, GoTypes DEF ProviderAccepts, DeliveryTypeOK
  <2>5. CASE TokenRejected(h)
    BY <2>5, <1>p, ReasonSets, GoTypes DEF TokenRejected, DeliveryTypeOK
  <2>6. CASE Settle(h)
    BY <2>6, <1>p, <1>d, <1>h, ReasonSets, GoTypes DEF Settle, DeliveryTypeOK
  <2>7. CASE AckEntry(h)
    <3>1. \A e \in TaskEntries : [e EXCEPT !.at = "acked"] \in TaskEntries
      BY DEF TaskEntries
    <3>2. QED  BY <2>7, <3>1, <1>h, JobValues DEF AckEntry, DeliveryTypeOK
  <2>8. QED  BY <1>2, <2>1, <2>2, <2>3, <2>4, <2>5, <2>6, <2>7
<1>3. ASSUME NEW h \in Handlers, DropTask(h) PROVE DeliveryTypeOK'
  <2>1. JobOK
    BY <1>3, <1>p, ReasonSets, GoTypes DEF DropTask
  <2>2. unsure' \subseteq Reasons
    BY <1>3, ReasonSets DEF DropTask, DeliveryTypeOK
  <2>3. passedOn' \in Nat /\ verdicts' \subseteq {"delivered", "failed"}
    <3>1. passedOn' \in {passedOn, passedOn + 1} /\ verdicts' \subseteq verdicts \cup {"failed"}
      BY <1>3 DEF DropTask
    <3>2. QED  BY <3>1 DEF DeliveryTypeOK
  <2>4. QED  BY <1>3, <2>1, <2>2, <2>3 DEF DropTask, DeliveryTypeOK
<1>4. ASSUME NEW h \in Handlers, Defer(h) \/ Retry(h) PROVE DeliveryTypeOK'
  BY <1>4, <1>p, <1>k, <1>a, ReasonSets, GoTypes DEF Defer, Retry, DeliveryTypeOK
<1>5. ASSUME NEW h \in Handlers, TemplateGone(h) PROVE DeliveryTypeOK'
  BY <1>5, ThrowTypes DEF TemplateGone, DeliveryTypeOK
<1>6. ASSUME NEW h \in Handlers, ProviderAcceptsLate(h) PROVE DeliveryTypeOK'
  <2>1. unsure' \subseteq Reasons /\ accepted' \in Nat
    BY <1>6, ReasonSets DEF ProviderAcceptsLate, DeliveryTypeOK
  <2>2. JobOK
    BY <1>6, NextProviderTypes DEF ProviderAcceptsLate
  <2>3. QED  BY <1>6, <2>1, <2>2, <1>f DEF ProviderAcceptsLate, DeliveryTypeOK
<1>7. ASSUME NEW h \in Handlers, NEW r \in BOOLEAN, ProviderFails(h, r) PROVE DeliveryTypeOK'
  BY <1>7, NextProviderTypes DEF ProviderFails, DeliveryTypeOK
<1>8. ASSUME NEW h \in Handlers, TellDelivered(h) \/ TellInvalid(h) \/ TellLost(h)
      PROVE  DeliveryTypeOK'
  <2>1. JobOK
    BY <1>8, <1>p, ReasonSets, GoTypes DEF TellDelivered, TellInvalid, TellLost
  <2>2. verdicts' \subseteq {"delivered", "failed"}
    BY <1>8 DEF TellDelivered, TellInvalid, TellLost, DeliveryTypeOK
  <2>3. QED
    BY <1>8, <2>1, <2>2 DEF TellDelivered, TellInvalid, TellLost, DeliveryTypeOK
<1>9. ASSUME NEW h \in Handlers, PassToNext(h) PROVE DeliveryTypeOK'
  <2>1. CASE task.chain
    BY <1>9, <2>1, <1>p, ReasonSets, GoTypes DEF PassToNext, DeliveryTypeOK
  <2>2. CASE ~task.chain
    <3>1. unsure' \subseteq Reasons
      BY <1>9, <2>2, <1>d, <1>h DEF PassToNext, DeliveryTypeOK
    <3>2. QED  BY <1>9, <2>2, <3>1, ThrowTypes DEF PassToNext, DeliveryTypeOK
  <2>3. QED  BY <2>1, <2>2
<1>10. ASSUME NEW h \in Handlers, CallFails(h) \/ Crash(h) PROVE DeliveryTypeOK'
  <2>1. unsure' \subseteq Reasons
    BY <1>10, <1>d, <1>h DEF CallFails, Crash, DeliveryTypeOK
  <2>2. QED
    BY <1>10, <2>1, <1>f, ThrowTypes, JobValues DEF CallFails, Crash, DeliveryTypeOK
<1>11. ASSUME NEW h \in Handlers, TellFails(h) \/ SettleFails(h) PROVE DeliveryTypeOK'
  <2>1. unsure' \subseteq Reasons /\ job[h].did \cap {"split"} \in SUBSET Reasons
    BY <1>11, <1>d, <1>h, ReasonSets DEF TellFails, SettleFails, DeliveryTypeOK
  <2>2. JobOK
    BY <1>11, <2>1, <1>p, ReasonSets, GoTypes DEF TellFails, SettleFails
  <2>3. QED  BY <1>11, <2>1, <2>2, <1>f DEF TellFails, SettleFails, DeliveryTypeOK
<1>12. ASSUME NEW h \in Handlers, ParkFails(h) PROVE DeliveryTypeOK'
  <2>1. parked' \in [here : BOOLEAN, known : BOOLEAN, tries : Nat, deferrals : 0..MaxDeferrals]
    <3>1. parked.known \in BOOLEAN
      BY DEF DeliveryTypeOK
    <3>2. CASE UNCHANGED parked  BY <3>2 DEF DeliveryTypeOK
    <3>3. CASE job[h].pc = "retry" /\ ParkAs(AttemptNo(h), CopyOf(h).deferrals, parked.known)
      BY <3>1, <3>3, <1>k, <1>a
    <3>4. CASE job[h].pc = "defer" /\ ParkAs(CopyOf(h).tries, CopyOf(h).deferrals + 1, parked.known)
      BY <3>1, <3>4, <1>k, <1>a
    <3>5. QED  BY <1>12, <3>2, <3>3, <3>4 DEF ParkFails
  <2>2. unsure' \subseteq Reasons
    BY <1>12, ReasonSets DEF ParkFails, DeliveryTypeOK
  <2>3. QED  BY <1>12, <2>1, <2>2, <1>f, ThrowTypes DEF ParkFails, DeliveryTypeOK
<1>13. ASSUME NEW c \in Copies, GiveUpEntry(c) PROVE DeliveryTypeOK'
  BY <1>13 DEF GiveUpEntry, DeliveryTypeOK, TaskEntries
<1>14. CASE ReleaseParked
  <2>1. \A n \in Nat, m \in 0..MaxDeferrals :
          [at |-> "queued", tries |-> n, deferrals |-> m, attempt |-> 0] \in TaskEntries
    BY DeliveryAssumption DEF TaskEntries
  <2>2. 0 \in 0..MaxDeferrals
    BY DeliveryAssumption
  <2>3. QED  BY <1>14, <2>1, <2>2 DEF ReleaseParked, NotParked, DeliveryTypeOK
<1>15. CASE RebuildParked \/ SendKeyExpires
  BY <1>15 DEF RebuildParked, SendKeyExpires, DeliveryTypeOK
<1>16. CASE UNCHANGED deliveryVars
  BY <1>16 DEF deliveryVars, DeliveryTypeOK
<1>17. QED
  BY <1>1, <1>2, <1>3, <1>4, <1>5, <1>6, <1>7, <1>8, <1>9, <1>10, <1>11, <1>12, <1>13, <1>14,
     <1>15, <1>16 DEF DeliveryNext

-----------------------------------------------------------------------------
(* What a step of a handler does to the handlers and their entries.        *)

Others(h) == \A g \in Handlers : g # h => job'[g] = job[g]

\* The handler goes on with the same entry.
Turns(h, pc, did) ==
    /\ Others(h)
    /\ job'[h].pc = pc /\ job'[h].did = did /\ job'[h].copy = job[h].copy

\* The handler lets go of its entry.
Ends(h) == Others(h) /\ job'[h].pc = "free" /\ job'[h].did = {}

LEMMA GoTurns ==
    ASSUME DeliveryTypeOK, NEW h \in Handlers, NEW pc, NEW did, Go(h, pc, did)
    PROVE  Turns(h, pc, did)
BY DEF Go, Turns, Others, DeliveryTypeOK, TaskJobs

LEMMA NextProviderTurns ==
    ASSUME DeliveryTypeOK, NEW h \in Handlers, NEW r, job[h].pc = "send", NextProvider(h, r)
    PROVE  Turns(h, "send", job[h].did) \/ Turns(h, "lost", job[h].did)
<1>1. ASSUME NEW q, job' = [job EXCEPT ![h].provider = q]
      PROVE  Turns(h, "send", job[h].did)
  BY <1>1 DEF Turns, Others, DeliveryTypeOK, TaskJobs
<1>2. ASSUME job' = [job EXCEPT ![h].pc = "lost", ![h].retryable = r]
      PROVE  Turns(h, "lost", job[h].did)
  BY <1>2 DEF Turns, Others, DeliveryTypeOK, TaskJobs
<1>3. QED  BY <1>1, <1>2 DEF NextProvider

LEMMA GateTurns ==
    ASSUME DeliveryTypeOK, NEW h \in Handlers, Gate(h)
    PROVE  \/ Turns(h, "lease", job[h].did) 
           \/ Turns(h, "drop", {})
           \/ Turns(h, "defer", {}) /\ ~(CopyOf(h).deferrals + 1 > MaxDeferrals)
<1>1. ASSUME NEW q, job' = [job EXCEPT ![h].pc = "lease", ![h].provider = q]
      PROVE  Turns(h, "lease", job[h].did)
  BY <1>1 DEF Turns, Others, DeliveryTypeOK, TaskJobs
<1>2. QED  BY <1>1, GoTurns DEF Gate, OutOfRoom

LEMMA FreeEnds ==
    ASSUME DeliveryTypeOK, NEW h \in Handlers, job' = [job EXCEPT ![h] = Free]
    PROVE  Ends(h)
BY DEF Ends, Others, Free, DeliveryTypeOK

\* What happens to an entry that a handler lets go of.
Leaves(h, at) ==
    /\ \A c \in Copies : c # job[h].copy => copy'[c] = copy[c]
    /\ copy'[job[h].copy].at = at

LEMMA ThrowEnds ==
    ASSUME DeliveryTypeOK, NEW h \in Handlers, NEW r \in BOOLEAN, Throw(h, r)
    PROVE  /\ Ends(h)
           /\ copy' = copy \/ Leaves(h, "dead")
           /\ sendKey' = sendKey \/ (UnderLease(h) /\ sendKey' = "none")
<1>1. job[h].copy \in Copies
  BY JobValues DEF DeliveryTypeOK
<1>2. copy' = copy \/ Leaves(h, "dead")
  BY <1>1 DEF Throw, Leaves, DeliveryTypeOK, TaskEntries
<1>3. QED  BY <1>2, FreeEnds DEF Throw

LEMMA TakeEntryTurns ==
    ASSUME DeliveryTypeOK, NEW h \in Handlers, NEW c \in Copies, TakeEntry(h, c)
    PROVE  /\ Others(h)
           /\ job'[h].pc = "gate" /\ job'[h].did = {} /\ job'[h].copy = c
           /\ copy'[c].at = "pending" /\ copy'[c].deferrals = copy[c].deferrals
           /\ \A d \in Copies : d # c => copy'[d] = copy[d]
BY DEF TakeEntry, Others, Free, DeliveryTypeOK, TaskEntries

LEMMA AckEntryEnds ==
    ASSUME DeliveryTypeOK, NEW h \in Handlers, AckEntry(h)
    PROVE  Ends(h) /\ Leaves(h, "acked")
<1>1. job[h].copy \in Copies
  BY JobValues DEF DeliveryTypeOK
<1>2. QED  BY <1>1, FreeEnds DEF AckEntry, Leaves, DeliveryTypeOK, TaskEntries

LEMMA GiveUpLeaves ==
    ASSUME DeliveryTypeOK, NEW c \in Copies, GiveUpEntry(c)
    PROVE  copy'[c].at = "dead" /\ \A d \in Copies : d # c => copy'[d] = copy[d]
BY DEF GiveUpEntry, DeliveryTypeOK, TaskEntries

LEMMA ReleaseQueues ==
    ASSUME DeliveryTypeOK, ReleaseParked
    PROVE  \E c \in Copies :
             /\ copy[c].at = "none" /\ copy'[c].at = "queued" /\ copy'[c].attempt = 0
             /\ \A d \in Copies : d # c => copy'[d] = copy[d]
BY DEF ReleaseParked, DeliveryTypeOK, TaskEntries

-----------------------------------------------------------------------------
(***************************************************************************)
(* The steps as the invariant sees them: where a handler goes, what it did *)
(* and has not recorded, and what becomes of the entry, the key and the    *)
(* history. Each is one action, or the actions that look alike.            *)
(***************************************************************************)

Walks(h) ==
    /\ UNCHANGED <<copy, parked, sendKey, deliveryHistory>>
    /\ \/ /\ job[h].pc = "gate"
          /\ \/ Turns(h, "lease", job[h].did) \/ Turns(h, "drop", {})
             \/ Turns(h, "defer", {}) /\ ~(CopyOf(h).deferrals + 1 > MaxDeferrals)
       \/ /\ job[h].pc \in {"render", "send", "invalid", "lost"}
          /\ \E pc \in {"send", "invalid", "lost", "retry", "pass"}, did \in {{}, job[h].did} :
                Turns(h, pc, did)

Acquires(h) ==
    /\ job[h].pc = "lease" /\ sendKey = "none" /\ sendKey' = "lease"
    /\ Turns(h, "render", {})
    /\ UNCHANGED <<copy, parked, deliveryHistory>>

Skips(h) ==
    /\ job[h].pc = "lease" /\ sendKey = "done"
    /\ Turns(h, "ack", {})
    /\ UNCHANGED <<copy, parked, sendKey, deliveryHistory>>

\* A handler fails, dies or finds the task locked.
Drops(h) ==
    /\ job[h].pc # "free"
    /\ Ends(h)
    /\ copy' = copy \/ Leaves(h, "dead")
    /\ sendKey' = sendKey \/ (UnderLease(h) /\ sendKey' = "none")
    /\ unsure \subseteq unsure'
    /\ \A r \in {"sent", "verdict", "split"} : r \in job[h].did => r \in unsure'
    /\ parked.here => parked'.here
    /\ parked'.here => parked.here \/ "split" \in unsure'
    /\ UNCHANGED <<accepted, verdicts, passedOn>>

Accepts(h) ==
    /\ job[h].pc = "send"
    /\ accepted' = accepted + 1
    /\ \/ Turns(h, "won", {"sent"}) /\ unsure' = unsure
       \/ /\ Turns(h, "send", job[h].did) \/ Turns(h, "lost", job[h].did)
          /\ unsure' = unsure \cup {"sent"}
    /\ UNCHANGED <<copy, parked, sendKey, verdicts, passedOn>>

Tells(h) ==
    /\ \/ /\ job[h].pc = "won" /\ Turns(h, "settle", {"sent", "verdict"})
          /\ verdicts' = verdicts \cup {"delivered"}
       \/ /\ job[h].pc \in {"invalid", "lost"} /\ Turns(h, "pass", {"verdict"})
          /\ verdicts' = verdicts \cup {"failed"}
       \/ job[h].pc = "won" /\ Turns(h, "settle", {"sent"}) /\ UNCHANGED verdicts
    /\ UNCHANGED <<copy, parked, sendKey, accepted, passedOn, unsure>>

Parks(h) ==
    /\ \/ job[h].pc = "retry" /\ Turns(h, "settle", {"split"})
       \/ job[h].pc = "defer" /\ Turns(h, "ack", {"split"})
    /\ parked'.here
    /\ UNCHANGED <<copy, sendKey, deliveryHistory>>

Passes(h) ==
    /\ job[h].pc = "pass" /\ Turns(h, "settle", {"verdict"})
    /\ passedOn' = passedOn + 1
    /\ UNCHANGED <<copy, parked, sendKey, accepted, verdicts, unsure>>

GivesUp(h) ==
    /\ job[h].pc = "drop" /\ Turns(h, "ack", {"verdict"})
    /\ unsure' = unsure \cup IF sendKey = "none" THEN {} ELSE {"unchecked"}
    /\ \/ passedOn' = passedOn + 1 /\ UNCHANGED verdicts
       \/ verdicts' = verdicts \cup {"failed"} /\ UNCHANGED passedOn
    /\ UNCHANGED <<copy, parked, sendKey, accepted>>

Settles(h) ==
    /\ job[h].pc = "settle"
    /\ \/ /\ "split" \in job[h].did /\ sendKey' = "none" /\ Turns(h, "ack", job[h].did)
          /\ UNCHANGED unsure
       \/ /\ "split" \notin job[h].did /\ sendKey' = "done" /\ Turns(h, "ack", {})
          /\ UNCHANGED unsure
       \/ /\ sendKey' = sendKey /\ Turns(h, "ack", job[h].did \cap {"split"})
          /\ unsure' = unsure \cup (job[h].did \ {"split"})
    /\ UNCHANGED <<copy, parked, accepted, verdicts, passedOn>>

Acks(h) ==
    /\ job[h].pc = "ack"
    /\ Ends(h) /\ Leaves(h, "acked")
    /\ UNCHANGED <<parked, sendKey, deliveryHistory>>

Takes(h, c) ==
    /\ job[h].pc = "free" /\ Others(h)
    /\ copy[c].at = "queued" \/ (copy[c].at = "pending" /\ ~Handled(c))
    /\ job'[h].pc = "gate" /\ job'[h].did = {} /\ job'[h].copy = c
    /\ copy'[c].at = "pending" /\ copy'[c].deferrals = copy[c].deferrals
    /\ \A d \in Copies : d # c => copy'[d] = copy[d]
    /\ UNCHANGED <<parked, sendKey, deliveryHistory>>

Dies(c) ==
    /\ copy[c].at = "pending" /\ ~Handled(c) /\ copy'[c].at = "dead"
    /\ \A d \in Copies : d # c => copy'[d] = copy[d]
    /\ UNCHANGED <<parked, job, sendKey, deliveryHistory>>

Returns(c) ==
    /\ parked.here /\ ~parked'.here
    /\ copy[c].at = "none" /\ copy'[c].at = "queued" /\ copy'[c].attempt = 0
    /\ \A d \in Copies : d # c => copy'[d] = copy[d]
    /\ UNCHANGED <<job, sendKey, deliveryHistory>>

Rests ==
    /\ parked'.here = parked.here
    /\ \/ sendKey' = sendKey
       \/ sendKey = "lease" /\ sendKey' = "none" /\ \A h \in Handlers : ~UnderLease(h)
    /\ UNCHANGED <<copy, job, deliveryHistory>>

StepView ==
    \/ \E h \in Handlers :
          \/ Walks(h) \/ Acquires(h) \/ Skips(h) \/ Drops(h) \/ Accepts(h) \/ Tells(h) \/ Parks(h)
          \/ Passes(h) \/ GivesUp(h) \/ Settles(h) \/ Acks(h) \/ \E c \in Copies : Takes(h, c)
    \/ \E c \in Copies : Dies(c) \/ Returns(c)
    \/ Rests

LEMMA EveryStep ==
    ASSUME DeliveryTypeOK, DidFits, [DeliveryNext]_deliveryVars PROVE StepView
<1> USE DEF deliveryHistory
<1>1. ASSUME NEW h \in Handlers, NEW c \in Copies, TakeEntry(h, c) PROVE Takes(h, c)
  BY <1>1, TakeEntryTurns DEF Takes, TakeEntry
<1>2. ASSUME NEW h \in Handlers, Gate(h) PROVE Walks(h)
  BY <1>2, GateTurns DEF Walks, Gate
<1>3. ASSUME NEW h \in Handlers, DropTask(h) PROVE GivesUp(h)
  BY <1>3, GoTurns DEF GivesUp, DropTask
<1>4. ASSUME NEW h \in Handlers, Defer(h) \/ Retry(h) PROVE Parks(h)
  BY <1>4, GoTurns DEF Parks, Defer, Retry, ParkAs
<1>5. ASSUME NEW h \in Handlers, TakeLease(h) PROVE Acquires(h) \/ Skips(h) \/ Drops(h)
  <2>1. CASE sendKey = "none"  BY <1>5, <2>1, GoTurns DEF TakeLease, Acquires
  <2>2. CASE sendKey = "done"  BY <1>5, <2>2, GoTurns DEF TakeLease, Skips
  <2>3. CASE sendKey = "lease"
    BY <1>5, <2>3, FreeEnds DEF TakeLease, Drops, DidFits
  <2>4. QED  BY <1>5, <2>1, <2>2, <2>3 DEF TakeLease
<1>6. ASSUME NEW h \in Handlers, Render(h) PROVE Walks(h)
  BY <1>6, GoTurns DEF Walks, Render
<1>7. ASSUME NEW h \in Handlers, TemplateGone(h) PROVE Drops(h)
  BY <1>7, ThrowEnds DEF Drops, TemplateGone, DidFits
<1>8. ASSUME NEW h \in Handlers, ProviderAccepts(h) \/ ProviderAcceptsLate(h) PROVE Accepts(h)
  BY <1>8, GoTurns, NextProviderTurns DEF Accepts, ProviderAccepts, ProviderAcceptsLate
<1>9. ASSUME NEW h \in Handlers, TokenRejected(h) PROVE Walks(h)
  BY <1>9, GoTurns DEF Walks, TokenRejected
<1>10. ASSUME NEW h \in Handlers, NEW r \in BOOLEAN, ProviderFails(h, r) PROVE Walks(h)
  BY <1>10, NextProviderTurns DEF Walks, ProviderFails
<1>11. ASSUME NEW h \in Handlers, TellDelivered(h) \/ TellInvalid(h) PROVE Tells(h)
  BY <1>11, GoTurns DEF Tells, TellDelivered, TellInvalid
<1>12. ASSUME NEW h \in Handlers, TellLost(h) PROVE Walks(h) \/ Tells(h)
  BY <1>12, GoTurns DEF Walks, Tells, TellLost
<1>13. ASSUME NEW h \in Handlers, PassToNext(h) PROVE Passes(h) \/ Drops(h)
  <2>1. CASE task.chain   BY <1>13, <2>1, GoTurns DEF PassToNext, Passes
  <2>2. CASE ~task.chain  BY <1>13, <2>2, ThrowEnds DEF PassToNext, Drops
  <2>3. QED  BY <2>1, <2>2
<1>14. ASSUME NEW h \in Handlers, Settle(h) \/ SettleFails(h) PROVE Settles(h)
  BY <1>14, GoTurns DEF Settles, Settle, SettleFails
<1>15. ASSUME NEW h \in Handlers, AckEntry(h) PROVE Acks(h)
  BY <1>15, AckEntryEnds DEF Acks, AckEntry
<1>16. ASSUME NEW h \in Handlers, CallFails(h) PROVE Drops(h)
  BY <1>16, ThrowEnds DEF Drops, CallFails
<1>17. ASSUME NEW h \in Handlers, TellFails(h) PROVE Tells(h) \/ Walks(h)
  BY <1>17, GoTurns DEF Tells, Walks, TellFails
<1>18. ASSUME NEW h \in Handlers, ParkFails(h) PROVE Drops(h)
  <2>1. parked'.here = parked.here \/ (parked'.here /\ "split" \in unsure')
    BY <1>18 DEF ParkFails, ParkAs
  <2>2. job[h].pc \in {"retry", "defer"} /\ unsure \subseteq unsure' /\ Throw(h, TRUE)
        /\ UNCHANGED <<accepted, verdicts, passedOn>>
    BY <1>18 DEF ParkFails
  <2>3. QED  BY <2>1, <2>2, ThrowEnds DEF Drops, DidFits
<1>19. ASSUME NEW h \in Handlers, Crash(h) PROVE Drops(h)
  BY <1>19, FreeEnds DEF Drops, Crash
<1>20. ASSUME NEW c \in Copies, GiveUpEntry(c) PROVE Dies(c)
  BY <1>20, GiveUpLeaves DEF Dies, GiveUpEntry
<1>21. CASE ReleaseParked
  <2>1. \E c \in Copies : Returns(c)
    BY <1>21, ReleaseQueues DEF Returns, ReleaseParked, NotParked
  <2>2. QED  BY <2>1 DEF StepView
<1>22. CASE RebuildParked \/ SendKeyExpires \/ UNCHANGED deliveryVars
  <2>1. Rests
    BY <1>22 DEF Rests, RebuildParked, SendKeyExpires, deliveryVars, DeliveryTypeOK
  <2>2. QED  BY <2>1 DEF StepView
<1>23. QED
  BY <1>1, <1>2, <1>3, <1>4, <1>5, <1>6, <1>7, <1>8, <1>9, <1>10, <1>11, <1>12, <1>13, <1>14,
     <1>15, <1>16, <1>17, <1>18, <1>19, <1>20, <1>21, <1>22 DEF DeliveryNext, StepView

-----------------------------------------------------------------------------
(* Each part of the invariant is kept.                                     *)

LEMMA FreshKept == ASSUME DeliveryInv, StepView PROVE Fresh'
<1>c. \A h \in Handlers : job[h].copy \in Copies
  BY JobValues DEF DeliveryInv, DeliveryTypes, DeliveryTypeOK
<1> USE <1>c DEF DeliveryInv, DeliveryTypes, Fresh, CopyOf
<1>1. ASSUME NEW h \in Handlers, Walks(h) PROVE Fresh'
  <2>1. CopyOf(h).deferrals \in Nat /\ MaxDeferrals \in Nat
    BY DeliveryAssumption DEF TaskEntries, DeliveryTypeOK
  <2>2. QED  BY <1>1, <2>1 DEF Walks, Turns, Others
<1>2. ASSUME NEW h \in Handlers,
             \/ Acquires(h) \/ Skips(h) \/ Accepts(h) \/ Tells(h) \/ Parks(h) \/ Passes(h)
             \/ GivesUp(h) \/ Settles(h)
      PROVE  Fresh'
  BY <1>2 DEF Acquires, Skips, Accepts, Tells, Parks, Passes, GivesUp, Settles, Turns, Others
<1>3. ASSUME NEW h \in Handlers, Drops(h) \/ Acks(h) PROVE Fresh'
  BY <1>3 DEF Drops, Acks, Ends, Others, Leaves, OwnEntries
<1>4. ASSUME NEW h \in Handlers, NEW c \in Copies, Takes(h, c) PROVE Fresh'
  BY <1>4 DEF Takes, Others
<1>5. ASSUME NEW c \in Copies, Dies(c) PROVE Fresh'
  BY <1>5 DEF Dies, Handled
<1>6. ASSUME NEW c \in Copies, Returns(c) PROVE Fresh'
  BY <1>6 DEF Returns, OwnEntries
<1>7. CASE Rests  BY <1>7 DEF Rests
<1>8. QED  BY <1>1, <1>2, <1>3, <1>4, <1>5, <1>6, <1>7 DEF StepView

LEMMA OwnEntriesKept == ASSUME DeliveryInv, StepView PROVE OwnEntries'
<1>c. \A h \in Handlers : job[h].copy \in Copies
  BY JobValues DEF DeliveryInv, DeliveryTypes, DeliveryTypeOK
<1> USE <1>c DEF DeliveryInv, OwnEntries, CopyOf
<1>1. ASSUME NEW h \in Handlers,
             \/ Walks(h) \/ Acquires(h) \/ Skips(h) \/ Accepts(h) \/ Tells(h) \/ Parks(h)
             \/ Passes(h) \/ GivesUp(h) \/ Settles(h)
      PROVE  OwnEntries'
  <2>1. /\ copy' = copy /\ Others(h)
        /\ job[h].pc # "free" /\ job'[h].copy = job[h].copy
    BY <1>1 DEF Walks, Acquires, Skips, Accepts, Tells, Parks, Passes, GivesUp, Settles, Turns
  <2>2. QED  BY <2>1 DEF Others
<1>2. ASSUME NEW h \in Handlers, Drops(h) \/ Acks(h) PROVE OwnEntries'
  BY <1>2 DEF Drops, Acks, Ends, Others, Leaves
<1>3. ASSUME NEW h \in Handlers, NEW c \in Copies, Takes(h, c) PROVE OwnEntries'
  BY <1>3 DEF Takes, Others, Handled
<1>4. ASSUME NEW c \in Copies, Dies(c) PROVE OwnEntries'
  BY <1>4 DEF Dies, Handled
<1>5. ASSUME NEW c \in Copies, Returns(c) PROVE OwnEntries'
  BY <1>5 DEF Returns
<1>6. CASE Rests  BY <1>6 DEF Rests
<1>7. QED  BY <1>1, <1>2, <1>3, <1>4, <1>5, <1>6 DEF StepView

LEMMA LeaseHeldKept == ASSUME DeliveryInv, StepView PROVE LeaseHeld'
<1> USE DEF DeliveryInv, LeaseHeld, UnderLease
<1>1. ASSUME NEW h \in Handlers, Walks(h) PROVE LeaseHeld'
  BY <1>1 DEF Walks, Turns, Others
<1>2. ASSUME NEW h \in Handlers, Acquires(h) \/ Skips(h) \/ GivesUp(h) PROVE LeaseHeld'
  BY <1>2 DEF Acquires, Skips, GivesUp, Turns, Others
<1>3. ASSUME NEW h \in Handlers, Accepts(h) \/ Tells(h) \/ Parks(h) \/ Passes(h)
      PROVE  LeaseHeld'
  BY <1>3 DEF Accepts, Tells, Parks, Passes, Turns, Others
<1>4. ASSUME NEW h \in Handlers, Settles(h) PROVE LeaseHeld'
  BY <1>4 DEF Settles, Turns, Others
<1>5. ASSUME NEW h \in Handlers, Drops(h) \/ Acks(h) PROVE LeaseHeld'
  BY <1>5 DEF Drops, Acks, Ends, Others
<1>6. ASSUME NEW h \in Handlers, NEW c \in Copies, Takes(h, c) PROVE LeaseHeld'
  BY <1>6 DEF Takes, Others
<1>7. ASSUME NEW c \in Copies, Dies(c) \/ Returns(c) PROVE LeaseHeld'
  BY <1>7 DEF Dies, Returns
<1>8. CASE Rests  BY <1>8 DEF Rests
<1>9. QED  BY <1>1, <1>2, <1>3, <1>4, <1>5, <1>6, <1>7, <1>8 DEF StepView

LEMMA DidFitsKept == ASSUME DeliveryInv, StepView PROVE DidFits'
<1> USE DEF DeliveryInv, DeliveryTypes, DeliveryTypeOK, DidFits
<1>1. ASSUME NEW h \in Handlers, Walks(h) PROVE DidFits'
  BY <1>1 DEF Walks, Turns, Others, deliveryHistory
<1>2. ASSUME NEW h \in Handlers, Acquires(h) \/ Skips(h) \/ GivesUp(h) \/ Parks(h) \/ Passes(h)
      PROVE  DidFits'
  BY <1>2 DEF Acquires, Skips, GivesUp, Parks, Passes, Turns, Others, deliveryHistory
<1>3. ASSUME NEW h \in Handlers, Accepts(h) PROVE DidFits'
  BY <1>3 DEF Accepts, Turns, Others
<1>4. ASSUME NEW h \in Handlers, Tells(h) PROVE DidFits'
  BY <1>4 DEF Tells, Turns, Others
<1>5. ASSUME NEW h \in Handlers, Settles(h) PROVE DidFits'
  BY <1>5 DEF Settles, Turns, Others
<1>6. ASSUME NEW h \in Handlers, Drops(h) \/ Acks(h) PROVE DidFits'
  BY <1>6 DEF Drops, Acks, Ends, Others, deliveryHistory
<1>7. ASSUME NEW h \in Handlers, NEW c \in Copies, Takes(h, c) PROVE DidFits'
  BY <1>7 DEF Takes, Others, deliveryHistory
<1>8. ASSUME NEW c \in Copies, Dies(c) \/ Returns(c) PROVE DidFits'
  BY <1>8 DEF Dies, Returns, deliveryHistory
<1>9. CASE Rests  BY <1>9 DEF Rests, deliveryHistory
<1>10. QED
  BY <1>1, <1>2, <1>3, <1>4, <1>5, <1>6, <1>7, <1>8, <1>9 DEF StepView

LEMMA AcceptedKnownKept == ASSUME DeliveryInv, StepView PROVE AcceptedKnown'
<1> USE DEF DeliveryInv, AcceptedKnown
<1>a. accepted \in Nat
  BY DEF DeliveryTypes, DeliveryTypeOK
<1>1. ASSUME NEW h \in Handlers, Walks(h) PROVE AcceptedKnown'
  BY <1>1 DEF Walks, Turns, Others, deliveryHistory
<1>2. ASSUME NEW h \in Handlers, Acquires(h) \/ Skips(h) \/ GivesUp(h) \/ Parks(h) \/ Passes(h)
      PROVE  AcceptedKnown'
  BY <1>2 DEF Acquires, Skips, GivesUp, Parks, Passes, Turns, Others, deliveryHistory
<1>3. ASSUME NEW h \in Handlers, Accepts(h) PROVE AcceptedKnown'
  BY <1>3 DEF Accepts, Turns, Others
<1>4. ASSUME NEW h \in Handlers, Tells(h) PROVE AcceptedKnown'
  BY <1>4 DEF Tells, Turns, Others
<1>5. ASSUME NEW h \in Handlers, Settles(h) PROVE AcceptedKnown'
  <2>1. UnderLease(h) /\ sendKey = "lease"
    BY <1>5 DEF Settles, LeaseHeld, UnderLease
  <2>2. \A g \in Handlers : job[g].pc \in {"won", "settle"} => g = h
    BY <2>1 DEF LeaseHeld, UnderLease
  <2>3. QED  BY <1>5, <2>1, <2>2 DEF Settles, DidFits
<1>6. ASSUME NEW h \in Handlers, Drops(h) PROVE AcceptedKnown'
  BY <1>6 DEF Drops, Ends, Others, LeaseHeld
<1>7. ASSUME NEW h \in Handlers, Acks(h) PROVE AcceptedKnown'
  BY <1>7 DEF Acks, Ends, Others, deliveryHistory
<1>8. ASSUME NEW h \in Handlers, NEW c \in Copies, Takes(h, c) PROVE AcceptedKnown'
  BY <1>8 DEF Takes, Others, deliveryHistory
<1>9. ASSUME NEW c \in Copies, Dies(c) \/ Returns(c) PROVE AcceptedKnown'
  BY <1>9 DEF Dies, Returns, deliveryHistory
<1>10. CASE Rests  BY <1>10 DEF Rests, deliveryHistory, UnderLease
<1>11. QED
  BY <1>1, <1>2, <1>3, <1>4, <1>5, <1>6, <1>7, <1>8, <1>9, <1>10 DEF StepView

(***************************************************************************)
(* How a step changes what is open.                                        *)
(***************************************************************************)
Same == \A c \in Copies : Open(c)' <=> Open(c)

LEMMA OpenStays ==
    ASSUME DeliveryInv, NEW h \in Handlers,
           \/ Walks(h) \/ Acquires(h) \/ Skips(h) \/ Accepts(h) \/ Tells(h) \/ Passes(h)
           \/ GivesUp(h) \/ Settles(h)
    PROVE  Same /\ job[h].copy \in Copies
<1>1. job[h].copy \in Copies
  BY JobValues DEF DeliveryInv, DeliveryTypes, DeliveryTypeOK
<1>2. copy' = copy /\ Others(h) /\ job'[h].copy = job[h].copy
  BY DEF Walks, Acquires, Skips, Accepts, Tells, Passes, GivesUp, Settles, Turns
<1>3. Leaving(h)' <=> Leaving(h)
  BY DEF Walks, Acquires, Skips, Accepts, Tells, Passes, GivesUp, Settles, Turns, Leaving,
         DeliveryInv, DidFits
<1>4. \A g \in Handlers : (Leaving(g)' <=> Leaving(g)) /\ job'[g].copy = job[g].copy
  BY <1>2, <1>3 DEF Others, Leaving
<1>5. QED  BY <1>1, <1>2, <1>4 DEF Same, Open

\* A handler that is not leaving has an open entry.
LEMMA BusyIsOpen ==
    ASSUME DeliveryInv, NEW h \in Handlers, job[h].pc # "free", ~Leaving(h)
    PROVE  job[h].copy \in Copies /\ Open(job[h].copy)
<1>1. job[h].copy \in Copies
  BY JobValues DEF DeliveryInv, DeliveryTypes, DeliveryTypeOK
<1>2. QED  BY <1>1 DEF Open, Leaving, DeliveryInv, OwnEntries, CopyOf

LEMMA OpenShrinks ==
    ASSUME DeliveryInv, NEW h \in Handlers,
           Parks(h) \/ Acks(h) \/ (Drops(h) /\ "split" \notin job[h].did)
    PROVE  \A c \in Copies :
              /\ c # job[h].copy => (Open(c)' <=> Open(c))
              /\ c = job[h].copy /\ Open(c)' => Open(c) /\ Drops(h)
<1>1. job[h].copy \in Copies /\ Others(h) /\ job[h].pc # "free" /\ copy[job[h].copy].at = "pending"
  BY JobValues DEF DeliveryInv, DeliveryTypes, DeliveryTypeOK, OwnEntries, CopyOf, Parks, Turns,
     Acks, Drops, Ends
<1>2. \A c \in Copies : c # job[h].copy => copy'[c] = copy[c]
  BY DEF Parks, Acks, Drops, Leaves
<1>3. \A g \in Handlers : g # h => (Leaving(g)' <=> Leaving(g)) /\ job'[g].copy = job[g].copy
  BY <1>1 DEF Others, Leaving
<1>4. ~Leaving(h)' \/ (Parks(h) /\ job'[h].copy = job[h].copy)
  BY DEF Leaving, Parks, Turns, Acks, Drops, Ends
<1>5. ASSUME NEW c \in Copies, c # job[h].copy PROVE Open(c)' <=> Open(c)
  BY <1>2, <1>3, <1>4, <1>5 DEF Open
<1>6. ASSUME NEW c \in Copies, c = job[h].copy, Parks(h) PROVE ~Open(c)'
  BY <1>6 DEF Parks, Turns, Open, Leaving
<1>7. ASSUME NEW c \in Copies, c = job[h].copy, Acks(h) PROVE ~Open(c)'
  BY <1>7 DEF Acks, Leaves, Open
<1>8. Drops(h) /\ "split" \notin job[h].did => Open(job[h].copy)
  BY <1>1, BusyIsOpen DEF Leaving
<1>9. QED  BY <1>5, <1>6, <1>7, <1>8

LEMMA TakenIsOpen ==
    ASSUME DeliveryInv, NEW h \in Handlers, NEW c \in Copies, Takes(h, c)
    PROVE  Same /\ Open(c)
<1>1. \A g \in Handlers : job[g].pc # "free" => job[g].copy # c
  BY DEF Takes, Handled, DeliveryInv, OwnEntries, CopyOf
<1>2. Open(c)
  BY <1>1 DEF Takes, Open, Leaving
<1>3. \A g \in Handlers : g # h => job'[g] = job[g]
  BY DEF Takes, Others
<1>4. ~Leaving(h) /\ ~Leaving(h)'
  BY DEF Takes, Leaving
<1>5. \A g \in Handlers : (Leaving(g)' <=> Leaving(g)) /\ (Leaving(g) => job'[g].copy = job[g].copy)
  BY <1>3, <1>4 DEF Leaving
<1>6. Open(c)'
  BY <1>1, <1>5 DEF Takes, Open, Leaving
<1>7. \A d \in Copies : d # c => (Open(d)' <=> Open(d))
  BY <1>5 DEF Takes, Open
<1>8. QED  BY <1>2, <1>6, <1>7 DEF Same

LEMMA OpenElse ==
    ASSUME DeliveryInv
    PROVE  /\ \A c \in Copies : Dies(c) =>
                  ~Open(c)' /\ \A d \in Copies : d # c => (Open(d)' <=> Open(d))
           /\ \A c \in Copies : Returns(c) =>
                  /\ Open(c)' /\ ~Open(c)
                  /\ \A d \in Copies : d # c => (Open(d)' <=> Open(d))
           /\ Rests => Same
<1>1. ASSUME NEW c \in Copies, Dies(c)
      PROVE  ~Open(c)' /\ \A d \in Copies : d # c => (Open(d)' <=> Open(d))
  BY <1>1 DEF Dies, Open, Leaving
<1>2. ASSUME NEW c \in Copies, Returns(c)
      PROVE  /\ Open(c)' /\ ~Open(c)
             /\ \A d \in Copies : d # c => (Open(d)' <=> Open(d))
  <2>1. \A h \in Handlers : ~(Leaving(h) /\ job[h].copy = c)
    BY <1>2 DEF Returns, Leaving, DeliveryInv, OwnEntries, CopyOf
  <2>2. QED  BY <1>2, <2>1 DEF Returns, Open, Leaving
<1>3. ASSUME Rests PROVE Same
  BY <1>3 DEF Rests, Same, Open, Leaving
<1>4. QED  BY <1>1, <1>2, <1>3

LEMMA OneOpenKept == ASSUME DeliveryInv, StepView PROVE OneOpen'
<1> SUFFICES ASSUME unsure' = {}
             PROVE  /\ \A c, d \in Copies : Open(c)' /\ Open(d)' => c = d
                    /\ parked'.here => \A c \in Copies : ~Open(c)'
  BY DEF OneOpen
<1>1. ASSUME NEW h \in Handlers,
             \/ Walks(h) \/ Acquires(h) \/ Skips(h) \/ Accepts(h) \/ Tells(h) \/ Passes(h)
             \/ GivesUp(h) \/ Settles(h)
      PROVE  OneOpen'
  <2>1. unsure = {} /\ parked' = parked
    BY <1>1 DEF Walks, Acquires, Skips, Accepts, Tells, Passes, GivesUp, Settles, deliveryHistory
  <2>2. QED  BY <1>1, <2>1, OpenStays DEF Same, OneOpen, DeliveryInv
<1>2. ASSUME NEW h \in Handlers, Parks(h) PROVE OneOpen'
  <2>1. unsure = {}
    BY <1>2 DEF Parks, deliveryHistory
  <2>2. ~Leaving(h) /\ job[h].pc # "free"
    BY <1>2 DEF Parks, Leaving
  <2>3. \A c \in Copies : Open(c) => c = job[h].copy
    BY <2>1, <2>2, BusyIsOpen DEF OneOpen, DeliveryInv
  <2>4. \A c \in Copies : ~Open(c)'
    BY <1>2, <2>3, OpenShrinks DEF Parks, Drops, Ends, Turns
  <2>5. QED  BY <2>4 DEF OneOpen
<1>3. ASSUME NEW h \in Handlers, Drops(h) PROVE OneOpen'
  <2>1. unsure = {} /\ "split" \notin job[h].did /\ (parked'.here => parked.here)
    BY <1>3 DEF Drops
  <2>2. QED  BY <1>3, <2>1, OpenShrinks DEF OneOpen, DeliveryInv
<1>4. ASSUME NEW h \in Handlers, Acks(h) PROVE OneOpen'
  <2>1. unsure = {} /\ parked' = parked
    BY <1>4 DEF Acks, deliveryHistory
  <2>2. QED  BY <1>4, <2>1, OpenShrinks DEF OneOpen, DeliveryInv
<1>5. ASSUME NEW h \in Handlers, NEW c \in Copies, Takes(h, c) PROVE OneOpen'
  <2>1. unsure = {} /\ parked' = parked
    BY <1>5 DEF Takes, deliveryHistory
  <2>2. QED  BY <1>5, <2>1, TakenIsOpen DEF Same, OneOpen, DeliveryInv
<1>6. ASSUME NEW c \in Copies, Dies(c) PROVE OneOpen'
  <2>1. unsure = {} /\ parked' = parked
    BY <1>6 DEF Dies, deliveryHistory
  <2>2. QED  BY <1>6, <2>1, OpenElse DEF OneOpen, DeliveryInv
<1>7. ASSUME NEW c \in Copies, Returns(c) PROVE OneOpen'
  <2>1. unsure = {} /\ parked.here /\ ~parked'.here
    BY <1>7 DEF Returns, deliveryHistory
  <2>2. QED  BY <1>7, <2>1, OpenElse DEF OneOpen, DeliveryInv
<1>8. CASE Rests
  <2>1. unsure = {} /\ parked'.here = parked.here
    BY <1>8 DEF Rests, deliveryHistory
  <2>2. QED  BY <1>8, <2>1, OpenElse DEF Same, OneOpen, DeliveryInv
<1>9. QED
  BY <1>1, <1>2, <1>3, <1>4, <1>5, <1>6, <1>7, <1>8 DEF StepView, OneOpen

LEMMA SomewhereKept == ASSUME DeliveryInv, StepView PROVE Somewhere'
<1> USE DEF deliveryHistory
<1>a. accepted \in Nat /\ passedOn \in Nat
  BY DEF DeliveryInv, DeliveryTypes, DeliveryTypeOK
<1>b. Known => Known'
  BY <1>a DEF StepView, Known, Walks, Acquires, Skips, Drops, Accepts, Tells, Parks, Passes, GivesUp,
     Settles, Acks, Takes, Dies, Returns, Rests
<1>c. Known => Somewhere'
  BY <1>b DEF Somewhere
<1>1. ASSUME NEW h \in Handlers,
             \/ Walks(h) \/ Acquires(h) \/ Skips(h) \/ Accepts(h) \/ Tells(h) \/ Passes(h)
             \/ GivesUp(h) \/ Settles(h)
      PROVE  Somewhere'
  <2>1. copy' = copy /\ parked' = parked
    BY <1>1 DEF Walks, Acquires, Skips, Accepts, Tells, Passes, GivesUp, Settles
  <2>2. QED  BY <1>1, <1>c, <2>1, OpenStays DEF Same, Somewhere, DeliveryInv
<1>2. ASSUME NEW h \in Handlers, Parks(h) PROVE Somewhere'
  BY <1>2 DEF Parks, Somewhere
<1>3. ASSUME NEW h \in Handlers, Drops(h) PROVE Somewhere'
  <2>1. job[h].copy \in Copies /\ copy[job[h].copy].at = "pending"
    BY <1>3, JobValues DEF DeliveryInv, DeliveryTypes, DeliveryTypeOK, OwnEntries, CopyOf, Drops
  <2>2. CASE Leaves(h, "dead")  BY <2>1, <2>2 DEF Leaves, Somewhere
  <2>3. CASE copy' = copy
    <3>1. \A c \in Copies : Open(c) => Open(c)'
      <4>1. ASSUME NEW c \in Copies, Open(c), NEW g \in Handlers, Leaving(g)', job'[g].copy = c
            PROVE  FALSE
        BY <1>3, <4>1 DEF Drops, Ends, Others, Leaving, Open
      <4>2. QED  BY <2>3, <4>1 DEF Open
    <3>2. QED  BY <1>3, <1>c, <2>3, <3>1 DEF Drops, Somewhere, DeliveryInv
  <2>4. QED  BY <1>3, <2>2, <2>3 DEF Drops
<1>4. ASSUME NEW h \in Handlers, Acks(h) PROVE Somewhere'
  <2>1. CASE Leaving(h)
    <3>1. ~Open(job[h].copy)
      BY <2>1 DEF Open
    <3>2. \A c \in Copies : Open(c) => Open(c)'
      BY <1>4, <3>1, OpenShrinks
    <3>3. copy[job[h].copy].at = "pending"
      BY <1>4 DEF Acks, DeliveryInv, OwnEntries, CopyOf
    <3>4. \A c \in Copies : copy[c].at = "dead" => copy'[c].at = "dead"
      BY <1>4, <3>3 DEF Acks, Leaves
    <3>5. parked' = parked
      BY <1>4 DEF Acks
    <3>6. QED  BY <1>c, <3>2, <3>4, <3>5 DEF Somewhere, DeliveryInv
  <2>2. CASE ~Leaving(h)
    BY <1>4, <1>c, <2>2 DEF Acks, DeliveryInv, SettledIsKnown
  <2>3. QED  BY <2>1, <2>2
<1>5. ASSUME NEW h \in Handlers, NEW c \in Copies, Takes(h, c) PROVE Somewhere'
  BY <1>5, TakenIsOpen DEF Same, Somewhere
<1>6. ASSUME NEW c \in Copies, Dies(c) PROVE Somewhere'
  BY <1>6 DEF Dies, Somewhere
<1>7. ASSUME NEW c \in Copies, Returns(c) PROVE Somewhere'
  BY <1>7, OpenElse DEF Somewhere
<1>8. CASE Rests
  BY <1>8, <1>c, OpenElse DEF Rests, Same, Somewhere, DeliveryInv
<1>9. QED  BY <1>1, <1>2, <1>3, <1>4, <1>5, <1>6, <1>7, <1>8 DEF StepView

LEMMA UnsureGrows == ASSUME StepView, unsure' = {} PROVE unsure = {}
BY DEF StepView, Walks, Acquires, Skips, Drops, Accepts, Tells, Parks, Passes, GivesUp, Settles,
       Acks, Takes, Dies, Returns, Rests, deliveryHistory

LEMMA KnownStays == ASSUME DeliveryInv, StepView, Known PROVE Known'
<1>1. accepted \in Nat /\ passedOn \in Nat
  BY DEF DeliveryInv, DeliveryTypes, DeliveryTypeOK
<1>2. QED
  BY <1>1 DEF StepView, Known, Walks, Acquires, Skips, Drops, Accepts, Tells, Parks, Passes, GivesUp,
     Settles, Acks, Takes, Dies, Returns, Rests, deliveryHistory

LEMMA DoneStays == ASSUME DeliveryInv, StepView, sendKey = "done" PROVE sendKey' = "done"
<1>1. \A h \in Handlers : ~UnderLease(h)
  BY DEF DeliveryInv, LeaseHeld
<1>2. \A h \in Handlers : job[h].pc # "settle"
  BY <1>1 DEF UnderLease
<1>3. QED
  BY <1>1, <1>2 DEF StepView, Walks, Acquires, Skips, Drops, Accepts, Tells, Parks, Passes, GivesUp,
     Settles, Acks, Takes, Dies, Returns, Rests, deliveryHistory

\* A task that is over stays so: nothing is left to be taken, parked or released.
LEMMA OverStays == ASSUME DeliveryInv, StepView, unsure' = {}, Over PROVE Over'
<1>1. \A h \in Handlers : job[h].pc # "free" => Leaving(h)
  BY BusyIsOpen DEF Over
<1>2. ASSUME NEW h \in Handlers,
             \/ Walks(h) \/ Acquires(h) \/ Skips(h) \/ Accepts(h) \/ Tells(h) \/ Passes(h)
             \/ GivesUp(h) \/ Settles(h)
      PROVE  Over'
  <2>1. parked' = parked
    BY <1>2 DEF Walks, Acquires, Skips, Accepts, Tells, Passes, GivesUp, Settles
  <2>2. QED  BY <1>2, <2>1, OpenStays DEF Same, Over
<1>3. ASSUME NEW h \in Handlers, Parks(h) PROVE FALSE
  BY <1>1, <1>3 DEF Parks, Leaving
<1>4. ASSUME NEW h \in Handlers, Drops(h) PROVE Over'
  <2>1. "split" \notin job[h].did /\ (parked'.here => parked.here)
    BY <1>4 DEF Drops
  <2>2. QED  BY <1>4, <2>1, OpenShrinks DEF Over
<1>5. ASSUME NEW h \in Handlers, Acks(h) PROVE Over'
  <2>1. parked' = parked
    BY <1>5 DEF Acks
  <2>2. QED  BY <1>5, <2>1, OpenShrinks DEF Over
<1>6. ASSUME NEW h \in Handlers, NEW c \in Copies, Takes(h, c) PROVE FALSE
  BY <1>6, TakenIsOpen DEF Over
<1>7. ASSUME NEW c \in Copies, Dies(c) PROVE Over'
  BY <1>7, OpenElse DEF Dies, Over
<1>8. ASSUME NEW c \in Copies, Returns(c) PROVE FALSE
  BY <1>8 DEF Returns, Over
<1>9. CASE Rests
  BY <1>9, OpenElse DEF Rests, Same, Over
<1>10. QED  BY <1>2, <1>3, <1>4, <1>5, <1>6, <1>7, <1>8, <1>9 DEF StepView

\* Who gave the verdict goes on to set the mark or to acknowledge the last entry.
Recorded(h) ==
    \/ sendKey' = "done" \/ Over'
    \/ /\ "verdict" \in job'[h].did
       /\ job[h].pc \in {"settle", "ack"} => job'[h].pc \in {"settle", "ack"}

LEMMA VerdictIsRecorded ==
    ASSUME DeliveryInv, StepView, unsure' = {}, NEW h \in Handlers, "verdict" \in job[h].did
    PROVE  Recorded(h)
<1>1. /\ job[h].pc \in {"pass", "settle", "ack"} /\ "split" \notin job[h].did
      /\ unsure = {}
  BY UnsureGrows DEF DeliveryInv, DidFits
<1>2. CASE job'[h] = job[h]
  BY <1>2 DEF Recorded
<1>3. ASSUME Passes(h) PROVE Recorded(h)
  BY <1>3 DEF Passes, Turns, Recorded
<1>4. ASSUME Settles(h) PROVE Recorded(h)
  BY <1>1, <1>4 DEF Settles, Turns, Recorded
<1>5. ASSUME Acks(h) PROVE Recorded(h)
  <2>1. ~Leaving(h) /\ job[h].pc # "free" /\ parked' = parked
    BY <1>1, <1>5 DEF Leaving, Acks
  <2>2. ~parked.here /\ \A c \in Copies : Open(c) => c = job[h].copy
    BY <1>1, <2>1, BusyIsOpen DEF DeliveryInv, OneOpen
  <2>3. \A c \in Copies : ~Open(c)'
    BY <1>5, <2>2, OpenShrinks DEF Acks, Drops, Ends, Leaves
  <2>4. QED  BY <2>1, <2>2, <2>3 DEF Over, Recorded
<1>6. ASSUME Drops(h) PROVE FALSE
  BY <1>6 DEF Drops
<1>7. ASSUME NEW g \in Handlers, g # h, Others(g) PROVE job'[h] = job[h]
  BY <1>7 DEF Others
<1>8. ASSUME NEW g \in Handlers,
             \/ Walks(g) \/ Acquires(g) \/ Skips(g) \/ Drops(g) \/ Accepts(g) \/ Tells(g) \/ Parks(g)
             \/ Passes(g) \/ GivesUp(g) \/ Settles(g) \/ Acks(g) \/ \E c \in Copies : Takes(g, c)
      PROVE  Recorded(h)
  <2>1. Others(g)
    BY <1>8 DEF Walks, Acquires, Skips, Drops, Accepts, Tells, Parks, Passes, GivesUp, Settles, Acks,
       Takes, Turns, Ends
  <2>2. CASE g # h  BY <1>2, <1>7, <2>1, <2>2
  <2>3. CASE g = h
    BY <1>1, <1>3, <1>4, <1>5, <1>6, <1>8, <2>3
       DEF Walks, Acquires, Skips, Accepts, Tells, Parks, GivesUp, Takes
  <2>4. QED  BY <2>2, <2>3
<1>9. ASSUME NEW c \in Copies, Dies(c) \/ Returns(c) PROVE Recorded(h)
  BY <1>2, <1>9 DEF Dies, Returns
<1>10. CASE Rests  BY <1>2, <1>10 DEF Rests
<1>11. QED  BY <1>8, <1>9, <1>10 DEF StepView

LEMMA JudgedIsOverKept == ASSUME DeliveryInv, StepView PROVE JudgedIsOver'
<1> SUFFICES ASSUME unsure' = {}, verdicts' # {}
             PROVE  \/ sendKey' = "done" \/ Over' \/ \E h \in Handlers : "verdict" \in job'[h].did
  BY DEF JudgedIsOver
<1>1. CASE verdicts = {}
  BY <1>1 DEF StepView, Walks, Acquires, Skips, Drops, Accepts, Tells, Parks, Passes, GivesUp,
     Settles, Acks, Takes, Dies, Returns, Rests, Turns, deliveryHistory
<1>2. CASE verdicts # {}
  BY <1>2, UnsureGrows, DoneStays, OverStays, VerdictIsRecorded
     DEF DeliveryInv, JudgedIsOver, Recorded
<1>3. QED  BY <1>1, <1>2

LEMMA PassedIsOverKept == ASSUME DeliveryInv, StepView PROVE PassedIsOver'
<1> SUFFICES ASSUME unsure' = {}, passedOn' > 0
             PROVE  \/ sendKey' = "done" \/ Over'
                    \/ \E h \in Handlers : job'[h].pc \in {"settle", "ack"} /\ "verdict" \in job'[h].did
  BY DEF PassedIsOver
<1>1. CASE passedOn' = passedOn
  BY <1>1, UnsureGrows, DoneStays, OverStays, VerdictIsRecorded
     DEF DeliveryInv, PassedIsOver, Recorded
<1>2. CASE passedOn' # passedOn
  BY <1>2 DEF StepView, Walks, Acquires, Skips, Drops, Accepts, Tells, Parks, Passes, GivesUp,
     Settles, Acks, Takes, Dies, Returns, Rests, Turns, deliveryHistory
<1>3. QED  BY <1>1, <1>2

LEMMA SettledIsKnownKept == ASSUME DeliveryInv, StepView PROVE SettledIsKnown'
<1> USE DEF SettledIsKnown, DeliveryInv
<1>a. accepted \in Nat /\ passedOn \in Nat
  BY DEF DeliveryTypes, DeliveryTypeOK
<1>k. Known => SettledIsKnown'
  BY KnownStays
<1>1. ASSUME NEW h \in Handlers, Walks(h) \/ Acquires(h) \/ Skips(h) \/ Drops(h) \/ Accepts(h) \/ Acks(h)
      PROVE  SettledIsKnown'
  BY <1>1, <1>k DEF Walks, Acquires, Skips, Drops, Accepts, Acks, Turns, Ends, Others, Leaving
<1>2. ASSUME NEW h \in Handlers, Tells(h) PROVE SettledIsKnown'
  <2>1. job[h].pc = "won" => Known
    BY DEF DidFits, Known
  <2>2. QED  BY <1>2, <1>k, <2>1 DEF Tells, Turns, Others, Leaving
<1>3. ASSUME NEW h \in Handlers, Parks(h) PROVE SettledIsKnown'
  BY <1>3, <1>k DEF Parks, Turns, Others, Leaving
<1>4. ASSUME NEW h \in Handlers, Passes(h) \/ GivesUp(h) PROVE SettledIsKnown'
  <2>1. Known'
    BY <1>4, <1>a DEF Passes, GivesUp, Known
  <2>2. QED  BY <2>1
<1>5. ASSUME NEW h \in Handlers, Settles(h) PROVE SettledIsKnown'
  <2>1. CASE "split" \in job[h].did
    <3>1. Leaving(h)' /\ sendKey' # "done" /\ Others(h)
      BY <1>5, <2>1, DoneStays DEF Settles, Turns, Leaving, LeaseHeld, UnderLease
    <3>2. QED  BY <1>k, <3>1 DEF Others, Leaving
  <2>2. CASE "split" \notin job[h].did
    BY <1>5, <1>k, <2>2 DEF Settles, Leaving
  <2>3. QED  BY <2>1, <2>2
<1>6. ASSUME NEW h \in Handlers, NEW c \in Copies, Takes(h, c) PROVE SettledIsKnown'
  BY <1>6, <1>k DEF Takes, Others, Leaving
<1>7. ASSUME NEW c \in Copies, Dies(c) \/ Returns(c) PROVE SettledIsKnown'
  BY <1>7, <1>k DEF Dies, Returns, Leaving
<1>8. CASE Rests  BY <1>8, <1>k DEF Rests, Leaving
<1>9. QED  BY <1>1, <1>2, <1>3, <1>4, <1>5, <1>6, <1>7, <1>8 DEF StepView

-----------------------------------------------------------------------------
(* The theorems.                                                           *)

LEMMA InvInit == DeliveryInit => DeliveryInv
<1> SUFFICES ASSUME DeliveryInit PROVE DeliveryInv
  OBVIOUS
<1>1. 1 \in Copies /\ 0 \in 0..MaxDeferrals /\ 0 \in 0..MaxDeliveries /\ 0 \in 0..MaxFaults
  BY DeliveryAssumption DEF Copies
<1>2. \A c \in Copies : copy[c] = [NoCopy EXCEPT !.at = "queued"] \/ copy[c] = NoCopy
  BY DEF DeliveryInit
<1>3. copy[1].at = "queued" /\ \A c \in Copies : copy[c].at = "queued" => c = 1
  BY <1>1 DEF DeliveryInit, NoCopy
<1>4. NoCopy \in TaskEntries /\ [NoCopy EXCEPT !.at = "queued"] \in TaskEntries
  BY <1>1 DEF NoCopy, TaskEntries
<1>5. copy \in [Copies -> TaskEntries]
  BY <1>4 DEF DeliveryInit
<1>6. \A h \in Handlers : job[h].pc = "free" /\ job[h].did = {}
  BY DEF DeliveryInit, Free
<1>7. parked \in [here : BOOLEAN, known : BOOLEAN, tries : Nat, deferrals : 0..MaxDeferrals]
      /\ ~parked.here
  BY <1>1 DEF DeliveryInit, NotParked
<1>8. DeliveryTypeOK
  BY <1>1, <1>5, <1>7, JobValues DEF DeliveryInit, DeliveryTypeOK
<1>9. Fresh
  BY <1>2, <1>6 DEF Fresh, NoCopy
<1>10. OwnEntries /\ LeaseHeld /\ DidFits
  BY <1>6 DEF OwnEntries, LeaseHeld, UnderLease, DidFits
<1>11. AcceptedKnown /\ JudgedIsOver /\ PassedIsOver /\ SettledIsKnown
  BY <1>6 DEF DeliveryInit, AcceptedKnown, JudgedIsOver, PassedIsOver, SettledIsKnown
<1>12. OneOpen /\ Somewhere
  <2>1. \A c \in Copies : copy[c].at \in {"queued", "pending"} => c = 1
    BY <1>2, <1>3 DEF NoCopy
  <2>2. Open(1)
    BY <1>3, <1>6 DEF Open, Leaving
  <2>3. OneOpen
    BY <1>7, <2>1 DEF OneOpen, Open
  <2>4. QED  BY <1>1, <2>2, <2>3 DEF Somewhere
<1>13. QED  BY <1>8, <1>9, <1>10, <1>11, <1>12 DEF DeliveryInv, DeliveryTypes

LEMMA InvStep == DeliveryInv /\ [DeliveryNext]_deliveryVars => DeliveryInv'
<1> SUFFICES ASSUME DeliveryInv, [DeliveryNext]_deliveryVars PROVE DeliveryInv'
  OBVIOUS
<1>1. DeliveryTypeOK'
  BY TypesStep DEF DeliveryInv
<1>2. StepView
  BY EveryStep DEF DeliveryInv, DeliveryTypes
<1>3. QED
  BY <1>1, <1>2, FreshKept, OwnEntriesKept, LeaseHeldKept, DidFitsKept, AcceptedKnownKept,
     OneOpenKept, JudgedIsOverKept, PassedIsOverKept, SettledIsKnownKept, SomewhereKept
     DEF DeliveryInv, DeliveryTypes

\* The invariant holds in every state of process() and what surrounds it
\* (delivery/main.ts), in particular one handler at most works under the lease.
THEOREM DeliveryHolds == DeliverySpec => []DeliveryInv
BY InvInit, InvStep, PTL DEF DeliverySpec

\* The types of the delivery workers' state (delivery/main.ts, process).
THEOREM DeliveryTyped == DeliverySpec => []DeliveryTypeOK
<1>1. DeliveryInv => DeliveryTypeOK
  BY DEF DeliveryInv, DeliveryTypes
<1>2. QED  BY <1>1, DeliveryHolds, PTL

\* When no entry and no parked row is left, the task came somewhere: whichever
\* call of process() or reschedule() (delivery/main.ts) failed or crashed.
THEOREM NothingIsLost == DeliverySpec => []NotLost
<1>1. DeliveryInv => NotLost
  BY DEF DeliveryInv, Somewhere, Known, Open, NotLost
<1>2. QED  BY <1>1, DeliveryHolds, PTL

\* Before the handler that works on the task has had its say, nobody else had one.
LEMMA NotYet ==
    ASSUME DeliveryInv, NEW h \in Handlers,
           \/ job[h].pc \in {"send", "won", "invalid", "lost", "pass"}
           \/ job[h].pc = "drop" /\ sendKey = "none"
    PROVE  /\ job[h].pc # "won" => accepted = 0 \/ "sent" \in unsure
           /\ job[h].pc # "pass" => verdicts = {} \/ unsure # {}
           /\ passedOn = 0 \/ unsure # {}
<1>1. sendKey # "done" /\ accepted \in Nat /\ passedOn \in Nat
  BY DEF DeliveryInv, DeliveryTypes, DeliveryTypeOK, LeaseHeld, UnderLease
<1>2. \A g \in Handlers : job[g].pc \in {"won", "pass", "settle"} => g = h
  BY DEF DeliveryInv, LeaseHeld, UnderLease
<1>3. ~Over /\ Open(job[h].copy) /\ job[h].copy \in Copies
  BY BusyIsOpen DEF Leaving, Over
<1>4. ASSUME NEW g \in Handlers, unsure = {}, job[g].pc = "ack", "verdict" \in job[g].did
      PROVE  FALSE
  <2>1. ~Leaving(g)
    BY <1>4 DEF Leaving, DeliveryInv, DidFits
  <2>2. job[g].copy = job[h].copy
    BY <1>3, <1>4, <2>1, BusyIsOpen DEF DeliveryInv, OneOpen
  <2>3. QED  BY <1>4, <2>2 DEF DeliveryInv, OwnEntries
<1>5. job[h].pc # "won" => accepted = 0 \/ "sent" \in unsure
  BY <1>1, <1>2 DEF DeliveryInv, AcceptedKnown
<1>6. job[h].pc # "pass" => verdicts = {} \/ unsure # {}
  BY <1>1, <1>2, <1>3, <1>4 DEF DeliveryInv, JudgedIsOver, DidFits
<1>7. passedOn = 0 \/ unsure # {}
  BY <1>1, <1>2, <1>3, <1>4 DEF DeliveryInv, PassedIsOver
<1>8. QED  BY <1>5, <1>6, <1>7

LEMMA PromiseStep ==
    DeliveryInv /\ [DeliveryNext]_deliveryVars => [Promise!PromiseNext]_(Promise!promiseVars)
<1> SUFFICES ASSUME DeliveryInv, [DeliveryNext]_deliveryVars
             PROVE  [Promise!PromiseNext]_(Promise!promiseVars)
  OBVIOUS
<1> USE DEF deliveryHistory
<1>v. StepView
  BY EveryStep DEF DeliveryInv, DeliveryTypes
<1>t. unsure \subseteq Promise!Reasons /\ unsure' \subseteq Promise!Reasons /\ accepted \in Nat
  BY TypesStep DEF DeliveryInv, DeliveryTypes, DeliveryTypeOK, Reasons, Promise!Reasons
<1>l. ASSUME unsure \subseteq unsure', UNCHANGED <<accepted, verdicts, passedOn>>
      PROVE  Promise!PromiseNext
  <2>1. unsure' = unsure \cup unsure'
    BY <1>l
  <2>2. QED  BY <1>t, <1>l, <2>1 DEF Promise!PromiseNext, Promise!Lapse
<1>1. ASSUME NEW h \in Handlers, Drops(h) \/ Settles(h) PROVE Promise!PromiseNext
  BY <1>1, <1>l DEF Drops, Settles
<1>2. ASSUME NEW h \in Handlers, Accepts(h) PROVE Promise!PromiseNext
  <2>1. (accepted = 0 \/ "sent" \in unsure) /\ (verdicts = {} \/ unsure # {})
    BY <1>2, NotYet DEF Accepts
  <2>2. QED  BY <1>2, <2>1 DEF Accepts, Promise!PromiseNext, Promise!Accept
<1>3. ASSUME NEW h \in Handlers, Tells(h) PROVE Promise!PromiseNext
  <2>1. verdicts = {} \/ unsure # {}
    BY <1>3, NotYet DEF Tells
  <2>2. CASE job[h].pc = "won"
    <3>1. accepted > 0
      BY <2>2 DEF DeliveryInv, DidFits
    <3>2. CASE UNCHANGED verdicts  BY <1>3, <1>l, <3>2 DEF Tells
    <3>3. CASE verdicts' = verdicts \cup {"delivered"}
      <4>1. Promise!Judge("delivered")
        BY <1>3, <2>1, <3>1, <3>3 DEF Tells, Promise!Judge
      <4>2. QED  BY <4>1 DEF Promise!PromiseNext
    <3>4. QED  BY <1>3, <2>2, <3>2, <3>3 DEF Tells
  <2>3. CASE job[h].pc \in {"invalid", "lost"}
    <3>1. accepted = 0 \/ unsure # {}
      BY <2>3, NotYet
    <3>2. Promise!Judge("failed")
      BY <1>3, <2>1, <2>3, <3>1 DEF Tells, Promise!Judge
    <3>3. QED  BY <3>2 DEF Promise!PromiseNext
  <2>4. QED  BY <1>3, <2>2, <2>3 DEF Tells
<1>4. ASSUME NEW h \in Handlers, Passes(h) PROVE Promise!PromiseNext
  <2>1. (accepted = 0 /\ passedOn = 0) \/ unsure # {}
    BY <1>4, NotYet DEF Passes
  <2>2. QED  BY <1>4, <2>1 DEF Passes, Promise!PromiseNext, Promise!PassOn
<1>5. ASSUME NEW h \in Handlers, GivesUp(h) PROVE Promise!PromiseNext
  <2>1. unsure' \in {unsure, unsure \cup {"unchecked"}}
    BY <1>5 DEF GivesUp
  <2>2. (accepted = 0 /\ passedOn = 0 /\ verdicts = {}) \/ unsure' # {}
    BY <1>5, NotYet DEF GivesUp
  <2>3. Promise!PassOn \/ Promise!Judge("failed")
    BY <1>5, <2>1, <2>2 DEF GivesUp, Promise!PassOn, Promise!Judge
  <2>4. QED  BY <2>3 DEF Promise!PromiseNext
<1>6. ASSUME UNCHANGED deliveryHistory PROVE UNCHANGED Promise!promiseVars
  BY <1>6 DEF Promise!promiseVars
<1>7. QED
  BY <1>v, <1>1, <1>2, <1>3, <1>4, <1>5, <1>6
     DEF StepView, Walks, Acquires, Skips, Parks, Acks, Takes, Dies, Returns, Rests

\* Leases, retries, parked rows, crashes and late answers of the delivery workers
\* (delivery/main.ts, process) implement the promise: one acceptance, one verdict
\* and one hand-over to the next channel, but for the reasons the promise names.
THEOREM PromiseKept == DeliverySpec => Promised
<1>1. DeliveryInit => Promise!PromiseInit
  BY DEF DeliveryInit, Promise!PromiseInit
<1>2. QED
  BY <1>1, PromiseStep, DeliveryHolds, PTL DEF DeliverySpec, Promised, Promise!PromiseSpec

Kept == INSTANCE DeliveryPromiseProofs WITH
          accepted <- accepted, verdicts <- verdicts, passedOn <- passedOn, unsure <- unsure

\* A provider accepts a task of the workers (delivery/main.ts, process) a second
\* time only if an acceptance went unrecorded.
THEOREM TaskAcceptedOnce == DeliverySpec => []Promise!AcceptedOnce
<1>1. Promised => Kept!PromiseSpec
  BY DEF Promised, Promise!PromiseSpec, Kept!PromiseSpec, Promise!PromiseInit, Kept!PromiseInit,
         Promise!PromiseNext, Kept!PromiseNext, Promise!promiseVars, Kept!promiseVars,
         Promise!Accept, Kept!Accept, Promise!Judge, Kept!Judge, Promise!PassOn, Kept!PassOn,
         Promise!Lapse, Kept!Lapse, Promise!Reasons, Kept!Reasons
<1>2. Kept!PromiseSpec => []Kept!AcceptedOnce
  BY Kept!AcceptedOnceHolds
<1>3. Kept!AcceptedOnce <=> Promise!AcceptedOnce
  BY DEF Kept!AcceptedOnce, Promise!AcceptedOnce
<1>4. QED  BY <1>1, <1>2, <1>3, PromiseKept, PTL
=============================================================================
