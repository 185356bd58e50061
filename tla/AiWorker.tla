------------------------------ MODULE AiWorker ------------------------------
(***************************************************************************)
(* One notification.ai_pending event in the AI worker (services/ai/main.ts)*)
(* that two consumers can hold, since the stream hands a message that was  *)
(* silent for long to another one. Every prompt is a billed call of at     *)
(* most Timeout ticks; the lease on the task is sized for all of them.     *)
(*                                                                         *)
(* What follows the prompts (the template, the hand-over, the marker) has  *)
(* no timeout of its own: Margin is what the lease leaves for it, and the  *)
(* model assumes that they take less. A message is dead-lettered by the    *)
(* stream after MaxRuns deliveries.                                        *)
(***************************************************************************)
EXTENDS Naturals

CONSTANTS
    Consumers,     \* workers that can hold the message
    Prompts,       \* prompts the event asks for
    MaxPrompts,    \* maxPromptsPerNotification
    Timeout,       \* ticks one generation may take
    Margin,        \* ticks of the lease beyond the generations
    MaxRuns        \* deliveries of the message, then it is a dead letter

ASSUME AiAssumption ==
    /\ {Prompts, MaxPrompts, Timeout, MaxRuns} \subseteq Nat
    /\ Margin \in Nat \ {0}

VARIABLES
    pendingAt,     \* the message: stream, acked or dead
    runs,          \* deliveries so far
    aiLease,       \* ticks the lease has left; 0 is none
    aiDone,        \* the task is marked completed
    aiRun,         \* each consumer's run: pc, prompts generated, ticks spent
    tasks,         \* tasks handed on
    toldFailures,          \* failures reported
    billed,        \* history: generations of each prompt
    mishaps        \* history: runs that failed, crashed or could not record

aiVars == <<pendingAt, runs, aiLease, aiDone, aiRun, tasks, toldFailures, billed, mishaps>>

Min2(a, b) == IF a < b THEN a ELSE b
AskedPrompts == Min2(Prompts, MaxPrompts)

\* As LeaseTicks, but for one generation only.
LeaseOfOne == Timeout + Margin

LeaseTicks == Timeout * MaxPrompts + Margin
RunIdle == [pc |-> "idle", generated |-> 0, spent |-> 0]

AiTypeOK ==
    /\ pendingAt \in {"stream", "acked", "dead"}
    /\ runs \in 0..MaxRuns
    /\ aiLease \in 0..LeaseTicks
    /\ aiDone \in BOOLEAN
    /\ aiRun \in [Consumers -> [pc : {"idle", "generate", "handOn", "mark", "ack"},
                                generated : 0..AskedPrompts, spent : 0..(Timeout + Margin)]]
    /\ {tasks, toldFailures, mishaps} \subseteq Nat
    /\ billed \in [1..AskedPrompts -> Nat]

AiInit ==
    /\ pendingAt = "stream"
    /\ runs = 0
    /\ aiLease = 0 /\ aiDone = FALSE
    /\ aiRun = [c \in Consumers |-> RunIdle]
    /\ tasks = 0 /\ toldFailures = 0 /\ mishaps = 0
    /\ billed = [p \in 1..AskedPrompts |-> 0]

\* acquireLease on the task: completed is acknowledged, locked is left pending.
AiBegin(c) ==
    /\ aiRun[c].pc = "idle" /\ pendingAt = "stream" /\ runs < MaxRuns
    /\ runs' = runs + 1
    /\ \/ /\ aiDone
          /\ pendingAt' = "acked"
          /\ UNCHANGED <<aiLease, aiRun>>
       \/ /\ ~aiDone /\ aiLease > 0
          /\ UNCHANGED <<pendingAt, aiLease, aiRun>>
       \/ /\ ~aiDone /\ aiLease = 0
          /\ aiLease' = LeaseTicks
          /\ aiRun' = [aiRun EXCEPT ![c] = [RunIdle EXCEPT !.pc = IF AskedPrompts = 0 THEN "handOn" ELSE "generate"]]
          /\ UNCHANGED pendingAt
    /\ UNCHANGED <<aiDone, tasks, toldFailures, billed, mishaps>>

\* The next prompt is billed and answered; after the last the task is built.
Generated(c) ==
    /\ aiRun[c].pc = "generate"
    /\ LET n == aiRun[c].generated + 1 IN
       /\ billed' = [billed EXCEPT ![n] = @ + 1]
       /\ aiRun' = [aiRun EXCEPT ![c] = [pc |-> IF n = AskedPrompts THEN "handOn" ELSE "generate",
                                         generated |-> n, spent |-> 0]]
    /\ UNCHANGED <<pendingAt, runs, aiLease, aiDone, tasks, toldFailures, mishaps>>

\* A generation fails or is aborted, and may be billed for all that. The lease is
\* released; a failure that is permanent is then reported and acknowledged, any
\* other is thrown, and so is a failure of the release.
GenerationFails(c) ==
    /\ aiRun[c].pc = "generate"
    /\ billed' \in {billed, [billed EXCEPT ![aiRun[c].generated + 1] = @ + 1]}
    /\ mishaps' = mishaps + 1
    /\ aiRun' = [aiRun EXCEPT ![c] = RunIdle]
    /\ \/ aiLease' \in {0, aiLease} /\ UNCHANGED <<pendingAt, toldFailures>>
       \/ aiLease' = 0 /\ pendingAt' = "acked" /\ toldFailures' = toldFailures + 1
    /\ UNCHANGED <<runs, aiDone, tasks>>

\* scheduleOrDispatch.
HandOn(c) ==
    /\ aiRun[c].pc = "handOn"
    /\ tasks' = tasks + 1
    /\ aiRun' = [aiRun EXCEPT ![c].pc = "mark"]
    /\ UNCHANGED <<pendingAt, runs, aiLease, aiDone, toldFailures, billed, mishaps>>

MarkTask(c) ==
    /\ aiRun[c].pc = "mark"
    /\ aiDone' = TRUE
    /\ aiLease' = 0
    /\ aiRun' = [aiRun EXCEPT ![c].pc = "ack"]
    /\ UNCHANGED <<pendingAt, runs, tasks, toldFailures, billed, mishaps>>

AiAck(c) ==
    /\ aiRun[c].pc = "ack"
    /\ pendingAt' = IF pendingAt = "dead" THEN "dead" ELSE "acked"
    /\ aiRun' = [aiRun EXCEPT ![c] = RunIdle]
    /\ UNCHANGED <<runs, aiLease, aiDone, tasks, toldFailures, billed, mishaps>>

\* The template, the hand-over or the marker fails: the lease is released, if that
\* does not fail as well, and the error thrown.
AiCallFails(c) ==
    /\ aiRun[c].pc \in {"handOn", "mark"}
    /\ aiLease' \in {0, aiLease}
    /\ mishaps' = mishaps + 1
    /\ aiRun' = [aiRun EXCEPT ![c] = RunIdle]
    /\ UNCHANGED <<pendingAt, runs, aiDone, tasks, toldFailures, billed>>

AiCrash(c) ==
    /\ aiRun[c].pc # "idle"
    /\ mishaps' = mishaps + 1
    /\ aiRun' = [aiRun EXCEPT ![c] = RunIdle]
    /\ UNCHANGED <<pendingAt, runs, aiLease, aiDone, tasks, toldFailures, billed>>

\* The stream gives the message up when its deliveries are spent and no run is left.
AiGiveUp ==
    /\ pendingAt = "stream" /\ runs = MaxRuns
    /\ \A c \in Consumers : aiRun[c].pc = "idle"
    /\ pendingAt' = "dead"
    /\ UNCHANGED <<runs, aiLease, aiDone, aiRun, tasks, toldFailures, billed, mishaps>>

\* A tick of the clock: a generation is aborted after Timeout of them.
AiTick ==
    /\ aiLease > 0
    /\ \A c \in Consumers :
          aiRun[c].pc # "idle" => aiRun[c].spent < IF aiRun[c].pc = "generate" THEN Timeout ELSE Margin - 1
    /\ aiLease' = aiLease - 1
    /\ aiRun' = [c \in Consumers |->
                    IF aiRun[c].pc = "idle" THEN aiRun[c] ELSE [aiRun[c] EXCEPT !.spent = @ + 1]]
    /\ UNCHANGED <<pendingAt, runs, aiDone, tasks, toldFailures, billed, mishaps>>

AiNext ==
    \/ AiTick \/ AiGiveUp
    \/ \E c \in Consumers :
          \/ AiBegin(c) \/ Generated(c) \/ GenerationFails(c) \/ HandOn(c) \/ MarkTask(c)
          \/ AiAck(c) \/ AiCallFails(c) \/ AiCrash(c)

AiSpec == AiInit /\ [][AiNext]_aiVars

(***************************************************************************)
(* Properties                                                              *)
(***************************************************************************)

\* No prompt is billed again, and the task is not handed on again, unless an
\* earlier run failed: no second consumer takes the message over while the first
\* still generates (the lease, ai/main.ts:136-142).
PaidOnce ==
    /\ \A p \in 1..AskedPrompts : billed[p] <= 1 + mishaps
    /\ tasks <= 1 + mishaps

\* A message that is acknowledged has been handed on or reported as failed, not
\* retried into silence (ai/main.ts:253-267).
Accounted == pendingAt = "acked" => tasks > 0 \/ toldFailures > 0

\* What a message costs and what becomes of it, however often it is delivered.
PaidAndAccounted == PaidOnce /\ Accounted
=============================================================================
