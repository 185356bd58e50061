---------------------------- MODULE StreamWorker ----------------------------
(***************************************************************************)
(* A Redis stream read by one consumer group, and the workers that drain   *)
(* it: StreamConsumer and PendingMessageScanner (queue/index.ts),          *)
(* BaseWorker (workers/index.ts) and the IdempotencyGuard                  *)
(* (idempotency/index.ts) every stage takes before it does its work.       *)
(*                                                                         *)
(* An entry is identified by m \in Msgs.  Every delivery of an entry (the  *)
(* XREADGROUP, then each XCLAIM of the recovery scan) starts one in-memory *)
(* task, and Redis numbers the deliveries, so a task is a pair <<m, d>>.   *)
(* Several entries may carry the same idempotency key (KeyOf).             *)
(*                                                                         *)
(* Time is counted in ticks: `idle' is the PEL idle time of an entry and   *)
(* `ttl' what is left of a short-lived key.  Both are relative, so the     *)
(* state space is finite and time may pass for ever.                       *)
(***************************************************************************)
EXTENDS Integers, FiniteSets

CONSTANTS
  Msgs,           \* stream entries
  Keys,           \* idempotency keys
  KeyOf,          \* the key an entry's event carries
  Workers,        \* processes of this stage
  Mode,           \* "lease": delivery, AI.  "mark": enricher, engine
  BufferAcks,     \* StreamConsumerOptions.bufferAcks
  Concurrency,    \* permits of the worker's semaphore
  MaxRetries,     \* maxRetriesBeforeDlq
  ReclaimIdle,    \* recoveryIntervalMs, in ticks
  LeaseTtl,       \* TTL of the short lease or mark, in ticks
  MaxDeliveries,  \* bound: delivery counts told apart
  MaxFaults       \* bound: crashes, shutdowns and failed Redis calls

ASSUME StreamWorkerAssumption ==
  /\ KeyOf \in [Msgs -> Keys]
  /\ Mode \in {"lease", "mark"}
  /\ BufferAcks \in BOOLEAN
  /\ Concurrency \in Nat \ {0}
  /\ MaxRetries \in Nat \ {0}
  /\ ReclaimIdle \in Nat \ {0}
  /\ LeaseTtl \in Nat \ {0}
  /\ MaxDeliveries \in Nat /\ MaxDeliveries > MaxRetries
  /\ MaxFaults \in Nat

VARIABLES
  where,    \* "new", "unread", "pending" (in the PEL), "acked" (XACK without XDEL), "gone"
  count,    \* PEL delivery count of an entry
  idle,     \* PEL idle time of an entry
  dlq,      \* copies of an entry on the dead-letter stream
  key,      \* value of an idempotency key: "none", "L" or "1"
  ttl,      \* ticks before a short-lived key expires (0: the long TTL)
  task,     \* task[m][d]: the in-memory handling of delivery d of m
  ackBuf,   \* StreamConsumer.ackBuffers
  listing,  \* what a worker's XPENDING returned: [m |-> count], 0 when absent
  status,   \* WorkerState
  faults,   \* how many faults have happened
  effects,  \* history: how often the work of a key was carried out
  excused   \* history: keys that lost the protection of their mark

redis == <<where, count, idle, dlq>>
guard == <<key, ttl>>
local == <<task, ackBuf, listing, status>>
history == <<effects, excused>>
vars == <<where, count, idle, dlq, key, ttl, task, ackBuf, listing, status,
          faults, effects, excused>>

Deliveries == 1..MaxDeliveries

Pcs == {"none", "waiting", "begin", "working", "mark", "ack", "unmark",
        "unmarkNack", "nack", "nacked"}

Task == [pc : Pcs, owner : Workers \union {"nobody"}, count : Nat]

NoTask == [pc |-> "none", owner |-> "nobody", count |-> 0]

\* Tasks inside processWithTracking hold a permit of the worker's semaphore.
Running(m, d) == task[m][d].pc \notin {"none", "waiting"}

\* Tasks inside process(): the lease timer of processHoldingLease is running.
Holding(m, d) ==
  task[m][d].pc \in {"begin", "working", "mark", "unmark", "unmarkNack"}

\* Tasks that took the key and have not yet turned it into "1" or released it.
InProcess(m, d) == task[m][d].pc \in {"working", "mark", "unmark", "unmarkNack"}

Permits(w) ==
  Cardinality({p \in Msgs \X Deliveries :
                 Running(p[1], p[2]) /\ task[p[1]][p[2]].owner = w})

\* Messages read or claimed by w that wait for a permit.
Queued(w) ==
  {p \in Msgs \X Deliveries :
     task[p[1]][p[2]].pc = "waiting" /\ task[p[1]][p[2]].owner = w}

Init ==
  /\ where = [m \in Msgs |-> "new"]
  /\ count = [m \in Msgs |-> 0]
  /\ idle = [m \in Msgs |-> 0]
  /\ dlq = [m \in Msgs |-> 0]
  /\ key = [k \in Keys |-> "none"]
  /\ ttl = [k \in Keys |-> 0]
  /\ task = [m \in Msgs |-> [d \in Deliveries |-> NoTask]]
  /\ ackBuf = [w \in Workers |-> {}]
  /\ listing = [w \in Workers |-> [m \in Msgs |-> 0]]
  /\ status = [w \in Workers |-> "running"]
  /\ faults = 0
  /\ effects = [k \in Keys |-> 0]
  /\ excused = [k \in Keys |-> FALSE]

-----------------------------------------------------------------------------
(* The stream: XADD, XREADGROUP, the PEL scan and the passage of time.     *)

\* StreamProducer.publish: XADD.
Publish(m) ==
  /\ where[m] = "new"
  /\ where' = [where EXCEPT ![m] = "unread"]
  /\ UNCHANGED <<count, idle, dlq, guard, local, faults, history>>

NewTask(w, c) == [pc |-> "waiting", owner |-> w, count |-> c]

\* readBatch: XREADGROUP moves an unread entry into the PEL, idle time 0, and
\* consume() queues it behind the semaphore.  msg.deliveryCount = 1.
Read(w, m) ==
  /\ status[w] = "running"
  /\ where[m] = "unread"
  /\ where' = [where EXCEPT ![m] = "pending"]
  /\ count' = [count EXCEPT ![m] = 1]
  /\ idle' = [idle EXCEPT ![m] = 0]
  /\ task' = [task EXCEPT ![m][1] = NewTask(w, 1)]
  /\ UNCHANGED <<dlq, guard, ackBuf, listing, status, faults, history>>

\* autoclaim's filter: the back-off doubles with every delivery.
Eligible(m) ==
  /\ where[m] = "pending"
  /\ idle[m] > ReclaimIdle * 2^(count[m] - 1)

\* recover() -> autoclaim, first half: XPENDING and the filter.  Ends at once
\* when nothing qualifies; the `recovering' flag admits one scan per worker.
ScanList(w) ==
  /\ status[w] = "running"
  /\ \A m \in Msgs : listing[w][m] = 0
  /\ \E m \in Msgs : Eligible(m)
  /\ listing' = [listing EXCEPT ![w] =
       [m \in Msgs |-> IF Eligible(m) THEN count[m] ELSE 0]]
  /\ UNCHANGED <<redis, guard, task, ackBuf, status, faults, history>>

\* The number of the next delivery.  Counts from MaxDeliveries on, all of them
\* past MaxRetries, are not told apart.
NextDelivery(m) == IF count[m] < MaxDeliveries THEN count[m] + 1 ELSE MaxDeliveries

\* What XCLAIM with min-idle-time returns: Redis checks the entry again.
Claimed(w) ==
  {m \in Msgs : /\ listing[w][m] > 0
                /\ where[m] = "pending"
                /\ idle[m] >= ReclaimIdle
                /\ task[m][NextDelivery(m)].pc = "none"}

\* Mutant: the claimed messages are not processed.
ScanClaimMutant(w) ==
  /\ status[w] \in {"running", "stopping"}
  /\ \E m \in Msgs : listing[w][m] > 0
  /\ count' = [m \in Msgs |-> IF m \in Claimed(w) THEN NextDelivery(m) ELSE count[m]]
  /\ idle' = [m \in Msgs |-> IF m \in Claimed(w) THEN 0 ELSE idle[m]]
  /\ listing' = [listing EXCEPT ![w] = [m \in Msgs |-> 0]]
  /\ UNCHANGED <<where, dlq, guard, task, ackBuf, status, faults, history>>

\* autoclaim, second half: XCLAIM, then the messages queue for the semaphore
\* with the count read by XPENDING plus one.  A worker told to stop meanwhile
\* leaves what it claimed in the PEL.
ScanClaim(w) ==
  /\ status[w] \in {"running", "stopping"}
  /\ \E m \in Msgs : listing[w][m] > 0
  /\ count' = [m \in Msgs |-> IF m \in Claimed(w) THEN NextDelivery(m) ELSE count[m]]
  /\ idle' = [m \in Msgs |-> IF m \in Claimed(w) THEN 0 ELSE idle[m]]
  /\ task' = [m \in Msgs |->
       IF m \in Claimed(w) /\ status[w] = "running"
       THEN [task[m] EXCEPT ![NextDelivery(m)] = NewTask(w, listing[w][m] + 1)]
       ELSE task[m]]
  /\ listing' = [listing EXCEPT ![w] = [m \in Msgs |-> 0]]
  /\ UNCHANGED <<where, dlq, guard, ackBuf, status, faults, history>>

\* processHoldingLease: XCLAIM min-idle 0 JUSTID, which leaves the count alone.
Touch(m, d) ==
  /\ Holding(m, d)
  /\ where[m] = "pending"
  /\ idle' = [idle EXCEPT ![m] = 0]
  /\ UNCHANGED <<where, count, dlq, guard, local, faults, history>>

\* The idle time of an eligible entry need not be counted further: no comparison
\* tells it apart from a longer one.  A short-lived key that runs out under a
\* task inside process() no longer protects it: `excused' remembers that.
Tick ==
  /\ idle' = [m \in Msgs |-> IF where[m] = "pending" /\ ~Eligible(m)
                             THEN idle[m] + 1 ELSE idle[m]]
  /\ ttl' = [k \in Keys |-> IF ttl[k] > 0 THEN ttl[k] - 1 ELSE 0]
  /\ key' = [k \in Keys |-> IF ttl[k] = 1 THEN "none" ELSE key[k]]
  /\ excused' = [k \in Keys |->
       excused[k] \/ (ttl[k] = 1 /\ \E m \in Msgs, d \in Deliveries :
                                       KeyOf[m] = k /\ InProcess(m, d))]
  /\ UNCHANGED <<where, count, dlq, local, faults, effects>>

\* The long TTL of a processed key runs out.
ForgetKey(k) ==
  /\ key[k] = "1"
  /\ ttl[k] = 0
  /\ key' = [key EXCEPT ![k] = "none"]
  /\ excused' = [excused EXCEPT ![k] = TRUE]
  /\ UNCHANGED <<redis, ttl, local, faults, effects>>

-----------------------------------------------------------------------------
(* processWithTracking and the handler it runs.                            *)

SetPc(m, d, p) ==
  task' = [task EXCEPT ![m][d] = [pc |-> p, owner |-> task[m][d].owner,
                                  count |-> task[m][d].count]]
EndTask(m, d) == task' = [task EXCEPT ![m][d] = NoTask]

Fault == faults < MaxFaults /\ faults' = faults + 1

\* semaphore.acquire, then the poison-pill test on the delivery count.
Acquire(m, d) ==
  /\ task[m][d].pc = "waiting"
  /\ Permits(task[m][d].owner) < Concurrency
  /\ SetPc(m, d, IF task[m][d].count > MaxRetries THEN "nack" ELSE "begin")
  /\ UNCHANGED <<redis, guard, ackBuf, listing, status, faults, history>>

SetKey(k, v, t) ==
  /\ key' = [key EXCEPT ![k] = v]
  /\ ttl' = [ttl EXCEPT ![k] = t]

\* The guard's Redis call fails before it changes anything: the handler throws.
GuardFails(m, d) ==
  /\ task[m][d].pc = "begin"
  /\ Fault
  /\ EndTask(m, d)
  /\ UNCHANGED <<redis, guard, ackBuf, listing, status, history>>

\* Mutant: SET without NX.
TakeKeyMutantNX(m, d) ==
  /\ task[m][d].pc = "begin"
  /\ SetKey(KeyOf[m], "L", LeaseTtl)
  /\ SetPc(m, d, "working")
  /\ UNCHANGED <<redis, ackBuf, listing, status, faults, history>>

\* Mutant: the lease is written as a mark.
TakeKeyMutantMark(m, d) ==
  /\ task[m][d].pc = "begin"
  /\ key[KeyOf[m]] = "none"
  /\ SetKey(KeyOf[m], "1", LeaseTtl)
  /\ SetPc(m, d, "working")
  /\ UNCHANGED <<redis, ackBuf, listing, status, faults, history>>

\* acquireLease / checkAndMark on a free key: SET NX EX.
TakeKey(m, d) ==
  /\ task[m][d].pc = "begin"
  /\ key[KeyOf[m]] = "none"
  /\ SetKey(KeyOf[m], IF Mode = "lease" THEN "L" ELSE "1", LeaseTtl)
  /\ \/ SetPc(m, d, "working") /\ UNCHANGED faults
     \/ EndTask(m, d) /\ Fault      \* the reply is lost: the handler throws
  /\ UNCHANGED <<redis, ackBuf, listing, status, history>>

\* The key says "1": a duplicate, acknowledged without work.
Duplicate(m, d) ==
  /\ task[m][d].pc = "begin"
  /\ key[KeyOf[m]] = "1"
  /\ SetPc(m, d, "ack")
  /\ UNCHANGED <<redis, guard, ackBuf, listing, status, faults, history>>

\* The key says "L": { ack: false }, the entry stays pending.
Locked(m, d) ==
  /\ task[m][d].pc = "begin"
  /\ key[KeyOf[m]] = "L"
  /\ EndTask(m, d)
  /\ UNCHANGED <<redis, guard, ackBuf, listing, status, faults, history>>

\* The handler's work succeeds: the downstream publish, or the send.
Work(m, d) ==
  /\ task[m][d].pc = "working"
  /\ effects' = [effects EXCEPT ![KeyOf[m]] = @ + 1]
  /\ SetPc(m, d, "mark")
  /\ UNCHANGED <<redis, guard, ackBuf, listing, status, faults, excused>>

\* The handler throws: a retryable error, or a NonRetryableError.
WorkFails(m, d) ==
  /\ task[m][d].pc = "working"
  /\ \E pc \in {"unmark", "unmarkNack"} : SetPc(m, d, pc)
  /\ UNCHANGED <<redis, guard, ackBuf, listing, status, faults, history>>

\* catch: unmark is an unconditional DEL; its own failure is swallowed.
Unmark(m, d) ==
  /\ task[m][d].pc \in {"unmark", "unmarkNack"}
  /\ \/ SetKey(KeyOf[m], "none", 0) /\ UNCHANGED faults
     \/ UNCHANGED guard /\ Fault
  /\ IF task[m][d].pc = "unmark" THEN EndTask(m, d) ELSE SetPc(m, d, "nack")
  /\ UNCHANGED <<redis, ackBuf, listing, status, history>>

\* markProcessed: SET "1" with the long TTL, then the handler returns.
MarkProcessed(m, d) ==
  /\ task[m][d].pc = "mark"
  /\ SetKey(KeyOf[m], "1", 0)
  /\ SetPc(m, d, "ack")
  /\ UNCHANGED <<redis, ackBuf, listing, status, faults, history>>

\* markProcessed throws after the work was done: the catch unmarks (engine,
\* AI) or the key keeps its short TTL (enricher).
MarkFails(m, d) ==
  /\ task[m][d].pc = "mark"
  /\ Fault
  /\ \/ SetPc(m, d, "unmark")
     \/ EndTask(m, d)
  /\ excused' = [excused EXCEPT ![KeyOf[m]] = TRUE]
  /\ UNCHANGED <<redis, guard, ackBuf, listing, status, effects>>

\* ackAndDelete: XACK then XDEL, both, only the first, or neither.
AckAndDelete(ids) ==
  \/ /\ where' = [m \in Msgs |-> IF m \in ids THEN "gone" ELSE where[m]]
     /\ UNCHANGED faults
  \/ /\ where' = [m \in Msgs |-> IF m \in ids /\ where[m] = "pending"
                                 THEN "acked" ELSE where[m]]
     /\ Fault
  \/ UNCHANGED where /\ Fault

\* Mutant: the buffer is given the delivery number instead of the entry id.
AckMutant(m, d) ==
  /\ task[m][d].pc = "ack"
  /\ EndTask(m, d)
  /\ ackBuf' = [ackBuf EXCEPT ![task[m][d].owner] = @ \union {d}]
  /\ UNCHANGED <<redis, guard, listing, status, faults, history>>

\* ack(): straight to Redis, or into the ack buffer.
Ack(m, d) ==
  /\ task[m][d].pc = "ack"
  /\ EndTask(m, d)
  /\ IF BufferAcks
     THEN /\ ackBuf' = [ackBuf EXCEPT ![task[m][d].owner] = @ \union {m}]
          /\ UNCHANGED <<where, faults>>
     ELSE AckAndDelete({m}) /\ UNCHANGED ackBuf
  /\ UNCHANGED <<count, idle, dlq, guard, listing, status, history>>

\* flushAcks: the buffer is emptied first and a failure is only logged.
FlushAcks(w) ==
  /\ ackBuf[w] # {}
  /\ AckAndDelete(ackBuf[w])
  /\ ackBuf' = [ackBuf EXCEPT ![w] = {}]
  /\ UNCHANGED <<count, idle, dlq, guard, task, listing, status, history>>

\* Mutant: a failed dead-letter write is logged and the entry acknowledged.
NackMutant(m, d) ==
  /\ task[m][d].pc = "nack"
  /\ \/ dlq' = [dlq EXCEPT ![m] = @ + 1] /\ UNCHANGED faults
     \/ UNCHANGED dlq /\ Fault
  /\ SetPc(m, d, "nacked")
  /\ UNCHANGED <<where, count, idle, guard, ackBuf, listing, status, history>>

\* nack, first half: the dead-letter XADD.  Its failure leaves the entry
\* pending, whether or not the write landed.
Nack(m, d) ==
  /\ task[m][d].pc = "nack"
  /\ \/ /\ dlq' = [dlq EXCEPT ![m] = @ + 1]
        /\ \/ SetPc(m, d, "nacked") /\ UNCHANGED faults
           \/ EndTask(m, d) /\ Fault
     \/ UNCHANGED dlq /\ EndTask(m, d) /\ Fault
  /\ UNCHANGED <<where, count, idle, guard, ackBuf, listing, status, history>>

\* nack, second half: ackAndDelete, never buffered.
NackAck(m, d) ==
  /\ task[m][d].pc = "nacked"
  /\ AckAndDelete({m})
  /\ EndTask(m, d)
  /\ UNCHANGED <<count, idle, dlq, guard, ackBuf, listing, status, history>>

-----------------------------------------------------------------------------
(* Processes come and go.                                                  *)

\* stop(): the queued messages are abandoned in the PEL, except the one each of
\* consume() and recover() may already be awaiting a permit for.  What is still
\* running goes on.  consumer.stop() flushes the ack buffer.
Stop(w) ==
  /\ status[w] = "running"
  /\ Fault
  /\ status' = [status EXCEPT ![w] = "stopping"]
  /\ \E kept \in SUBSET Queued(w) :
       /\ Cardinality(kept) =< 2
       /\ task' = [m \in Msgs |-> [d \in Deliveries |->
            IF <<m, d>> \in Queued(w) \ kept THEN NoTask ELSE task[m][d]]]
  /\ where' \in {[m \in Msgs |-> IF m \in ackBuf[w] THEN "gone" ELSE where[m]], where}
  /\ ackBuf' = [ackBuf EXCEPT ![w] = {}]
  /\ UNCHANGED <<count, idle, dlq, guard, listing, history>>

\* The process is gone, with everything it held in memory.
Gone(w) ==
  /\ status' = [status EXCEPT ![w] = "stopped"]
  /\ task' = [m \in Msgs |-> [d \in Deliveries |->
       IF task[m][d].owner = w THEN NoTask ELSE task[m][d]]]
  /\ ackBuf' = [ackBuf EXCEPT ![w] = {}]
  /\ listing' = [listing EXCEPT ![w] = [m \in Msgs |-> 0]]

\* A stopping process exits once its tasks have settled and its ack timer fired.
Exit(w) ==
  /\ status[w] = "stopping"
  /\ \A m \in Msgs, d \in Deliveries : task[m][d].owner = w => ~Running(m, d)
  /\ ackBuf[w] = {}
  /\ Gone(w)
  /\ UNCHANGED <<redis, guard, faults, history>>

\* A crash, or the 30 s shutdown timeout.
Crash(w) ==
  /\ status[w] # "stopped"
  /\ Fault
  /\ Gone(w)
  /\ excused' = [k \in Keys |->
       excused[k] \/ \E m \in Msgs, d \in Deliveries :
                       /\ KeyOf[m] = k
                       /\ task[m][d].pc = "mark"
                       /\ task[m][d].owner = w]
  /\ UNCHANGED <<redis, guard, effects>>

\* A new process of the stage: start() -> ensureGroup, recovery scan, consume().
Start(w) ==
  /\ status[w] = "stopped"
  /\ status' = [status EXCEPT ![w] = "running"]
  /\ UNCHANGED <<redis, guard, task, ackBuf, listing, faults, history>>

-----------------------------------------------------------------------------

Step(m, d) ==
  \/ Acquire(m, d) \/ GuardFails(m, d) \/ TakeKey(m, d) \/ Duplicate(m, d) \/ Locked(m, d)
  \/ Work(m, d) \/ WorkFails(m, d) \/ Unmark(m, d)
  \/ MarkProcessed(m, d) \/ MarkFails(m, d)
  \/ Ack(m, d) \/ Nack(m, d) \/ NackAck(m, d)

Process(w) ==
  \/ \E m \in Msgs : Read(w, m)
  \/ ScanList(w) \/ ScanClaim(w) \/ FlushAcks(w)
  \/ Stop(w) \/ Exit(w) \/ Crash(w) \/ Start(w)

Next ==
  \/ Tick
  \/ \E m \in Msgs : Publish(m)
  \/ \E k \in Keys : ForgetKey(k)
  \/ \E m \in Msgs, d \in Deliveries : Touch(m, d) \/ Step(m, d)
  \/ \E w \in Workers : Process(w)

Spec == Init /\ [][Next]_vars

\* Every live process keeps stepping, its timers fire, time passes, and a
\* stopped process is started again by its supervisor.
Fairness ==
  /\ WF_vars(Tick)
  /\ \A m \in Msgs, d \in Deliveries : WF_vars(Step(m, d))
  /\ \A w \in Workers :
       /\ \A m \in Msgs : WF_vars(Read(w, m))
       /\ WF_vars(ScanList(w)) /\ WF_vars(ScanClaim(w))
       /\ WF_vars(FlushAcks(w)) /\ WF_vars(Exit(w)) /\ WF_vars(Start(w))

FairSpec == Spec /\ Fairness

-----------------------------------------------------------------------------

TypeOK ==
  /\ where \in [Msgs -> {"new", "unread", "pending", "acked", "gone"}]
  /\ count \in [Msgs -> 0..MaxDeliveries]
  /\ idle \in [Msgs -> Nat]
  /\ dlq \in [Msgs -> Nat]
  /\ key \in [Keys -> {"none", "L", "1"}]
  /\ ttl \in [Keys -> Nat]
  /\ task \in [Msgs -> [Deliveries -> Task]]
  /\ ackBuf \in [Workers -> SUBSET Msgs]
  /\ listing \in [Workers -> [Msgs -> 0..MaxDeliveries]]
  /\ status \in [Workers -> {"running", "stopping", "stopped"}]
  /\ faults \in 0..MaxFaults
  /\ effects \in [Keys -> Nat]
  /\ excused \in [Keys -> BOOLEAN]

\* README, "Doesn't lose messages": an entry leaves the pending list only when
\* the work of its key was carried out, or a copy is on the dead-letter stream,
\* whatever crashes, reclaims, lost replies and half-applied acks came between.
NoLoss ==
  \A m \in Msgs :
    where[m] \in {"acked", "gone"} => effects[KeyOf[m]] > 0 \/ dlq[m] > 0

\* engine/main.ts:228, "if this process dies, the redelivery must not find it":
\* an entry is taken for a duplicate only if the work of its key was carried
\* out, or a live worker is carrying it out.
DuplicateIsReal ==
  \A m \in Msgs, d \in Deliveries :
    task[m][d].pc = "ack" =>
      \/ effects[KeyOf[m]] > 0
      \/ \E n \in Msgs, e \in Deliveries : KeyOf[n] = KeyOf[m] /\ InProcess(n, e)

\* The work of a key is carried out once, even though its entry is read,
\* reclaimed and redelivered by several workers, unless the mark itself failed:
\* the key ran out under its holder, the process died or Redis failed between
\* the work and markProcessed, or the long TTL passed.
AtMostOnce == \A k \in Keys : effects[k] =< 1 \/ excused[k]

-----------------------------------------------------------------------------
(* Inductive strengthenings, used by StreamWorkerProofs.                   *)

\* Why nothing is lost in "lease" mode: "1" is only ever written after the work,
\* so every reason to acknowledge is backed by an effect or a dead letter.
LossInv ==
  /\ \A k \in Keys : key[k] = "1" => effects[k] > 0
  /\ \A m \in Msgs, d \in Deliveries :
       /\ task[m][d].pc \in {"mark", "ack"} => effects[KeyOf[m]] > 0
       /\ task[m][d].pc = "nacked" => dlq[m] > 0
  /\ \A w \in Workers : \A m \in ackBuf[w] : effects[KeyOf[m]] > 0
  /\ NoLoss

\* A delivered entry only: nothing is in memory before the first read.
FreshInv ==
  \A m \in Msgs : where[m] \in {"new", "unread"} =>
    \A d \in Deliveries : task[m][d].pc = "none"

\* Why the work is done once: as long as no mark failed, a key has at most one
\* task in process, the key is held while it is, and after the work either the
\* task is about to write "1" or "1" is there for good.
OnceAt(k) ==
  /\ \A m, n \in Msgs, d, e \in Deliveries :
       /\ KeyOf[m] = k /\ KeyOf[n] = k
       /\ InProcess(m, d) /\ InProcess(n, e)
       => m = n /\ d = e
  /\ \A m \in Msgs, d \in Deliveries :
       KeyOf[m] = k /\ InProcess(m, d) =>
         /\ key[k] # "none"
         /\ effects[k] = IF task[m][d].pc = "mark" THEN 1 ELSE 0
  /\ effects[k] > 0 =>
       /\ effects[k] = 1
       /\ \/ key[k] = "1" /\ ttl[k] = 0
          \/ \E m \in Msgs, d \in Deliveries : KeyOf[m] = k /\ task[m][d].pc = "mark"

OnceInv == \A k \in Keys : excused[k] \/ OnceAt(k)

-----------------------------------------------------------------------------

\* A stream's backlog drains: every published entry leaves the pending list,
\* processed or dead-lettered, once faults stop.
Drains == \A m \in Msgs : (where[m] = "unread") ~> (where[m] \in {"acked", "gone"})
=============================================================================
