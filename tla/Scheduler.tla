----------------------------- MODULE Scheduler -----------------------------
(***************************************************************************)
(* Parked sends.  The engine (schedule-or-dispatch.ts) and the retries of  *)
(* delivery (delivery/main.ts, reschedule) keep a send that is due later   *)
(* in the PostgreSQL table scheduled_payloads and announce it on the       *)
(* SCHEDULED stream; SchedulerWorker queues the announcement in a Redis    *)
(* sorted set; the poll loop of every scheduler process releases what is   *)
(* due to OUTBOUND, and rebuilds the sorted set from the table when Redis  *)
(* has lost its data (services/scheduler/main.ts).                         *)
(*                                                                         *)
(* A task may be parked several times.  Each park has its own scheduledAt  *)
(* and its own trace id, so a park is a number g, and the member it gets   *)
(* in the sorted set is that number.  The member a rebuild adds carries no *)
(* trace id: it is 0 whatever the park.  Times are ticks from now.         *)
(***************************************************************************)
EXTENDS Integers, FiniteSets

CONSTANTS
  Tasks,       \* task ids
  Procs,       \* scheduler processes
  MaxWait,     \* bound: how far ahead a send is parked, in ticks
  Visibility,  \* visibilityTimeout of a claimed member, in ticks
  LockTtl,     \* EX of notif:lock:scheduler:poll, in ticks
  MaxParks,    \* bound: how often a task is parked
  MaxCopies,   \* bound: copies of a task on OUTBOUND at a time
  MaxFaults    \* bound: crashes, failed calls, losses of the Redis data

ASSUME SchedulerAssumption ==
  /\ MaxWait \in Nat \ {0}
  /\ Visibility \in Nat \ {0}
  /\ LockTtl \in Nat \ {0}
  /\ MaxParks \in Nat \ {0}
  /\ MaxCopies \in Nat \ {0}
  /\ MaxFaults \in Nat
  /\ "none" \notin Procs

VARIABLES
  row,        \* scheduled_payloads: the park whose payload the row holds, 0: no row
  due,        \* ticks until the scheduledAt of each park
  zset,       \* score of each member, in ticks from now; -1: not a member
  scheduled,  \* parks announced on the SCHEDULED stream
  sentinel,   \* notif:scheduler:intact
  lock,       \* owner of notif:lock:scheduler:poll
  lockTtl,    \* ticks before that lock expires
  outbound,   \* entries of a task on OUTBOUND that are not acknowledged
  pc,         \* where the poll loop of a process is
  work,       \* what that poll has read so far
  engine,     \* the engine's handling of the event: "last", "over" once it is lost
  parks,      \* how often a task has been parked
  attempt,    \* delivery's handling of one OUTBOUND entry
  lease,      \* delivery's idempotency key of the task
  optedOut,   \* the recipient may no longer be sent to
  faults,     \* how many faults have happened
  sent,       \* history: sends the provider accepted
  ended,      \* history: tasks that were "canceled", "blocked" or have "failed"
  slips       \* history: races that can lose, repeat or let through a send

table == <<row, due, parks>>
streams == <<scheduled, outbound>>
poll == <<pc, work, lock, lockTtl>>
delivery == <<attempt, lease>>
history == <<sent, ended, slips>>
vars == <<row, due, zset, scheduled, sentinel, lock, lockTtl, outbound, pc,
          work, engine, parks, attempt, lease, optedOut, faults, sent, ended,
          slips>>

Parks == 1..MaxParks
Members == 0..MaxParks

PollSteps == {"idle", "rows", "queue", "seal", "lock", "claim", "load", "gate",
              "publish", "delete", "cleanup", "release"}

NoWork == [batch |-> {}, got |-> [t \in Tasks |-> 0], send |-> {}]

Fault == /\ faults < MaxFaults
         /\ faults' = faults + 1

Slip(s) == slips' = slips \union s

Init ==
  /\ row = [t \in Tasks |-> 0]
  /\ due = [t \in Tasks |-> [g \in Parks |-> 0]]
  /\ zset = [t \in Tasks |-> [g \in Members |-> -1]]
  /\ scheduled = {}
  /\ sentinel = FALSE
  /\ lock = "none"
  /\ lockTtl = 0
  /\ outbound = [t \in Tasks |-> 0]
  /\ pc = [p \in Procs |-> "idle"]
  /\ work = [p \in Procs |-> NoWork]
  /\ engine = [t \in Tasks |-> "new"]
  /\ parks = [t \in Tasks |-> 0]
  /\ attempt = [t \in Tasks |-> "none"]
  /\ lease = [t \in Tasks |-> "none"]
  /\ optedOut = [t \in Tasks |-> FALSE]
  /\ faults = 0
  /\ sent = [t \in Tasks |-> 0]
  /\ ended = {}
  /\ slips = {}

-----------------------------------------------------------------------------
(* The engine: scheduleOrDispatch, and the redelivery of its event.        *)

\* A new park of t, due in n ticks, with the row replaced by its payload.
Park(t, n) ==
  /\ parks[t] < MaxParks
  /\ parks' = [parks EXCEPT ![t] = @ + 1]
  /\ due' = [due EXCEPT ![t][parks[t] + 1] = n]
  /\ row' = [row EXCEPT ![t] = parks[t] + 1]

\* INSERT ... ON CONFLICT DO NOTHING of the payload.
EngineInsert(t) ==
  /\ engine[t] = "new"
  /\ \E n \in 1..MaxWait : Park(t, n)
  /\ engine' = [engine EXCEPT ![t] = "inserted"]
  /\ UNCHANGED <<zset, sentinel, streams, poll, delivery, optedOut, faults,
                 history>>

\* The latest park of t has neither an announcement nor a member.
Unannounced(t) ==
  /\ <<t, parks[t]>> \notin scheduled
  /\ zset[t][0] = -1 /\ zset[t][parks[t]] = -1

\* checkAndMark has set the mark of the event, for a minute, before the work: a
\* redelivery that finds it is acknowledged as a duplicate, and a row whose
\* announcement was still to come is left without one, unless a rebuild is yet
\* to read it.
EngineSkips(t) ==
  /\ engine[t] = "again"
  /\ engine' = [engine EXCEPT ![t] = "done"]
  /\ Slip(IF /\ row[t] = 1 /\ Unannounced(t)
             /\ sentinel \/ \E p \in Procs : pc[p] \in {"queue", "seal"}
          THEN {<<t, "skipped">>} ELSE {})
  /\ UNCHANGED <<table, zset, sentinel, streams, poll, delivery, optedOut, faults,
                 sent, ended>>

\* A redelivery after that minute.  The event carries the scheduledAt of the first
\* park.  The row is left alone if it is still there; a time that has passed is
\* dispatched.
EngineAgain(t) ==
  /\ engine[t] = "again"
  /\ \/ /\ due[t][1] > 0
        /\ row' = [row EXCEPT ![t] = IF @ = 0 THEN 1 ELSE @]
        /\ engine' = [engine EXCEPT ![t] = "inserted"]
        /\ UNCHANGED outbound
     \/ /\ due[t][1] = 0
        /\ outbound[t] < MaxCopies
        /\ outbound' = [outbound EXCEPT ![t] = @ + 1]
        /\ engine' = [engine EXCEPT ![t] = "done"]
        /\ UNCHANGED row
  /\ UNCHANGED <<due, parks, zset, scheduled, sentinel, poll, delivery,
                 optedOut, faults, history>>

EngineAnnounce(t) ==
  /\ engine[t] \in {"inserted", "last"}
  /\ scheduled' = scheduled \union {<<t, 1>>}
  /\ engine' = [engine EXCEPT ![t] = IF @ = "last" THEN "over" ELSE "done"]
  /\ UNCHANGED <<table, zset, sentinel, outbound, poll, delivery, optedOut,
                 faults, history>>

\* The process dies before its entry is acknowledged: it is delivered again,
\* unless Redis has lost the entry in between ("last").
EngineCrash(t) ==
  /\ engine[t] \in {"inserted", "done", "last"}
  /\ Fault
  /\ engine' = [engine EXCEPT ![t] = IF @ = "last" THEN "over" ELSE "again"]
  /\ Slip({<<t, "again">>})
  /\ UNCHANGED <<table, zset, sentinel, streams, poll, delivery, optedOut, sent,
                 ended>>

-----------------------------------------------------------------------------
(* SchedulerWorker.process: ZADD, score scheduledAt.                       *)

Queue(t, g) == zset' = [zset EXCEPT ![t][g] = due[t][g]]

Consume(t, g) ==
  /\ <<t, g>> \in scheduled
  /\ Queue(t, g)
  /\ scheduled' = scheduled \ {<<t, g>>}
  /\ UNCHANGED <<table, sentinel, outbound, poll, engine, delivery, optedOut,
                 faults, history>>

\* The worker dies between the ZADD and the acknowledgement.
ConsumeCrash(t, g) ==
  /\ <<t, g>> \in scheduled
  /\ Fault
  /\ Queue(t, g)
  /\ UNCHANGED <<table, sentinel, streams, poll, engine, delivery, optedOut,
                 history>>

-----------------------------------------------------------------------------
(* The poll loop.  Each step is one call to Redis or PostgreSQL.           *)

Goto(p, from, to) ==
  /\ pc[p] = from
  /\ pc' = [pc EXCEPT ![p] = to]

\* EXISTS notif:scheduler:intact
LookSentinel(p) ==
  /\ Goto(p, "idle", IF sentinel THEN "lock" ELSE "rows")
  /\ UNCHANGED <<table, zset, sentinel, streams, work, lock, lockTtl, engine,
                 delivery, optedOut, faults, history>>

\* Mutant: the sentinel is set before the members are back.
ReadRowsMutant(p) ==
  /\ Goto(p, "rows", "queue")
  /\ work' = [work EXCEPT ![p].got = row]
  /\ sentinel' = TRUE
  /\ UNCHANGED <<table, zset, streams, lock, lockTtl, engine, delivery, optedOut,
                 faults, history>>

\* rebuildScheduledQueue: the page of rows ...
ReadRows(p) ==
  /\ Goto(p, "rows", "queue")
  /\ work' = [work EXCEPT ![p].got = row]
  /\ UNCHANGED <<table, zset, sentinel, streams, lock, lockTtl, engine, delivery,
                 optedOut, faults, history>>

\* Mutant: a rebuilt member is due at once (Date.now()).
RequeueMutant(p) ==
  /\ Goto(p, "queue", "seal")
  /\ zset' = [t \in Tasks |->
                IF work[p].got[t] # 0 /\ zset[t][0] = -1
                THEN [zset[t] EXCEPT ![0] = 0] ELSE zset[t]]
  /\ work' = [work EXCEPT ![p] = NoWork]
  /\ UNCHANGED <<table, sentinel, streams, lock, lockTtl, engine, delivery,
                 optedOut, faults, history>>

\* ... one ZADD NX each, at the time the payload says ...
Requeue(p) ==
  /\ Goto(p, "queue", "seal")
  /\ zset' = [t \in Tasks |->
                IF work[p].got[t] # 0 /\ zset[t][0] = -1
                THEN [zset[t] EXCEPT ![0] = due[t][work[p].got[t]]]
                ELSE zset[t]]
  /\ work' = [work EXCEPT ![p] = NoWork]
  /\ UNCHANGED <<table, sentinel, streams, lock, lockTtl, engine, delivery,
                 optedOut, faults, history>>

\* ... of which any can fail: nobody reads the results of the pipeline.  No bound
\* is needed, for the sentinel ends the rebuild all the same ...
RequeueFails(p) ==
  /\ Goto(p, "queue", "seal")
  /\ \E failed \in SUBSET {t \in Tasks : work[p].got[t] # 0} \ {{}} :
       /\ zset' = [t \in Tasks |->
                     IF t \notin failed /\ work[p].got[t] # 0 /\ zset[t][0] = -1
                     THEN [zset[t] EXCEPT ![0] = due[t][work[p].got[t]]]
                     ELSE zset[t]]
       /\ Slip({<<t, "unqueued">> :
                  t \in {u \in failed : Unannounced(u)}})
  /\ work' = [work EXCEPT ![p] = NoWork]
  /\ UNCHANGED <<table, sentinel, streams, lock, lockTtl, engine, delivery,
                 optedOut, faults, sent, ended>>

\* ... and last the sentinel.
Seal(p) ==
  /\ Goto(p, "seal", "lock")
  /\ sentinel' = TRUE
  /\ UNCHANGED <<table, zset, streams, work, lock, lockTtl, engine, delivery,
                 optedOut, faults, history>>

\* Mutant: SET NX without EX: the lock of a dead poll is never released.
LockPollMutant(p) ==
  /\ \/ /\ lock = "none"
        /\ Goto(p, "lock", "claim")
        /\ lock' = p
        /\ UNCHANGED lockTtl
     \/ /\ lock # "none"
        /\ Goto(p, "lock", "idle")
        /\ UNCHANGED <<lock, lockTtl>>
  /\ UNCHANGED <<table, zset, sentinel, streams, work, engine, delivery, optedOut,
                 faults, history>>

\* executeSchedulerPoll: SET NX EX, with an owner id of this poll.
LockPoll(p) ==
  /\ \/ /\ lock = "none"
        /\ Goto(p, "lock", "claim")
        /\ lock' = p
        /\ lockTtl' = LockTtl
     \/ /\ lock # "none"
        /\ Goto(p, "lock", "idle")
        /\ UNCHANGED <<lock, lockTtl>>
  /\ UNCHANGED <<table, zset, sentinel, streams, work, engine, delivery, optedOut,
                 faults, history>>

DueMembers == {x \in Tasks \X Members : zset[x[1]][x[2]] = 0}

Hide(batch) ==
  [t \in Tasks |-> [g \in Members |->
     IF <<t, g>> \in batch THEN Visibility ELSE zset[t][g]]]

\* schedulerPoll on every shard: what is due becomes invisible for a while.
Claim(p) ==
  /\ Goto(p, "claim", IF DueMembers = {} THEN "release" ELSE "load")
  /\ work' = [work EXCEPT ![p] = [NoWork EXCEPT !.batch = DueMembers]]
  /\ zset' = Hide(DueMembers)
  /\ UNCHANGED <<table, sentinel, streams, lock, lockTtl, engine, delivery,
                 optedOut, faults, history>>

\* The SELECT of the payloads.
Load(p) ==
  /\ Goto(p, "load", "gate")
  /\ work' = [work EXCEPT ![p].got =
                [t \in Tasks |->
                   IF \E g \in Members : <<t, g>> \in work[p].batch
                   THEN row[t] ELSE 0]]
  /\ UNCHANGED <<table, zset, sentinel, streams, lock, lockTtl, engine, delivery,
                 optedOut, faults, history>>

Loaded(p) == {t \in Tasks : work[p].got[t] # 0}

\* Mutant: no re-check at release.
GateMutant(p) ==
  /\ Goto(p, "gate", "publish")
  /\ work' = [work EXCEPT ![p].send = Loaded(p)]
  /\ UNCHANGED <<table, zset, sentinel, streams, lock, lockTtl, engine, delivery,
                 optedOut, faults, history>>

\* findBlockedAtRelease, and the loop that sorts the batch into sends, drops
\* and members whose payload is gone.
Gate(p) ==
  /\ Goto(p, "gate", "publish")
  /\ work' = [work EXCEPT ![p].send = {t \in Loaded(p) : ~optedOut[t]}]
  /\ ended' = ended \union {<<t, "blocked">> : t \in {u \in Loaded(p) : optedOut[u]}}
  /\ UNCHANGED <<table, zset, sentinel, streams, lock, lockTtl, engine, delivery,
                 optedOut, faults, sent, slips>>

\* publishBatch, which reaches the lanes one after the other.
Release(p, t) ==
  /\ pc[p] = "publish"
  /\ t \in work[p].send
  /\ outbound[t] < MaxCopies
  /\ outbound' = [outbound EXCEPT ![t] = @ + 1]
  /\ work' = [work EXCEPT ![p].send = @ \ {t}]
  /\ UNCHANGED <<table, zset, scheduled, sentinel, lock, lockTtl, pc, engine,
                 delivery, optedOut, faults, history>>

Released(p) ==
  /\ work[p].send = {}
  /\ Goto(p, "publish", "delete")
  /\ UNCHANGED <<table, zset, sentinel, streams, work, lock, lockTtl, engine,
                 delivery, optedOut, faults, history>>

\* Mutant: the rows are deleted whatever payload they hold by now.
DeleteMutant(p) ==
  /\ Goto(p, "delete", "cleanup")
  /\ row' = [t \in Tasks |-> IF t \in Loaded(p) THEN 0 ELSE row[t]]
  /\ UNCHANGED <<due, parks, zset, sentinel, streams, work, lock, lockTtl, engine,
                 delivery, optedOut, faults, history>>

\* DELETE of the rows that still hold the payload that was released.
Delete(p) ==
  /\ Goto(p, "delete", "cleanup")
  /\ row' = [t \in Tasks |-> IF row[t] = work[p].got[t] THEN 0 ELSE row[t]]
  /\ UNCHANGED <<due, parks, zset, sentinel, streams, work, lock, lockTtl, engine,
                 delivery, optedOut, faults, history>>

\* A DELETE that fails is only logged: the rows outlive their release.
DeleteFails(p) ==
  /\ Goto(p, "delete", "cleanup")
  /\ Fault
  /\ UNCHANGED <<table, zset, sentinel, streams, work, lock, lockTtl, engine,
                 delivery, optedOut, history>>

\* Every rebuild gives a task the same member, 0: one this poll claimed for an
\* earlier payload is by now the only one of a later park.
TakesAnother(p, t) ==
  /\ row[t] \notin {0, work[p].got[t]}
  /\ <<t, 0>> \in work[p].batch /\ zset[t][0] # -1
  /\ zset[t][row[t]] = -1 /\ <<t, row[t]>> \notin scheduled

\* ZREM of every member of the batch.
Cleanup(p) ==
  /\ Goto(p, "cleanup", "release")
  /\ zset' = [t \in Tasks |-> [g \in Members |->
                IF <<t, g>> \in work[p].batch THEN -1 ELSE zset[t][g]]]
  /\ Slip({<<t, "removed">> : t \in {u \in Tasks : TakesAnother(p, u)}})
  /\ work' = [work EXCEPT ![p] = NoWork]
  /\ UNCHANGED <<table, sentinel, streams, lock, lockTtl, engine, delivery,
                 optedOut, faults, sent, ended>>

\* releaseLock compares the owner, so a later holder keeps the lock.
Unlock(p) ==
  /\ Goto(p, "release", "idle")
  /\ lock' = IF lock = p THEN "none" ELSE lock
  /\ lockTtl' = IF lock = p THEN 0 ELSE lockTtl
  /\ work' = [work EXCEPT ![p] = NoWork]
  /\ UNCHANGED <<table, zset, sentinel, streams, engine, delivery, optedOut,
                 faults, history>>

\* A call that throws before the rows are deleted ends the poll and leaves rows
\* and members for the next one; a lost reply of the claim looks the same.  A
\* pipeline of ZREMs reports its errors in results nobody reads.
PollFails(p) ==
  /\ pc[p] \in {"load", "gate", "publish", "cleanup"}
  /\ Fault
  /\ pc' = [pc EXCEPT ![p] = "release"]
  /\ work' = [work EXCEPT ![p] = NoWork]
  /\ UNCHANGED <<table, zset, sentinel, streams, lock, lockTtl, engine, delivery,
                 optedOut, history>>

\* The process dies; its lock stays until it expires.
Crash(p) ==
  /\ pc[p] # "idle"
  /\ Fault
  /\ pc' = [pc EXCEPT ![p] = "idle"]
  /\ work' = [work EXCEPT ![p] = NoWork]
  /\ lock' = IF lock = p THEN "dead" ELSE lock
  /\ UNCHANGED <<table, zset, sentinel, streams, lockTtl, engine, delivery,
                 optedOut, history>>

-----------------------------------------------------------------------------
(* Delivery of a released send: the provider's budget, the lease, the send *)
(* and reschedule, which parks the task again.                             *)

Holding(t) == attempt[t] \in {"sending", "mark", "retry", "retryAnnounce",
                              "retryDone"}

\* Mutant: an entry Redis no longer has is counted down as well.
AckMutant(t) == outbound' = [outbound EXCEPT ![t] = @ - 1]

\* The entry of this attempt is acknowledged, if Redis still has it.
Ack(t) == outbound' = [outbound EXCEPT ![t] = IF @ = 0 THEN 0 ELSE @ - 1]

Step(t, from, to) ==
  /\ attempt[t] = from
  /\ attempt' = [attempt EXCEPT ![t] = to]

\* Mutant: the key of a completed send is not respected.
TakeMutant(t) ==
  /\ outbound[t] > 0
  /\ lease[t] # "L"
  /\ Step(t, "none", "sending")
  /\ lease' = [lease EXCEPT ![t] = "L"]
  /\ UNCHANGED <<table, zset, sentinel, streams, poll, engine, optedOut, faults,
                 history>>

\* acquireLease.  While another attempt holds it, the entry stays pending.
Take(t) ==
  /\ outbound[t] > 0
  /\ lease[t] = "none"
  /\ Step(t, "none", "sending")
  /\ lease' = [lease EXCEPT ![t] = "L"]
  /\ UNCHANGED <<table, zset, sentinel, streams, poll, engine, optedOut, faults,
                 history>>

\* "completed": the entry is acknowledged as a duplicate.
Completed(t) ==
  /\ outbound[t] > 0
  /\ attempt[t] = "none"
  /\ lease[t] = "1"
  /\ Ack(t)
  /\ UNCHANGED <<table, zset, scheduled, sentinel, poll, engine, delivery,
                 optedOut, faults, history>>

SendOk(t) ==
  /\ Step(t, "sending", "mark")
  /\ sent' = [sent EXCEPT ![t] = @ + 1]
  /\ UNCHANGED <<table, zset, sentinel, streams, poll, engine, lease, optedOut,
                 faults, ended, slips>>

\* Mutant: a completed send releases its key as a retried one does.
MarkMutant(t) ==
  /\ Step(t, "mark", "none")
  /\ lease' = [lease EXCEPT ![t] = "none"]
  /\ Ack(t)
  /\ UNCHANGED <<table, zset, scheduled, sentinel, poll, engine, optedOut, faults,
                 history>>

\* markProcessed and the acknowledgement ...
Mark(t) ==
  /\ Step(t, "mark", "none")
  /\ lease' = [lease EXCEPT ![t] = "1"]
  /\ Ack(t)
  /\ UNCHANGED <<table, zset, scheduled, sentinel, poll, engine, optedOut, faults,
                 history>>

\* ... which does not wait for it: a mark that fails is only logged.
MarkFails(t) ==
  /\ Step(t, "mark", "none")
  /\ Fault
  /\ Ack(t)
  /\ Slip({<<t, "unmarked">>})
  /\ UNCHANGED <<table, zset, scheduled, sentinel, poll, engine, lease, optedOut,
                 sent, ended>>

\* retryLater, while attempts remain.
SendFails(t) ==
  /\ parks[t] < MaxParks
  /\ Step(t, "sending", "retry")
  /\ UNCHANGED <<table, zset, sentinel, streams, poll, engine, lease, optedOut,
                 faults, history>>

\* No attempt is left: the key is released and the entry dead-lettered.
GiveUp(t) ==
  /\ parks[t] = MaxParks
  /\ Step(t, "sending", "none")
  /\ lease' = [lease EXCEPT ![t] = "none"]
  /\ ended' = ended \union {<<t, "failed">>}
  /\ Ack(t)
  /\ UNCHANGED <<table, zset, scheduled, sentinel, poll, engine, optedOut, faults,
                 sent, slips>>

\* Every provider of the channel is over its budget; no lease is taken.
Throttled(t) ==
  /\ outbound[t] > 0
  /\ parks[t] < MaxParks
  /\ Step(t, "none", "defer")
  /\ UNCHANGED <<table, zset, sentinel, streams, poll, engine, lease, optedOut,
                 faults, history>>

\* reschedule: INSERT ... ON CONFLICT DO UPDATE.
Repark(t) ==
  /\ \/ Step(t, "retry", "retryAnnounce")
     \/ Step(t, "defer", "deferAnnounce")
  /\ \E n \in 1..MaxWait : Park(t, n)
  /\ UNCHANGED <<zset, sentinel, streams, poll, engine, lease, optedOut, faults,
                 history>>

\* reschedule: the announcement.
Announce(t) ==
  /\ \/ Step(t, "retryAnnounce", "retryDone")
     \/ Step(t, "deferAnnounce", "deferDone")
  /\ scheduled' = scheduled \union {<<t, parks[t]>>}
  /\ UNCHANGED <<table, zset, sentinel, outbound, poll, engine, lease, optedOut,
                 faults, history>>

\* Parked again and acknowledged, a send has to pass the gate once more, unless
\* another copy of it is on its way.
BackInLine(t) ==
  slips' = IF outbound[t] <= 1 /\ \A p \in Procs : t \notin work[p].send
           THEN slips \ {<<t, "passed">>} ELSE slips

\* The key is released for the next attempt, and the entry acknowledged.
RetryDone(t) ==
  /\ Step(t, "retryDone", "none")
  /\ lease' = [lease EXCEPT ![t] = "none"]
  /\ Ack(t)
  /\ BackInLine(t)
  /\ UNCHANGED <<table, zset, scheduled, sentinel, poll, engine, optedOut, faults,
                 sent, ended>>

DeferDone(t) ==
  /\ Step(t, "deferDone", "none")
  /\ Ack(t)
  /\ BackInLine(t)
  /\ UNCHANGED <<table, zset, scheduled, sentinel, poll, engine, lease, optedOut,
                 faults, sent, ended>>

DeliveryCrash(t) ==
  /\ attempt[t] # "none"
  /\ Fault
  /\ attempt' = [attempt EXCEPT ![t] = "none"]
  /\ Slip(IF attempt[t] = "mark" THEN {<<t, "unmarked">>} ELSE {})
  /\ UNCHANGED <<table, zset, sentinel, streams, poll, engine, lease, optedOut,
                 sent, ended>>

\* The holder renews its lease while it lives.
LeaseExpires(t) ==
  /\ lease[t] = "L"
  /\ ~Holding(t)
  /\ lease' = [lease EXCEPT ![t] = "none"]
  /\ UNCHANGED <<table, zset, sentinel, streams, poll, engine, attempt, optedOut,
                 faults, history>>

-----------------------------------------------------------------------------
(* The API, the recipient, the clock and the loss of the Redis data.       *)

\* Copies of the send that no longer look at the table.
OnItsWay(t) ==
  \/ outbound[t] > 0 \/ attempt[t] # "none" \/ sent[t] > 0

\* cancelNotification: 200 when the DELETE returns the row.
Cancel(t) ==
  /\ row[t] # 0
  /\ row' = [row EXCEPT ![t] = 0]
  /\ ended' = ended \union {<<t, "canceled">>}
  /\ Slip(IF OnItsWay(t) \/ \E p \in Procs : pc[p] \in {"gate", "publish"}
                                            /\ t \in Loaded(p)
          THEN {<<t, "late">>} ELSE {})
  /\ UNCHANGED <<due, parks, zset, sentinel, streams, poll, engine, delivery,
                 optedOut, faults, sent>>

\* An unsubscribe, a bounce, a removed address.
OptOut(t) ==
  /\ parks[t] > 0
  /\ ~optedOut[t]
  /\ optedOut' = [optedOut EXCEPT ![t] = TRUE]
  /\ Slip(IF OnItsWay(t) \/ \E p \in Procs : t \in work[p].send
          THEN {<<t, "passed">>} ELSE {})
  /\ UNCHANGED <<table, zset, sentinel, streams, poll, engine, delivery, faults,
                 sent, ended>>

Less(n) == IF n > 0 THEN n - 1 ELSE n

Tick ==
  /\ due' = [t \in Tasks |-> [g \in Parks |-> Less(due[t][g])]]
  /\ zset' = [t \in Tasks |-> [g \in Members |-> Less(zset[t][g])]]
  /\ lockTtl' = Less(lockTtl)
  /\ lock' = IF lockTtl = 1 THEN "none" ELSE lock
  /\ <<due', zset', lockTtl'>> # <<due, zset, lockTtl>>
  /\ UNCHANGED <<row, parks, sentinel, streams, pc, work, engine, delivery,
                 optedOut, faults, history>>

\* A flush, or a failover to an empty replica: streams, sorted sets, keys and
\* the sentinel are gone at once.  A send that was released is not in the table
\* any more, and the key that says it was sent is lost.  A rebuild under way
\* does not notice.
Wipe ==
  /\ Fault
  /\ zset' = [t \in Tasks |-> [g \in Members |-> -1]]
  /\ scheduled' = {}
  /\ outbound' = [t \in Tasks |-> 0]
  /\ sentinel' = FALSE
  /\ lock' = "none"
  /\ lockTtl' = 0
  /\ lease' = [t \in Tasks |-> "none"]
  /\ engine' = [t \in Tasks |->
                  CASE engine[t] \in {"again", "done"} -> "over"
                    [] engine[t] = "inserted" -> "last"
                    [] OTHER -> engine[t]]
  /\ Slip({<<t, "wiped">> : t \in {u \in Tasks : OnItsWay(u)}}
          \union (IF \E p \in Procs : pc[p] \in {"queue", "seal"}
                  THEN Tasks \X {"sealed"} ELSE {}))
  /\ UNCHANGED <<table, pc, work, attempt, optedOut, sent, ended>>

-----------------------------------------------------------------------------
RebuildStep(p) == LookSentinel(p) \/ ReadRows(p) \/ Requeue(p) \/ Seal(p)

PollStep(p) ==
  \/ LockPoll(p) \/ Claim(p) \/ Load(p) \/ Gate(p)
  \/ \E t \in Tasks : Release(p, t)
  \/ Released(p) \/ Delete(p) \/ Cleanup(p) \/ Unlock(p)

EngineStep(t) ==
  EngineInsert(t) \/ EngineSkips(t) \/ EngineAgain(t) \/ EngineAnnounce(t)

ConsumeStep(t) == \E g \in Parks : Consume(t, g)

DeliveryStep(t) ==
  \/ Take(t) \/ Completed(t) \/ SendOk(t) \/ Mark(t) \/ SendFails(t)
  \/ GiveUp(t) \/ Repark(t) \/ Announce(t) \/ RetryDone(t) \/ DeferDone(t)
  \/ LeaseExpires(t)

FaultStep ==
  \/ \E p \in Procs : RequeueFails(p) \/ DeleteFails(p) \/ PollFails(p) \/ Crash(p)
  \/ \E t \in Tasks :
       \/ EngineCrash(t) \/ MarkFails(t) \/ DeliveryCrash(t)
       \/ \E g \in Parks : ConsumeCrash(t, g)
  \/ Wipe

Next ==
  \/ \E p \in Procs : RebuildStep(p) \/ PollStep(p)
  \/ \E t \in Tasks :
       \/ EngineStep(t) \/ ConsumeStep(t) \/ DeliveryStep(t)
       \/ Throttled(t) \/ Cancel(t) \/ OptOut(t)
  \/ Tick
  \/ FaultStep

Spec == Init /\ [][Next]_vars

\* Timers, workers and the poll loop keep running; nobody has to cancel, to opt
\* out or to throttle, and nothing has to fail.
Fairness ==
  /\ \A p \in Procs : WF_vars(RebuildStep(p) \/ PollStep(p))
  /\ \A t \in Tasks :
       /\ WF_vars(EngineStep(t)) /\ WF_vars(ConsumeStep(t))
       /\ WF_vars(DeliveryStep(t))
  /\ WF_vars(Tick)

FairSpec == Spec /\ Fairness

-----------------------------------------------------------------------------
(* Properties.                                                             *)

\* The shape of the state.
TypeOK ==
  /\ row \in [Tasks -> Members]
  /\ due \in [Tasks -> [Parks -> 0..MaxWait]]
  /\ zset \in [Tasks -> [Members -> -1..(MaxWait + Visibility)]]
  /\ scheduled \subseteq Tasks \X Parks
  /\ sentinel \in BOOLEAN
  /\ lock \in Procs \union {"none", "dead"}
  /\ lockTtl \in 0..LockTtl
  /\ outbound \in [Tasks -> 0..MaxCopies]
  /\ pc \in [Procs -> PollSteps]
  /\ work \in [Procs -> [batch : SUBSET (Tasks \X Members),
                         got : [Tasks -> Members], send : SUBSET Tasks]]
  /\ engine \in [Tasks -> {"new", "inserted", "done", "again", "last", "over"}]
  /\ parks \in [Tasks -> 0..MaxParks]
  /\ attempt \in [Tasks -> {"none", "sending", "mark", "retry", "retryAnnounce",
                           "retryDone", "defer", "deferAnnounce", "deferDone"}]
  /\ lease \in [Tasks -> {"none", "L", "1"}]
  /\ optedOut \in [Tasks -> BOOLEAN]
  /\ faults \in 0..MaxFaults
  /\ sent \in [Tasks -> Nat]
  /\ ended \subseteq Tasks \X {"canceled", "blocked", "failed"}
  /\ slips \subseteq Tasks \X {"again", "skipped", "unqueued", "removed", "unmarked",
                             "late", "passed", "wiped", "sealed"}

\* A send the system still owes to somebody.
Owed(t) ==
  parks[t] > 0 /\ sent[t] = 0 /\ \A e \in ended : e[1] # t

\* Something will act on the row: a member, an announcement, or a rebuild.
Queued(t) ==
  /\ row[t] # 0
  /\ \/ ~sentinel
     \/ \E g \in Members : zset[t][g] # -1
     \/ \E g \in Parks : <<t, g>> \in scheduled

InHand(t) ==
  engine[t] \in {"inserted", "last", "again"} \/ attempt[t] # "none" \/ outbound[t] > 0

Slipped(t, names) == \E s \in names : <<t, s>> \in slips

\* The races that lose a send: the wipe of one already released, or of the sorted
\* sets during a rebuild; a rebuild whose ZADD failed; a redelivered event taken
\* for a duplicate; a poll that removes what a rebuild has queued meanwhile.
Lost(t) == Slipped(t, {"wiped", "sealed", "unqueued", "skipped", "removed"})

\* No parked send is forgotten, whoever dies or fails where: as long as it is
\* owed, a row is queued for release, or the engine or delivery still has it,
\* but for the races above.
Kept ==
  \A t \in Tasks : Owed(t) => Queued(t) \/ InHand(t) \/ Lost(t)

\* The provider accepts a send once, however often it is released: by two
\* polls, after a rebuild, or again by the engine.
SentOnce ==
  \A t \in Tasks : sent[t] <= 1 \/ Slipped(t, {"unmarked", "wiped"})

\* A cancel that was answered with success holds, unless a poll had loaded the
\* payload or the send was under way; so does an opt-out, also over a retry,
\* unless the send had passed the gate.
StopHolds ==
  [][\A t \in Tasks :
       sent'[t] > sent[t] =>
         /\ (<<t, "canceled">> \in ended => Slipped(t, {"late", "again"}))
         /\ (optedOut[t] => Slipped(t, {"passed", "again"}))]_vars

\* The time the caller or the quiet hours asked for is never anticipated: the
\* first park of a task is released when it is due, rebuilt or not.
NotEarly ==
  [][\A p \in Procs, t \in Tasks :
       ((t \in work[p].send /\ outbound'[t] > outbound[t] /\ work[p].got[t] = 1)
          => due[t][1] = 0)]_vars

\* Every parked send is sent, stopped or given up in the end.
Settles ==
  \A t \in Tasks : Owed(t) ~> (~Owed(t) \/ Lost(t))

\* scheduler/main.ts:258: the sentinel is "present while the scheduler ZSETs are
\* known to be intact".
SentinelIsHonest ==
  sentinel => \A t \in Tasks :
                Owed(t) => Queued(t) \/ InHand(t)
                           \/ Slipped(t, {"wiped", "unqueued", "skipped", "removed"})

=============================================================================
