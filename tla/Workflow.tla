------------------------------ MODULE Workflow ------------------------------
(***************************************************************************)
(* One workflow instance and everything that drives it: the worker that    *)
(* replays its steps (services/workflow/main.ts), the timer poll loop and  *)
(* the reaper (services/workflow/timers.ts), the event worker that matches *)
(* its waiters (services/events/main.ts) and the API that triggers and     *)
(* cancels it.  They share the instance, step and waiter rows in           *)
(* PostgreSQL, the instance lock and the timer ZSET in Redis, and the      *)
(* stream WORKFLOW_INBOUND.                                                *)
(*                                                                         *)
(* Instances share none of this state, so one instance is the whole        *)
(* system.  The stream redelivers a message whose run did not return: what *)
(* StreamWorker shows of it is taken for granted here.  The lock is        *)
(* renewed three times per TTL and expires only after its holder is gone.  *)
(***************************************************************************)
EXTENDS Integers, FiniteSets

CONSTANTS
  Program,    \* the handler's steps: "act" (notify, run), "wait", "event"
  Runs,       \* concurrent calls of WorkflowWorker.process
  Pollers,    \* concurrent calls of pollWorkflowTimers
  Events,     \* matching events that may arrive
  MaxInbox,   \* bound: messages on WORKFLOW_INBOUND
  MaxFaults,  \* bound: crashes and failed calls
  Faulty      \* which of "run", "poll", "event" may fail

Last == Cardinality(DOMAIN Program)
Steps == 1..Last

ASSUME WorkflowAssumption ==
  /\ Last \in Nat \ {0}
  /\ Program \in [Steps -> {"act", "wait", "event"}]
  /\ MaxInbox \in Nat \ {0}
  /\ MaxFaults \in Nat
  /\ Faulty \subseteq {"run", "poll", "event"}
  /\ Runs \intersect {"free", "dead"} = {}

\* Members of the timer ZSET: every wait of the instance shares one, every
\* event timeout names its step, deferred resumes collapse into one.
Wake == 0
Deferred == -1
EventSteps == {i \in Steps : Program[i] = "event"}
Members == {Wake, Deferred} \union EventSteps

VARIABLES
  status,   \* workflow_instances.status; "new": not triggered, "none": no row
  step,     \* workflow_steps: "none", "done", "asleep", "null", "data", "timedOut"
  waiters,  \* workflow_waiters: the event steps that have a row
  inbox,    \* messages of the instance on the stream, not being processed
  lock,     \* the run holding lock:workflow:<id>, "free", or "dead"
  timers,   \* timer ZSET: "absent", "set", or "claimed" by a poll
  nap,      \* the wait step whose wake-up the shared member holds
  past,     \* the steps whose resumeAt, if they have one, has passed
  run,      \* [pc, at] of each run
  poll,     \* [pc, t] of each poll
  event,    \* [pc, todo, waiter, target, buffered] of each event being processed
  reaper,   \* reapStuckInstances: "idle", "check", "reset"
  faults,   \* how many faults have happened
  sent,     \* history: how often the effect of a step was carried out
  late,     \* history: effects carried out after the cancel
  redone,   \* history: steps whose row could not be written after the effect
  slips     \* history: the races and crashes that can lose a wake-up

rows == <<status, step, waiters>>
zset == <<timers, nap, past>>
history == <<sent, late, redone>>
vars == <<status, step, waiters, inbox, lock, timers, nap, past, run, poll,
          event, reaper, faults, sent, late, redone, slips>>

Finished == {"completed", "failed", "canceled"}

Init ==
  /\ status = "new"
  /\ step = [i \in Steps |-> "none"]
  /\ waiters = {}
  /\ inbox = 0
  /\ lock = "free"
  /\ timers = [t \in Members |-> "absent"]
  /\ nap = 0
  /\ past = Steps \union {Deferred}
  /\ run = [r \in Runs |-> [pc |-> "idle", at |-> 0]]
  /\ poll = [p \in Pollers |-> [pc |-> "idle", t |-> Wake]]
  /\ event = [e \in Events |-> [pc |-> "new", todo |-> {}, waiter |-> 0,
                                 target |-> 0, buffered |-> 0]]
  /\ reaper = "idle"
  /\ faults = 0
  /\ sent = [i \in Steps |-> 0]
  /\ late = 0
  /\ redone = {}
  /\ slips = {}

Fault(who) ==
  /\ who \in Faulty
  /\ faults < MaxFaults
  /\ faults' = faults + 1

-----------------------------------------------------------------------------
(* The API.                                                                *)

\* triggerWorkflow: publishes workflow.triggered; the worker creates the row.
Trigger ==
  /\ status = "new"
  /\ status' = "none"
  /\ inbox' = inbox + 1
  /\ UNCHANGED <<step, waiters, lock, zset, run, poll, event, reaper, faults,
                 history, slips>>

\* cancelInstance: one transaction.
Cancel ==
  /\ status \in {"pending", "running"}
  /\ status' = "canceled"
  /\ waiters' = {}
  /\ UNCHANGED <<step, inbox, lock, zset, run, poll, event, reaper, faults,
                 history, slips>>

-----------------------------------------------------------------------------
(* WorkflowWorker.process.                                                 *)

Goto(r, pc) == run' = [run EXCEPT ![r] = [pc |-> pc, at |-> run[r].at]]
GotoAt(r, pc, i) == run' = [run EXCEPT ![r] = [pc |-> pc, at |-> i]]

\* ZADD.  A poll that claimed the same member will remove the new entry.
Arm(t) ==
  /\ timers' = [timers EXCEPT ![t] = "set"]
  /\ slips' = slips \union
       (IF \E p \in Pollers : poll[p].pc # "idle" /\ poll[p].t = t
        THEN {"rearmed"} ELSE {})

\* deferResume: a member of its own, due in WORKFLOW_RESUME_RETRY_MS.
DeferResume ==
  /\ Arm(Deferred)
  /\ past' = past \ {Deferred}
  /\ UNCHANGED nap

\* consume(): the message goes to a free run.
Deliver(r) ==
  /\ run[r].pc = "idle"
  /\ inbox > 0
  /\ inbox' = inbox - 1
  /\ GotoAt(r, "lock", 0)
  /\ UNCHANGED <<rows, lock, zset, poll, event, reaper, faults, history, slips>>

\* Mutant: a resume that finds the instance locked is dropped.
LockMutant(r) ==
  /\ run[r].pc = "lock"
  /\ \/ lock = "free" /\ lock' = r /\ Goto(r, "check")
     \/ lock # "free" /\ Goto(r, "idle") /\ UNCHANGED lock
  /\ UNCHANGED <<rows, inbox, zset, poll, event, reaper, faults, history, slips>>

\* SET NX EX; when another run holds the lock the resume is deferred and the
\* message acknowledged.
Lock(r) ==
  /\ run[r].pc = "lock"
  /\ \/ /\ lock = "free"
        /\ lock' = r
        /\ Goto(r, "check")
        /\ UNCHANGED <<zset, slips>>
     \/ /\ lock # "free"
        /\ DeferResume
        /\ Goto(r, "idle")
        /\ UNCHANGED lock
  /\ UNCHANGED <<rows, inbox, poll, event, reaper, faults, history>>

\* The instance is read, or created.  Running: the resume is deferred.
\* Finished: the message is skipped.
Check(r) ==
  /\ run[r].pc = "check"
  /\ \/ /\ status \in {"none", "pending"}
        /\ status' = "pending"
        /\ Goto(r, "claim")
        /\ UNCHANGED <<zset, slips>>
     \/ /\ status = "running"
        /\ DeferResume
        /\ Goto(r, "release")
        /\ UNCHANGED status
     \/ /\ status \in Finished
        /\ Goto(r, "release")
        /\ UNCHANGED <<status, zset, slips>>
  /\ UNCHANGED <<step, waiters, inbox, lock, poll, event, reaper, faults, history>>

\* Steps are recorded in order, so the recorded ones are a prefix.
Recorded == Cardinality({i \in Steps : step[i] # "none"})

\* Mutant: any recorded step is replayed, whether or not it is over.
PassedMutant(i) == step[i] # "none"

\* What the proxies do with a recorded step: replay it, or suspend again.
Passed(i) ==
  \/ step[i] \in {"done", "data", "timedOut"}
  \/ step[i] = "asleep" /\ i \in past

\* Where the handler is after replaying the first n steps.
After(r, n) ==
  IF n = Last THEN GotoAt(r, "completed", n) ELSE GotoAt(r, "begin", n + 1)

\* Mutant: the recorded steps are not replayed but carried out again.
ClaimMutant(r) ==
  /\ run[r].pc = "claim"
  /\ IF status = "pending"
     THEN status' = "running" /\ After(r, 0)
     ELSE Goto(r, "release") /\ UNCHANGED status
  /\ UNCHANGED <<step, waiters, inbox, lock, zset, poll, event, reaper, faults,
                 history, slips>>

\* The conditional UPDATE pending -> running, then the snapshot of the steps
\* and the replay of all that are recorded.
Claim(r) ==
  /\ run[r].pc = "claim"
  /\ \/ /\ status = "pending"
        /\ status' = "running"
        /\ IF Recorded = 0 \/ Passed(Recorded)
           THEN After(r, Recorded)
           ELSE GotoAt(r, "pending", Recorded)
     \/ /\ status # "pending"
        /\ Goto(r, "release")
        /\ UNCHANGED status
  /\ UNCHANGED <<step, waiters, inbox, lock, zset, poll, event, reaper, faults,
                 history, slips>>

\* Mutant: no stopIfCanceled.
BeginMutant(r) ==
  /\ run[r].pc = "begin"
  /\ Goto(r, Program[run[r].at])
  /\ UNCHANGED <<rows, inbox, lock, zset, poll, event, reaper, faults, history,
                 slips>>

\* stopIfCanceled, before each new step.
Begin(r) ==
  /\ run[r].pc = "begin"
  /\ Goto(r, IF status = "canceled" THEN "release" ELSE Program[run[r].at])
  /\ UNCHANGED <<rows, inbox, lock, zset, poll, event, reaper, faults, history,
                 slips>>

\* notify: the event is published under the key wf-<instance>-<step>.
\* run: the user's function is called.
Act(r) ==
  /\ run[r].pc = "act"
  /\ sent' = [sent EXCEPT ![run[r].at] = @ + 1]
  /\ late' = IF status = "canceled" THEN late + 1 ELSE late
  /\ Goto(r, "record")
  /\ UNCHANGED <<rows, inbox, lock, zset, poll, event, reaper, faults, redone, slips>>

\* The step row is inserted and the handler goes on to the next step.
Record(r) ==
  /\ run[r].pc = "record"
  /\ step' = [step EXCEPT ![run[r].at] = "done"]
  /\ After(r, run[r].at)
  /\ UNCHANGED <<status, waiters, inbox, lock, zset, poll, event, reaper, faults,
                 history, slips>>

\* wait: the timer first, then the step row, then SuspendExecutionError.
ArmWait(r) ==
  /\ run[r].pc = "wait"
  /\ Arm(Wake)
  /\ nap' = run[r].at
  /\ past' = past \ {run[r].at}
  /\ Goto(r, "sleep")
  /\ UNCHANGED <<rows, inbox, lock, poll, event, reaper, faults, history>>

\* Mutant: the row is inserted without scheduledAt.
SleepMutant(r) ==
  /\ run[r].pc = "sleep"
  /\ step' = [step EXCEPT ![run[r].at] = "null"]
  /\ Goto(r, "pending")
  /\ UNCHANGED <<status, waiters, inbox, lock, zset, poll, event, reaper, faults,
                 history, slips>>

Sleep(r) ==
  /\ run[r].pc = "sleep"
  /\ step' = [step EXCEPT ![run[r].at] = "asleep"]
  /\ Goto(r, "pending")
  /\ UNCHANGED <<status, waiters, inbox, lock, zset, poll, event, reaper, faults,
                 history, slips>>

\* waitForEvent: the timeout's timer, the step row without an output, the
\* waiter, then SuspendExecutionError.
ArmTimeout(r) ==
  /\ run[r].pc = "event"
  /\ Arm(run[r].at)
  /\ past' = past \ {run[r].at}
  /\ Goto(r, "await")
  /\ UNCHANGED <<rows, inbox, lock, nap, poll, event, reaper, faults, history>>

Await(r) ==
  /\ run[r].pc = "await"
  /\ step' = [step EXCEPT ![run[r].at] = "null"]
  /\ Goto(r, "waiter")
  /\ UNCHANGED <<status, waiters, inbox, lock, zset, poll, event, reaper, faults,
                 history, slips>>

InsertWaiter(r) ==
  /\ run[r].pc = "waiter"
  /\ waiters' = waiters \union {run[r].at}
  /\ Goto(r, "pending")
  /\ UNCHANGED <<status, step, inbox, lock, zset, poll, event, reaper, faults,
                 history, slips>>

\* A step's own call, the user's function or an insert throws: the workflow
\* has failed.
StepFails(r) ==
  /\ run[r].pc \in {"act", "record", "wait", "sleep", "event", "await", "waiter"}
  /\ Fault("run")
  /\ Goto(r, "failed")
  /\ redone' = redone \union (IF run[r].pc = "record" THEN {run[r].at} ELSE {})
  /\ UNCHANGED <<rows, inbox, lock, zset, poll, event, reaper, sent, late, slips>>

\* Mutant: finish(status) from any status.
FinishMutant(r) ==
  /\ run[r].pc \in {"completed", "pending", "failed"}
  /\ status' = run[r].pc
  /\ Goto(r, "release")
  /\ UNCHANGED <<step, waiters, inbox, lock, zset, poll, event, reaper, faults,
                 history, slips>>

\* A run that stops here leaves an event step without its waiter: the insert
\* has not happened yet, or it is what threw.
NoWaiter(r) ==
  IF run[r].pc = "waiter" \/ (run[r].pc = "failed" /\ step[run[r].at] = "null")
  THEN {"noWaiter"} ELSE {}

\* finish(status), only from running.  When the UPDATE throws, process() does
\* too and the message stays pending.
Finish(r) ==
  /\ run[r].pc \in {"completed", "pending", "failed"}
  /\ \/ /\ status' = IF status = "running" THEN run[r].pc ELSE status
        /\ Goto(r, "release")
        /\ UNCHANGED <<faults, slips>>
     \/ /\ Fault("run")
        /\ Goto(r, "retry")
        /\ slips' = slips \union NoWaiter(r)
        /\ UNCHANGED status
  /\ UNCHANGED <<step, waiters, inbox, lock, zset, poll, event, reaper, history>>

\* finally: releaseLock, then the ack.  A lost ack, or the "retry" above,
\* leaves the message to be delivered again.
Release(r) ==
  /\ run[r].pc \in {"release", "retry"}
  /\ lock' = IF lock = r THEN "free" ELSE lock
  /\ Goto(r, "idle")
  /\ \/ run[r].pc = "release" /\ UNCHANGED <<inbox, faults>>
     \/ run[r].pc = "release" /\ Fault("run") /\ inbox' = inbox + 1
     \/ run[r].pc = "retry" /\ inbox' = inbox + 1 /\ UNCHANGED faults
  /\ UNCHANGED <<rows, zset, poll, event, reaper, history, slips>>

\* The process dies; the stream will deliver its message again.
Crash(r) ==
  /\ run[r].pc # "idle"
  /\ Fault("run")
  /\ Goto(r, "idle")
  /\ inbox' = inbox + 1
  /\ lock' = IF lock = r THEN "dead" ELSE lock
  /\ redone' = redone \union (IF run[r].pc = "record" THEN {run[r].at} ELSE {})
  /\ slips' = slips \union NoWaiter(r)
  /\ UNCHANGED <<rows, zset, poll, event, reaper, sent, late>>

\* The TTL of a lock whose holder died runs out.
LockExpires ==
  /\ lock = "dead"
  /\ lock' = "free"
  /\ UNCHANGED <<rows, inbox, zset, run, poll, event, reaper, faults, history,
                 slips>>

-----------------------------------------------------------------------------
(* pollWorkflowTimers.                                                     *)

SetPoll(p, pc) == poll' = [poll EXCEPT ![p] = [pc |-> pc, t |-> poll[p].t]]

\* The step whose resumeAt is the score of member t.
DueAt(t) == IF t = Wake THEN nap ELSE t

\* resumeAt passes.
Elapse(i) ==
  /\ i \notin past
  /\ past' = past \union {i}
  /\ UNCHANGED <<rows, inbox, lock, timers, nap, run, poll, event, reaper, faults,
                 history, slips>>

\* schedulerPoll: a due member is given WORKFLOW_TIMER_VISIBILITY_MS more.
PollClaim(p) ==
  /\ poll[p].pc = "idle"
  /\ \E t \in Members :
       /\ timers[t] = "set"
       /\ DueAt(t) \in past
       /\ timers' = [timers EXCEPT ![t] = "claimed"]
       /\ poll' = [poll EXCEPT ![p] = [pc |-> "look", t |-> t]]
  /\ UNCHANGED <<rows, inbox, lock, nap, past, run, event, reaper, faults, history,
                 slips>>

\* The visibility timeout of a claimed member passes.
Reappear(t) ==
  /\ timers[t] = "claimed"
  /\ timers' = [timers EXCEPT ![t] = "set"]
  /\ UNCHANGED <<rows, inbox, lock, nap, past, run, poll, event, reaper, faults,
                 history, slips>>

\* Mutant: the timer of a running instance is removed.
PollLookMutant(p) ==
  /\ poll[p].pc = "look"
  /\ SetPoll(p,
       CASE status # "pending" -> "remove"
         [] OTHER -> IF poll[p].t \notin EventSteps THEN "publish"
                     ELSE IF step[poll[p].t] # "null" THEN "remove" ELSE "expire")
  /\ UNCHANGED <<rows, inbox, lock, zset, run, event, reaper, faults, history, slips>>

\* The instance is read, then the timeout's own step.
PollLook(p) ==
  /\ poll[p].pc = "look"
  /\ SetPoll(p,
       CASE status \in Finished \union {"none"} -> "remove"
         [] status = "running" -> "idle"
         [] OTHER -> IF poll[p].t \notin EventSteps THEN "publish"
                     ELSE IF step[poll[p].t] # "null" THEN "remove" ELSE "expire")
  /\ slips' = slips \union (IF status = "none" THEN {"noRow"} ELSE {})
  /\ UNCHANGED <<rows, inbox, lock, zset, run, event, reaper, faults, history>>

\* DELETE of the instance's waiters on the event name, which all event steps
\* of the program share: a later step's waiter goes too.  None left: the timer
\* is taken to be stale.
PollExpire(p) ==
  /\ poll[p].pc = "expire"
  /\ waiters' = {}
  /\ SetPoll(p, IF waiters = {} THEN "stale" ELSE "find")
  /\ slips' = slips \union
       (IF \E w \in waiters \ {poll[p].t} : step[w] = "null" THEN {"otherWaiter"} ELSE {})
  /\ UNCHANGED <<status, step, inbox, lock, zset, run, event, reaper, faults,
                 history>>

\* The SELECT of the timeout's step.
PollFind(p) ==
  /\ poll[p].pc = "find"
  /\ SetPoll(p, IF step[poll[p].t] = "null" THEN "write" ELSE "publish")
  /\ UNCHANGED <<rows, inbox, lock, zset, run, event, reaper, faults, history, slips>>

\* The UPDATE of its output.
PollWrite(p) ==
  /\ poll[p].pc = "write"
  /\ step' = [step EXCEPT ![poll[p].t] = "timedOut"]
  /\ SetPoll(p, "publish")
  /\ UNCHANGED <<status, waiters, inbox, lock, zset, run, event, reaper, faults,
                 history, slips>>

\* workflow.resumed is published.
PollPublish(p) ==
  /\ poll[p].pc = "publish"
  /\ inbox < MaxInbox
  /\ inbox' = inbox + 1
  /\ SetPoll(p, "remove")
  /\ UNCHANGED <<rows, lock, zset, run, event, reaper, faults, history, slips>>

\* ZREM of the member, whatever its score is by now.
PollRemove(p) ==
  /\ poll[p].pc \in {"remove", "stale"}
  /\ timers' = [timers EXCEPT ![poll[p].t] = "absent"]
  /\ SetPoll(p, "idle")
  /\ UNCHANGED <<rows, inbox, lock, nap, past, run, event, reaper, faults, history,
                 slips>>

\* A call throws or the process dies: the member stays claimed.
PollFails(p) ==
  /\ poll[p].pc # "idle"
  /\ Fault("poll")
  /\ SetPoll(p, "idle")
  /\ slips' = slips \union
       (IF \/ poll[p].pc \in {"find", "write"}
           \/ poll[p].pc = "publish" /\ poll[p].t \in EventSteps
        THEN {"pollFailed"} ELSE {})
  /\ UNCHANGED <<rows, inbox, lock, zset, run, event, reaper, history>>

\* Mutant: the reaper only logs.
ReapMutant ==
  /\ \/ reaper = "idle" /\ status = "running" /\ reaper' = "check"
     \/ reaper # "idle" /\ reaper' = "idle"
  /\ UNCHANGED <<rows, inbox, lock, zset, run, poll, event, faults, history, slips>>

\* reapStuckInstances: select, EXISTS lock, conditional UPDATE.
Reap ==
  /\ \/ /\ reaper = "idle" /\ status = "running"
        /\ reaper' = "check"
        /\ UNCHANGED <<status, slips>>
     \/ /\ reaper = "check"
        /\ reaper' = IF lock = "free" THEN "reset" ELSE "idle"
        /\ UNCHANGED <<status, slips>>
     \/ /\ reaper = "reset"
        /\ reaper' = "idle"
        /\ status' = IF status = "running" THEN "pending" ELSE status
        /\ slips' = slips \union
             (IF status = "running" /\ lock \in Runs THEN {"reaped"} ELSE {})
  /\ UNCHANGED <<step, waiters, inbox, lock, zset, run, poll, event, faults, history>>

-----------------------------------------------------------------------------
(* EventWorker.process on event.received.                                  *)

SetEvent(e, pc, todo, w, t, b) ==
  event' = [event EXCEPT ![e] = [pc |-> pc, todo |-> todo, waiter |-> w,
                                 target |-> t, buffered |-> b]]

\* The unexpired waiters are selected; the loop handles them one by one.
EventSelect(e) ==
  /\ event[e].pc \in {"new", "again"}
  /\ status # "new"
  /\ SetEvent(e, IF waiters \subseteq past THEN "done" ELSE "find", waiters \ past, 0, 0, 0)
  /\ UNCHANGED <<rows, inbox, lock, zset, run, poll, reaper, faults, history, slips>>

\* The next waiter; the SELECT of the instance's steps finds the one still
\* waiting.  Without one, the resume goes straight into the buffer.
EventFind(e) ==
  /\ event[e].pc = "find"
  /\ \E w \in event[e].todo :
       \/ /\ \A i \in Steps : step[i] # "null"
          /\ SetEvent(e, "delete", event[e].todo, w, 0, event[e].buffered + 1)
       \/ \E i \in Steps :
            /\ step[i] = "null"
            /\ SetEvent(e, "fill", event[e].todo, w, i, event[e].buffered)
  /\ UNCHANGED <<rows, inbox, lock, zset, run, poll, reaper, faults, history, slips>>

\* The UPDATE of its output; the resume goes into the in-memory buffer.
EventFill(e) ==
  /\ event[e].pc = "fill"
  /\ step' = [step EXCEPT ![event[e].target] = "data"]
  /\ SetEvent(e, "delete", event[e].todo, event[e].waiter, event[e].target,
              event[e].buffered + 1)
  /\ UNCHANGED <<status, waiters, inbox, lock, zset, run, poll, reaper, faults,
                 history, slips>>

\* The waiter is deleted.  After the last one process() awaits the flush.
EventDelete(e) ==
  /\ event[e].pc = "delete"
  /\ waiters' = waiters \ {event[e].waiter}
  /\ LET left == event[e].todo \ {event[e].waiter} IN
       SetEvent(e, IF left # {} THEN "find" ELSE IF event[e].buffered > 0 THEN "flush" ELSE "done",
                left, 0, 0, event[e].buffered)
  /\ UNCHANGED <<status, step, inbox, lock, zset, run, poll, reaper, faults,
                 history, slips>>

\* flushLogs, on its own timer: the buffered resumes are published.
EventFlush(e) ==
  /\ event[e].buffered > 0
  /\ inbox + event[e].buffered =< MaxInbox
  /\ inbox' = inbox + event[e].buffered
  /\ SetEvent(e, IF event[e].pc = "flush" THEN "done" ELSE event[e].pc,
              event[e].todo, event[e].waiter, event[e].target, 0)
  /\ UNCHANGED <<rows, lock, zset, run, poll, reaper, faults, history, slips>>

\* The process dies or the flush is rejected: the event is delivered again.
EventFails(e) ==
  /\ event[e].pc \in {"find", "fill", "delete", "flush"}
  /\ Fault("event")
  /\ SetEvent(e, "again", {}, 0, 0, 0)
  /\ slips' = slips \union
       (IF event[e].buffered > 0 THEN {"eventFailed"} ELSE {})
  /\ UNCHANGED <<rows, inbox, lock, zset, run, poll, reaper, history>>

-----------------------------------------------------------------------------

Run(r) ==
  \/ Deliver(r) \/ Lock(r) \/ Check(r) \/ Claim(r) \/ Begin(r)
  \/ Act(r) \/ Record(r) \/ ArmWait(r) \/ Sleep(r)
  \/ ArmTimeout(r) \/ Await(r) \/ InsertWaiter(r) \/ Finish(r) \/ Release(r)

Poll(p) ==
  \/ PollClaim(p) \/ PollLook(p) \/ PollExpire(p) \/ PollFind(p)
  \/ PollWrite(p) \/ PollPublish(p) \/ PollRemove(p)

Event(e) == EventFind(e) \/ EventFill(e) \/ EventDelete(e) \/ EventFlush(e)

Time == LockExpires \/ (\E i \in Steps \union {Deferred} : Elapse(i))
                    \/ (\E t \in Members : Reappear(t))

Next ==
  \/ Trigger \/ Cancel \/ Time \/ Reap
  \/ \E r \in Runs : Run(r) \/ StepFails(r) \/ Crash(r)
  \/ \E p \in Pollers : Poll(p) \/ PollFails(p)
  \/ \E e \in Events : EventSelect(e) \/ Event(e) \/ EventFails(e)

Spec == Init /\ [][Next]_vars

\* Workers and their timers keep running and time passes.  Nothing obliges an
\* event to arrive or a user to cancel.
Fairness ==
  /\ WF_vars(LockExpires) /\ WF_vars(Reap)
  /\ \A i \in Steps \union {Deferred} : WF_vars(Elapse(i))
  /\ \A t \in Members : WF_vars(Reappear(t))
  /\ \A r \in Runs : WF_vars(Run(r))
  /\ \A p \in Pollers : WF_vars(Poll(p))
  /\ \A e \in Events : WF_vars(Event(e))

FairSpec == Spec /\ Fairness
-----------------------------------------------------------------------------

TypeOK ==
  /\ status \in {"new", "none", "pending", "running"} \union Finished
  /\ \A i \in Steps : step[i] \in {"none"} \union
       (CASE Program[i] = "act" -> {"done"}
          [] Program[i] = "wait" -> {"asleep"}
          [] OTHER -> {"null", "data", "timedOut"})
  /\ waiters \subseteq EventSteps
  /\ inbox \in 0..(MaxInbox + MaxFaults)
  /\ lock \in Runs \union {"free", "dead"}
  /\ timers \in [Members -> {"absent", "set", "claimed"}]
  /\ nap = 0 \/ (nap \in Steps /\ Program[nap] = "wait")
  /\ past \subseteq Steps \union {Deferred}
  /\ \A e \in Events : event[e].todo \subseteq EventSteps
  /\ slips \subseteq {"noRow", "rearmed", "noWaiter", "otherWaiter", "pollFailed",
                    "eventFailed", "reaped"}

\* Something will still drive the instance: a message, a run, a timer, or a
\* resume about to be published.
Owed ==
  \/ inbox > 0
  \/ \E r \in Runs : run[r].pc # "idle"
  \/ \E t \in Members : timers[t] # "absent"
  \/ \E p \in Pollers : poll[p].pc # "idle"
  \/ \E e \in Events : event[e].buffered > 0

\* workflow/main.ts:230, "the resume must not be dropped", and 270-271, "this
\* resume is still owed": an instance that has not finished is never left without
\* anything that will resume it, except by the races and crashes in `slips'.
NotStranded == status \in {"none", "pending", "running"} => Owed \/ slips # {}

\* The effect of a step is carried out once, however often the instance is
\* resumed, redelivered or reaped, unless its row could not
\* be written (a repeated notification carries the same idempotency key).
ActOnce == \A i \in Steps : sent[i] =< 1 \/ i \in redone

\* workflow/main.ts:292-293, "a canceled instance stops at the next step
\* boundary": at most the step under way is still carried out.
CancelStops == late =< 1

\* workflow/main.ts:367-368, an early resume "must not cut the sleep short":
\* what comes after a wait happens after its resumeAt.
SleepsOut ==
  \A i, j \in Steps :
    i < j /\ Program[i] = "wait" /\ sent[j] > 0 => step[i] = "asleep" /\ i \in past

\* An effect follows an event wait only when the wait was answered, by the event
\* or by its timeout.
WaitsForAnswer ==
  \A i, j \in Steps :
    i < j /\ Program[i] = "event" /\ sent[j] > 0 => step[i] \in {"data", "timedOut"}

\* workflow/main.ts:485, "a cancel that landed mid-run must stand", and the same
\* for every final status: no run, poll or reaper moves an instance out of it.
FinishedStays == [][(status \in Finished) => status' = status]_status

\* A triggered instance comes to an end, by its own timers if no event arrives.
Terminates == (status = "none") ~> (status \in Finished \/ slips # {})

-----------------------------------------------------------------------------
(* What comments in the code say and the code does not do.                 *)

\* events/main.ts:321-324, "Publish BEFORE deleting the waiter: a crash after the
\* delete but before the publish would leave the instance unrecoverable": an
\* instance whose event was recorded will be resumed.
AnsweredIsResumed ==
  status = "pending" /\ Recorded > 0 /\ step[Recorded] = "data" => Owed

\* workflow/main.ts:368, "The timer is still set": an instance suspended in a
\* wait that is not over has its wake-up in the ZSET.
SleeperHasTimer ==
  \A i \in Steps :
    status = "pending" /\ i = Recorded /\ step[i] = "asleep" /\ i \notin past =>
      timers[Wake] # "absent"
=============================================================================
