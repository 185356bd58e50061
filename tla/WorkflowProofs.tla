--------------------------- MODULE WorkflowProofs ---------------------------
(***************************************************************************)
(* Proofs about Workflow, for every program, number of workers, polls and  *)
(* events, and every number of faults: its type invariant, ActOnce,        *)
(* CancelStops, SleepsOut, WaitsForAnswer, FinishedStays and NotStranded.  *)
(*                                                                         *)
(* The invariants come in layers, each proved with the help of the ones    *)
(* below it: Base (types, one holder of the lock, the bound of the inbox), *)
(* Order (the recorded steps are a prefix and everything below the last is *)
(* over), History (what was sent), and Wakes (who will resume an instance  *)
(* that is not over, as long as no slip has happened).                     *)
(***************************************************************************)
EXTENDS Workflow, FiniteSetTheorems, TLAPS

-----------------------------------------------------------------------------
(* The layer Base.                                                         *)

RunPcs == {"idle", "lock", "check", "claim", "begin", "act", "record", "wait",
           "sleep", "event", "await", "waiter", "completed", "pending",
           "failed", "release", "retry"}
PollPcs == {"idle", "look", "expire", "find", "write", "publish", "remove", "stale"}
EventPcs == {"new", "again", "find", "fill", "delete", "flush", "done"}
Statuses == {"new", "none", "pending", "running"} \union Finished
Places == 0..Last
RunRows == [pc : RunPcs, at : Places]
PollRows == [pc : PollPcs, t : Members]
EventRows == [pc : EventPcs, todo : SUBSET EventSteps, waiter : EventSteps \union {0},
              target : EventSteps \union {0}, buffered : Nat]
StepValues == {"none", "done", "asleep", "null", "data", "timedOut"}

Types ==
  /\ status \in Statuses
  /\ step \in [Steps -> StepValues]
  /\ waiters \subseteq EventSteps
  /\ inbox \in Nat
  /\ lock \in Runs \union {"free", "dead"}
  /\ timers \in [Members -> {"absent", "set", "claimed"}]
  /\ nap \in Places
  /\ past \subseteq Steps \union {Deferred}
  /\ run \in [Runs -> RunRows]
  /\ poll \in [Pollers -> PollRows]
  /\ event \in [Events -> EventRows]
  /\ faults \in 0..MaxFaults
  /\ sent \in [Steps -> Nat]
  /\ late \in Nat
  /\ redone \subseteq Steps
  /\ slips \subseteq {"noRow", "rearmed", "noWaiter", "otherWaiter", "pollFailed",
                      "eventFailed", "reaped"}

\* A step's row fits its kind, and so does the wake-up.
Kinds ==
  /\ \A i \in Steps :
       /\ Program[i] = "act" => step[i] \in {"none", "done"}
       /\ Program[i] = "wait" => step[i] \in {"none", "asleep"}
       /\ Program[i] = "event" => step[i] \in {"none", "null", "data", "timedOut"}
  /\ nap # 0 => Program[nap] = "wait"

\* A run that carries out a step is at one, of the right kind.
AtStep ==
  \A r \in Runs :
    /\ run[r].pc \in {"begin", "act", "record", "wait", "sleep", "event", "await",
                     "waiter", "failed"} => run[r].at \in Steps
    /\ run[r].pc \in {"act", "record"} => Program[run[r].at] = "act"
    /\ run[r].pc \in {"wait", "sleep"} => Program[run[r].at] = "wait"
    /\ run[r].pc \in {"event", "await", "waiter"} => Program[run[r].at] = "event"

\* The lock belongs to the one run that is past taking it.
Alone == \A r \in Runs : run[r].pc \notin {"idle", "lock"} <=> lock = r

\* Before the trigger nothing moves.
Untouched ==
  status = "new" =>
    /\ inbox = 0
    /\ \A r \in Runs : run[r].pc = "idle"
    /\ \A p \in Pollers : poll[p].pc = "idle"
    /\ \A t \in Members : timers[t] = "absent"
    /\ \A e \in Events : event[e].pc = "new" /\ event[e].buffered = 0

\* Beyond MaxInbox there are only messages that a fault put back, or will.
InboxFits ==
  /\ inbox =< MaxInbox + faults
  /\ (\E r \in Runs : run[r].pc = "retry") =>
       faults > 0 /\ inbox + 1 =< MaxInbox + faults

Base == Types /\ Kinds /\ AtStep /\ Alone /\ Untouched /\ InboxFits

-----------------------------------------------------------------------------
(* The layer Order.                                                        *)

\* The recorded steps are the first ones.
Prefix ==
  /\ Recorded \in Places
  /\ \A i \in Steps : step[i] # "none" <=> i =< Recorded

\* Only the last recorded step may be waited for.
BelowPassed == \A i \in Steps : i < Recorded => Passed(i)

\* That step is the first without a row, and all before it are over.
Placed ==
  \A r \in Runs :
    /\ run[r].pc \in {"begin", "act", "record", "wait", "sleep", "event", "await"} =>
         /\ run[r].at = Recorded + 1
         /\ \A i \in Steps : i =< Recorded => Passed(i)
    /\ run[r].pc = "waiter" => run[r].at = Recorded

\* An effect was carried out only when everything before it was over.
SentBelow == \A i, j \in Steps : i < j /\ sent[j] > 0 => Passed(i)

\* Waiters, polls and event workers refer to event steps that are recorded.
Targets ==
  /\ \A w \in waiters : step[w] # "none"
  /\ \A p \in Pollers :
       poll[p].pc \in {"expire", "find", "write", "stale"} =>
         poll[p].t \in EventSteps /\ step[poll[p].t] # "none"
  /\ \A e \in Events :
       /\ \A w \in event[e].todo : step[w] # "none"
       /\ event[e].pc = "fill" =>
            /\ event[e].target \in EventSteps
            /\ step[event[e].target] # "none"
            /\ event[e].waiter = event[e].target \/ step[event[e].waiter] \in {"data", "timedOut"}
            /\ event[e].waiter \in EventSteps
       /\ event[e].pc = "delete" =>
            /\ event[e].waiter \in EventSteps
            /\ step[event[e].waiter] \in {"data", "timedOut"}
       /\ event[e].pc \in {"new", "again"} => event[e].buffered = 0

Order == Prefix /\ BelowPassed /\ Placed /\ SentBelow /\ Targets

-----------------------------------------------------------------------------
(* The layer History.                                                      *)

\* An effect that was not redone happened once, and its row is there or about
\* to be inserted.
Once ==
  \A i \in Steps :
    sent[i] > 0 /\ i \notin redone =>
      /\ sent[i] = 1
      /\ step[i] # "none" \/ \E r \in Runs : run[r].pc = "record" /\ run[r].at = i

\* The one effect after a cancel was under way when the cancel came.
LateOnce ==
  /\ late =< 1
  /\ late > 0 => status = "canceled" /\ \A r \in Runs : run[r].pc # "act"

History == Once /\ LateOnce

-----------------------------------------------------------------------------
(* The layer Wakes.                                                        *)

Active == {"begin", "act", "record", "wait", "sleep", "event", "await", "waiter",
           "completed", "pending", "failed"}

\* While no slip has happened, a run has the instance to itself.
Owned ==
  \A r \in Runs :
    /\ run[r].pc \in Active => status \in Finished \union {"running"}
    /\ run[r].pc = "claim" => status \in Finished \union {"pending"}

\* A poll that works on timer t is no further than pcs.
PollsIn(t, pcs) == \A p \in Pollers : poll[p].t = t => poll[p].pc \in pcs

\* The wake-up of a wait that is not over is in the ZSET, and no poll has it.
NapKept ==
  /\ nap # 0 /\ nap \notin past => timers[Wake] # "absent" /\ PollsIn(Wake, {"idle"})
  /\ \A i \in Steps : step[i] = "asleep" /\ i \notin past => nap = i
  /\ \A r \in Runs :
       run[r].pc = "sleep" =>
         /\ nap = run[r].at
         /\ status \notin Finished =>
              timers[Wake] # "absent" /\ PollsIn(Wake, {"idle", "look"})

\* An event step without an output is still being written, has its waiter and its
\* timeout, or is being timed out.
WaitKept ==
  /\ \A r \in Runs :
       run[r].pc = "await" /\ status \notin Finished =>
         timers[run[r].at] # "absent" /\ PollsIn(run[r].at, {"idle", "look"})
  /\ \A n \in EventSteps :
       step[n] = "null" /\ status \notin Finished =>
         \/ /\ \E r \in Runs : run[r].pc = "waiter" /\ run[r].at = n
            /\ timers[n] # "absent" /\ PollsIn(n, {"idle", "look"})
         \/ \E r \in Runs : run[r].pc = "failed" /\ run[r].at = n
         \/ /\ n \in waiters
            /\ timers[n] # "absent" /\ PollsIn(n, {"idle", "look", "expire"})
         \/ \E p \in Pollers : poll[p].t = n /\ poll[p].pc \in {"find", "write"}

\* A timer that no poll is about to remove.
Live(t) == timers[t] # "absent" /\ PollsIn(t, PollPcs \ {"remove", "stale"})

\* A resume is on its way: on the stream, in a run, deferred, or about to be
\* published.
OnItsWay ==
  \/ inbox > 0
  \/ \E r \in Runs : run[r].pc \notin {"idle", "release", "pending", "waiter"}
  \/ Live(Deferred)
  \/ \E p \in Pollers : poll[p].t \in EventSteps /\ poll[p].pc \in {"find", "write", "publish"}
  \/ \E e \in Events : event[e].buffered > 0

\* The last step is waited for, or its wait is over and its wake-up still there.
Waiting ==
  /\ Recorded > 0
  /\ \/ ~Passed(Recorded)
     \/ step[Recorded] = "asleep" /\ nap = Recorded /\ Live(Wake)

Driven == status \in {"none", "pending", "running"} => OnItsWay \/ Waiting

Wakes == slips = {} => Owned /\ NapKept /\ WaitKept /\ Driven
-----------------------------------------------------------------------------
(* Places, and the rows.                                                     *)

LEMMA Constants ==
  /\ Last \in Nat \ {0}
  /\ Program \in [Steps -> {"act", "wait", "event"}]
  /\ MaxInbox \in Nat /\ MaxInbox > 0
  /\ MaxFaults \in Nat
  /\ Runs \intersect {"free", "dead"} = {}
BY WorkflowAssumption

\* The number of recorded steps is a place in the program.
LEMMA RecordedIsPlace == Recorded \in Places
<1> DEFINE S == {i \in Steps : step[i] # "none"}
<1>1. IsFiniteSet(1..Last) /\ Cardinality(1..Last) = Last
  BY Constants, FS_Interval
<1>2. S \subseteq 1..Last
  BY DEF Steps
<1>3. IsFiniteSet(S) /\ Cardinality(S) =< Last
  BY <1>1, <1>2, FS_Subset
<1>4. Cardinality(S) \in Nat
  BY <1>3, FS_CardinalityType
<1> QED
  BY <1>3, <1>4, Constants DEF Recorded, Places

\* When the recorded steps are the first n, there are n of them.
LEMMA RecordedCounts ==
  ASSUME NEW n \in Places, \A i \in Steps : step[i] # "none" <=> i =< n
  PROVE  Recorded = n
<1>1. {i \in Steps : step[i] # "none"} = 1..n
  BY Constants DEF Steps, Places
<1>2. Cardinality(1..n) = n
  BY FS_Interval, Constants DEF Places
<1> QED
  BY <1>1, <1>2 DEF Recorded

\* A run that goes to pc, at step i, and no other.
LEMMA RunMoves ==
  ASSUME Types, NEW r \in Runs, NEW pc \in RunPcs, NEW i \in Places,
         run' = [run EXCEPT ![r] = [pc |-> pc, at |-> i]]
  PROVE  /\ run' \in [Runs -> RunRows]
         /\ run'[r].pc = pc /\ run'[r].at = i
         /\ \A q \in Runs : q # r => run'[q] = run[q]
<1>1. [pc |-> pc, at |-> i] \in RunRows
  BY DEF RunRows
<1> QED
  BY <1>1 DEF Types

LEMMA PollMoves ==
  ASSUME Types, NEW p \in Pollers, NEW pc \in PollPcs, NEW t \in Members,
         poll' = [poll EXCEPT ![p] = [pc |-> pc, t |-> t]]
  PROVE  /\ poll' \in [Pollers -> PollRows]
         /\ poll'[p].pc = pc /\ poll'[p].t = t
         /\ \A q \in Pollers : q # p => poll'[q] = poll[q]
<1>1. [pc |-> pc, t |-> t] \in PollRows
  BY DEF PollRows
<1> QED
  BY <1>1 DEF Types

LEMMA EventMoves ==
  ASSUME Types, NEW e \in Events, NEW pc \in EventPcs, NEW todo \in SUBSET EventSteps,
         NEW w \in EventSteps \union {0}, NEW t \in EventSteps \union {0}, NEW b \in Nat,
         SetEvent(e, pc, todo, w, t, b)
  PROVE  /\ event' \in [Events -> EventRows]
         /\ event'[e] = [pc |-> pc, todo |-> todo, waiter |-> w, target |-> t, buffered |-> b]
         /\ \A f \in Events : f # e => event'[f] = event[f]
<1>1. [pc |-> pc, todo |-> todo, waiter |-> w, target |-> t, buffered |-> b] \in EventRows
  BY DEF EventRows
<1> QED
  BY <1>1 DEF Types, SetEvent

\* The fields of the rows.
LEMMA Fields ==
  ASSUME Types
  PROVE  /\ \A r \in Runs : run[r].pc \in RunPcs /\ run[r].at \in Places
         /\ \A p \in Pollers : poll[p].pc \in PollPcs /\ poll[p].t \in Members
         /\ \A e \in Events :
              /\ event[e].pc \in EventPcs
              /\ event[e].todo \in SUBSET EventSteps
              /\ event[e].waiter \in EventSteps \union {0}
              /\ event[e].target \in EventSteps \union {0}
              /\ event[e].buffered \in Nat
BY DEF Types, RunRows, PollRows, EventRows
-----------------------------------------------------------------------------
(* Where each action leaves its run, its poll or its event, and the types. *)

Moved(r, pc, i) ==
  /\ run' \in [Runs -> RunRows]
  /\ run'[r].pc = pc /\ run'[r].at = i
  /\ \A q \in Runs : q # r => run'[q] = run[q]

LEMMA GoesTo ==
  ASSUME Types, NEW r \in Runs, NEW pc \in RunPcs, Goto(r, pc)
  PROVE  Moved(r, pc, run[r].at)
BY Fields, RunMoves DEF Goto, Moved

LEMMA GoesToAt ==
  ASSUME Types, NEW r \in Runs, NEW pc \in RunPcs, NEW i \in Places, GotoAt(r, pc, i)
  PROVE  Moved(r, pc, i)
BY RunMoves DEF GotoAt, Moved

LEMMA MovedKeepsPlaces ==
  ASSUME Types, AtStep, NEW r \in Runs, NEW pc, NEW i, Moved(r, pc, i),
         pc \in {"begin", "act", "record", "wait", "sleep", "event", "await",
                "waiter", "failed"} => i \in Steps,
         pc \in {"act", "record"} => Program[i] = "act",
         pc \in {"wait", "sleep"} => Program[i] = "wait",
         pc \in {"event", "await", "waiter"} => Program[i] = "event"
  PROVE  AtStep'
BY DEF AtStep, Moved

LEMMA DeliverMoves ==
  ASSUME Types, AtStep, NEW r \in Runs, Deliver(r)
  PROVE  Types' /\ AtStep' /\ (Moved(r, "lock", 0))
<1>1. Moved(r, "lock", 0)
  BY GoesToAt, Constants DEF Deliver, RunPcs, Places
<1>2. run' \in [Runs -> RunRows] /\ run[r].at \in Places
  BY <1>1, Fields DEF Moved
<1>3. Types'
  BY <1>2, Constants DEF Deliver, Types, AtStep, rows, zset, history
<1>4. AtStep'
  BY <1>1, MovedKeepsPlaces DEF Deliver, AtStep
<1> QED
  BY <1>1, <1>3, <1>4

LEMMA LockMoves ==
  ASSUME Types, AtStep, NEW r \in Runs, Lock(r)
  PROVE  Types' /\ AtStep' /\ (
            \/ lock = "free" /\ lock' = r /\ Moved(r, "check", run[r].at)
            \/ lock # "free" /\ lock' = lock /\ DeferResume /\ Moved(r, "idle", run[r].at))
<1>1.
            \/ lock = "free" /\ lock' = r /\ Moved(r, "check", run[r].at)
            \/ lock # "free" /\ lock' = lock /\ DeferResume /\ Moved(r, "idle", run[r].at)
  <2>1. ASSUME Goto(r, "check") PROVE Moved(r, "check", run[r].at)
    BY <2>1, GoesTo DEF RunPcs
  <2>2. ASSUME Goto(r, "idle") PROVE Moved(r, "idle", run[r].at)
    BY <2>2, GoesTo DEF RunPcs
  <2> QED
    BY <2>1, <2>2 DEF Lock
<1>2. run' \in [Runs -> RunRows] /\ run[r].at \in Places
  BY <1>1, Fields DEF Moved
<1>3. Types'
  BY <1>2, Constants DEF Lock, Types, AtStep, rows, zset, history, DeferResume, Arm
<1>4. AtStep'
  BY <1>1, MovedKeepsPlaces DEF Lock, AtStep
<1> QED
  BY <1>1, <1>3, <1>4

LEMMA CheckMoves ==
  ASSUME Types, AtStep, NEW r \in Runs, Check(r)
  PROVE  Types' /\ AtStep' /\ (
            \/ status' = "pending" /\ Moved(r, "claim", run[r].at)
            \/ status \notin {"none", "pending"} /\ Moved(r, "release", run[r].at))
<1>1.
            \/ status' = "pending" /\ Moved(r, "claim", run[r].at)
            \/ status \notin {"none", "pending"} /\ Moved(r, "release", run[r].at)
  <2>1. ASSUME Goto(r, "claim") PROVE Moved(r, "claim", run[r].at)
    BY <2>1, GoesTo DEF RunPcs
  <2>2. ASSUME Goto(r, "release") PROVE Moved(r, "release", run[r].at)
    BY <2>2, GoesTo DEF RunPcs
  <2> QED
    BY <2>1, <2>2 DEF Check, Finished
<1>2. run' \in [Runs -> RunRows] /\ run[r].at \in Places
  BY <1>1, Fields DEF Moved
<1>3. Types'
  BY <1>2, Constants DEF Check, Types, AtStep, rows, zset, history, DeferResume, Arm, Statuses, Finished
<1>4. AtStep'
  BY <1>1, MovedKeepsPlaces DEF Check, AtStep
<1> QED
  BY <1>1, <1>3, <1>4

LEMMA ClaimMoves ==
  ASSUME Types, AtStep, NEW r \in Runs, Claim(r)
  PROVE  Types' /\ AtStep' /\ (
            \/ status' = "running" /\ Recorded = Last /\ Moved(r, "completed", Recorded)
            \/ status' = "running" /\ Recorded < Last /\ (Recorded = 0 \/ Passed(Recorded))
               /\ Moved(r, "begin", Recorded + 1)
            \/ status' = "running" /\ Recorded # 0 /\ ~Passed(Recorded) /\ Moved(r, "pending", Recorded)
            \/ status # "pending" /\ status' = status /\ Moved(r, "release", run[r].at))
<1>1.
            \/ status' = "running" /\ Recorded = Last /\ Moved(r, "completed", Recorded)
            \/ status' = "running" /\ Recorded < Last /\ (Recorded = 0 \/ Passed(Recorded))
               /\ Moved(r, "begin", Recorded + 1)
            \/ status' = "running" /\ Recorded # 0 /\ ~Passed(Recorded) /\ Moved(r, "pending", Recorded)
            \/ status # "pending" /\ status' = status /\ Moved(r, "release", run[r].at)
  <2> DEFINE n == Recorded
  <2> HIDE DEF n
  <2>1. n \in Places
    BY RecordedIsPlace DEF n
  <2>2. CASE status = "pending" /\ (n = 0 \/ Passed(n)) /\ After(r, n)
    <3>1. CASE n = Last
      BY <2>1, <2>2, <3>1, GoesToAt DEF After, RunPcs, Claim, n
    <3>2. CASE n # Last
      <4>1. n + 1 \in Places /\ n < Last
        BY <2>1, <3>2, Constants DEF Places
      <4>2. GotoAt(r, "begin", n + 1)
        BY <2>2, <3>2 DEF After
      <4> QED
        BY <2>2, <4>1, <4>2, GoesToAt DEF RunPcs, Claim, n
    <3> QED
      BY <3>1, <3>2
  <2>3. CASE status = "pending" /\ GotoAt(r, "pending", n) /\ n # 0 /\ ~Passed(n)
    BY <2>1, <2>3, GoesToAt DEF RunPcs, Claim, n
  <2>4. CASE status # "pending"
    BY <2>4, GoesTo DEF RunPcs, Claim
  <2> QED
    BY <2>2, <2>3, <2>4 DEF Claim, n
<1>2. run' \in [Runs -> RunRows] /\ run[r].at \in Places
  BY <1>1, Fields DEF Moved
<1>3. Types'
  BY <1>2, Constants DEF Claim, Types, AtStep, rows, zset, history, Statuses, Finished
<1>4. AtStep'
  BY <1>1, MovedKeepsPlaces, Constants, RecordedIsPlace DEF Claim, AtStep, Places, Steps
<1> QED
  BY <1>1, <1>3, <1>4

LEMMA BeginMoves ==
  ASSUME Types, AtStep, NEW r \in Runs, Begin(r)
  PROVE  Types' /\ AtStep' /\ (
            \/ status = "canceled" /\ Moved(r, "release", run[r].at)
            \/ status # "canceled" /\ Moved(r, Program[run[r].at], run[r].at))
<1>1.
            \/ status = "canceled" /\ Moved(r, "release", run[r].at)
            \/ status # "canceled" /\ Moved(r, Program[run[r].at], run[r].at)
  <2>1. CASE status = "canceled"
    <3>1. Goto(r, "release")
      BY <2>1 DEF Begin
    <3> QED
      BY <2>1, <3>1, GoesTo DEF RunPcs
  <2>2. CASE status # "canceled"
    <3>1. Goto(r, Program[run[r].at])
      BY <2>2 DEF Begin
    <3>2. Program[run[r].at] \in RunPcs
      BY Constants DEF Begin, AtStep, RunPcs
    <3> QED
      BY <2>2, <3>1, <3>2, GoesTo
  <2> QED
    BY <2>1, <2>2
<1>2. run' \in [Runs -> RunRows] /\ run[r].at \in Places
  BY <1>1, Fields DEF Moved
<1>3. Types'
  BY <1>2, Constants DEF Begin, Types, AtStep, rows, zset, history
<1>4. AtStep'
  BY <1>1, MovedKeepsPlaces, Constants, RecordedIsPlace DEF Begin, AtStep
<1> QED
  BY <1>1, <1>3, <1>4

LEMMA RecordMoves ==
  ASSUME Types, AtStep, NEW r \in Runs, Record(r)
  PROVE  Types' /\ AtStep' /\ (
            \/ run[r].at = Last /\ Moved(r, "completed", run[r].at)
            \/ run[r].at < Last /\ Moved(r, "begin", run[r].at + 1))
<1>1.
            \/ run[r].at = Last /\ Moved(r, "completed", run[r].at)
            \/ run[r].at < Last /\ Moved(r, "begin", run[r].at + 1)
  <2> DEFINE n == run[r].at
  <2> HIDE DEF n
  <2>1. n \in Places /\ After(r, n)
    BY Fields DEF n, Record
  <2>2. CASE n = Last
    BY <2>1, <2>2, GoesToAt DEF After, RunPcs, n
  <2>3. CASE n # Last
    <3>1. n + 1 \in Places /\ n < Last
      BY <2>1, <2>3, Constants DEF Places
    <3>2. GotoAt(r, "begin", n + 1)
      BY <2>1, <2>3 DEF After
    <3> QED
      BY <3>1, <3>2, GoesToAt DEF RunPcs, n
  <2> QED
    BY <2>2, <2>3
<1>2. run' \in [Runs -> RunRows] /\ run[r].at \in Places
  BY <1>1, Fields DEF Moved
<1>3. Types'
  BY <1>2, Constants DEF Record, Types, AtStep, rows, zset, history, StepValues
<1>4. AtStep'
  BY <1>1, MovedKeepsPlaces, Constants, RecordedIsPlace DEF Record, AtStep, Places, Steps
<1> QED
  BY <1>1, <1>3, <1>4

LEMMA FinishMoves ==
  ASSUME Types, AtStep, NEW r \in Runs, Finish(r)
  PROVE  Types' /\ AtStep' /\ (
            \/ status' = (IF status = "running" THEN run[r].pc ELSE status) /\ slips' = slips /\ Moved(r, "release", run[r].at)
            \/ faults' = faults + 1 /\ status' = status /\ Moved(r, "retry", run[r].at))
<1>1.
            \/ status' = (IF status = "running" THEN run[r].pc ELSE status) /\ slips' = slips /\ Moved(r, "release", run[r].at)
            \/ faults' = faults + 1 /\ status' = status /\ Moved(r, "retry", run[r].at)
  <2>1. ASSUME Goto(r, "release") PROVE Moved(r, "release", run[r].at)
    BY <2>1, GoesTo DEF RunPcs
  <2>2. ASSUME Goto(r, "retry") PROVE Moved(r, "retry", run[r].at)
    BY <2>2, GoesTo DEF RunPcs
  <2> QED
    BY <2>1, <2>2 DEF Finish, Fault
<1>2. run' \in [Runs -> RunRows] /\ run[r].at \in Places
  BY <1>1, Fields DEF Moved
<1>3. Types'
  <2>1. status' \in Statuses
    BY <1>1 DEF Finish, Types, Statuses, Finished
  <2>2. faults' \in 0..MaxFaults
    BY Constants DEF Finish, Fault, Types
  <2>3. slips' \subseteq slips \union {"noWaiter"}
    BY DEF Finish, NoWaiter
  <2> QED
    BY <1>2, <2>1, <2>2, <2>3 DEF Finish, Types, rows, zset, history
<1>4. AtStep'
  BY <1>1, MovedKeepsPlaces DEF Finish, AtStep
<1> QED
  BY <1>1, <1>3, <1>4

LEMMA ActMoves ==
  ASSUME Types, AtStep, NEW r \in Runs, Act(r)
  PROVE  Types' /\ AtStep' /\ (Moved(r, "record", run[r].at))
<1>1. Moved(r, "record", run[r].at)
  BY GoesTo DEF Act, RunPcs
<1>2. run' \in [Runs -> RunRows] /\ run[r].at \in Places
  BY <1>1, Fields DEF Moved
<1>3. Types'
  BY <1>2, Constants DEF Act, Types, AtStep, rows, zset, history
<1>4. AtStep'
  BY <1>1, MovedKeepsPlaces DEF Act, AtStep
<1> QED
  BY <1>1, <1>3, <1>4

LEMMA ArmWaitMoves ==
  ASSUME Types, AtStep, NEW r \in Runs, ArmWait(r)
  PROVE  Types' /\ AtStep' /\ (Moved(r, "sleep", run[r].at))
<1>1. Moved(r, "sleep", run[r].at)
  BY GoesTo DEF ArmWait, RunPcs
<1>2. run' \in [Runs -> RunRows] /\ run[r].at \in Places
  BY <1>1, Fields DEF Moved
<1>3. Types'
  BY <1>2, Constants DEF ArmWait, Types, AtStep, rows, zset, history, Arm
<1>4. AtStep'
  BY <1>1, MovedKeepsPlaces DEF ArmWait, AtStep
<1> QED
  BY <1>1, <1>3, <1>4

LEMMA SleepMoves ==
  ASSUME Types, AtStep, NEW r \in Runs, Sleep(r)
  PROVE  Types' /\ AtStep' /\ (Moved(r, "pending", run[r].at))
<1>1. Moved(r, "pending", run[r].at)
  BY GoesTo DEF Sleep, RunPcs
<1>2. run' \in [Runs -> RunRows] /\ run[r].at \in Places
  BY <1>1, Fields DEF Moved
<1>3. Types'
  BY <1>2, Constants DEF Sleep, Types, AtStep, rows, zset, history, StepValues
<1>4. AtStep'
  BY <1>1, MovedKeepsPlaces DEF Sleep, AtStep
<1> QED
  BY <1>1, <1>3, <1>4

LEMMA ArmTimeoutMoves ==
  ASSUME Types, AtStep, NEW r \in Runs, ArmTimeout(r)
  PROVE  Types' /\ AtStep' /\ (Moved(r, "await", run[r].at))
<1>1. Moved(r, "await", run[r].at)
  BY GoesTo DEF ArmTimeout, RunPcs
<1>2. run' \in [Runs -> RunRows] /\ run[r].at \in Places
  BY <1>1, Fields DEF Moved
<1>3. Types'
  BY <1>2, Constants DEF ArmTimeout, Types, AtStep, rows, zset, history, Arm
<1>4. AtStep'
  BY <1>1, MovedKeepsPlaces DEF ArmTimeout, AtStep
<1> QED
  BY <1>1, <1>3, <1>4

LEMMA AwaitMoves ==
  ASSUME Types, AtStep, NEW r \in Runs, Await(r)
  PROVE  Types' /\ AtStep' /\ (Moved(r, "waiter", run[r].at))
<1>1. Moved(r, "waiter", run[r].at)
  BY GoesTo DEF Await, RunPcs
<1>2. run' \in [Runs -> RunRows] /\ run[r].at \in Places
  BY <1>1, Fields DEF Moved
<1>3. Types'
  BY <1>2, Constants DEF Await, Types, AtStep, rows, zset, history, StepValues
<1>4. AtStep'
  BY <1>1, MovedKeepsPlaces DEF Await, AtStep
<1> QED
  BY <1>1, <1>3, <1>4

LEMMA InsertWaiterMoves ==
  ASSUME Types, AtStep, NEW r \in Runs, InsertWaiter(r)
  PROVE  Types' /\ AtStep' /\ (Moved(r, "pending", run[r].at))
<1>1. Moved(r, "pending", run[r].at)
  BY GoesTo DEF InsertWaiter, RunPcs
<1>2. run' \in [Runs -> RunRows] /\ run[r].at \in Places
  BY <1>1, Fields DEF Moved
<1>3. Types'
  BY <1>2, Constants DEF InsertWaiter, EventSteps, Types, AtStep, rows, zset, history
<1>4. AtStep'
  BY <1>1, MovedKeepsPlaces DEF InsertWaiter, AtStep
<1> QED
  BY <1>1, <1>3, <1>4

LEMMA StepFailsMoves ==
  ASSUME Types, AtStep, NEW r \in Runs, StepFails(r)
  PROVE  Types' /\ AtStep' /\ (Moved(r, "failed", run[r].at))
<1>1. Moved(r, "failed", run[r].at)
  BY GoesTo DEF StepFails, RunPcs
<1>2. run' \in [Runs -> RunRows] /\ run[r].at \in Places
  BY <1>1, Fields DEF Moved
<1>3. Types'
  BY <1>2, Constants DEF StepFails, Types, AtStep, rows, zset, history, Fault
<1>4. AtStep'
  BY <1>1, MovedKeepsPlaces DEF StepFails, AtStep
<1> QED
  BY <1>1, <1>3, <1>4

LEMMA CrashMoves ==
  ASSUME Types, AtStep, NEW r \in Runs, Crash(r)
  PROVE  Types' /\ AtStep' /\ (Moved(r, "idle", run[r].at))
<1>1. Moved(r, "idle", run[r].at)
  BY GoesTo DEF Crash, RunPcs
<1>2. run' \in [Runs -> RunRows] /\ run[r].at \in Places
  BY <1>1, Fields DEF Moved
<1>3. Types'
  BY <1>2, Constants DEF Crash, Types, AtStep, rows, zset, history, Fault, NoWaiter
<1>4. AtStep'
  BY <1>1, MovedKeepsPlaces DEF Crash, AtStep
<1> QED
  BY <1>1, <1>3, <1>4

LEMMA ReleaseMoves ==
  ASSUME Types, AtStep, NEW r \in Runs, Release(r)
  PROVE  Types' /\ AtStep' /\ (Moved(r, "idle", run[r].at))
<1>1. Moved(r, "idle", run[r].at)
  BY GoesTo DEF Release, RunPcs
<1>2. run' \in [Runs -> RunRows] /\ run[r].at \in Places
  BY <1>1, Fields DEF Moved
<1>3. Types'
  BY <1>2, Constants DEF Release, Types, AtStep, rows, zset, history, Fault
<1>4. AtStep'
  BY <1>1, MovedKeepsPlaces DEF Release, AtStep
<1> QED
  BY <1>1, <1>3, <1>4

PollMoved(p, pc, t) ==
  /\ poll' \in [Pollers -> PollRows]
  /\ poll'[p].pc = pc /\ poll'[p].t = t
  /\ \A q \in Pollers : q # p => poll'[q] = poll[q]

LEMMA PollGoesTo ==
  ASSUME Types, NEW p \in Pollers, NEW pc \in PollPcs, SetPoll(p, pc)
  PROVE  PollMoved(p, pc, poll[p].t)
BY Fields, PollMoves DEF SetPoll, PollMoved

LEMMA PollClaimMoves ==
  ASSUME Types, NEW p \in Pollers, PollClaim(p)
  PROVE  Types' /\ (
            \E t \in Members :
              /\ timers[t] = "set" /\ DueAt(t) \in past
              /\ timers' = [timers EXCEPT ![t] = "claimed"]
              /\ PollMoved(p, "look", t))
<1>1.
            \E t \in Members :
              /\ timers[t] = "set" /\ DueAt(t) \in past
              /\ timers' = [timers EXCEPT ![t] = "claimed"]
              /\ PollMoved(p, "look", t)
  <2>1. PICK t \in Members :
          /\ timers[t] = "set" /\ DueAt(t) \in past
          /\ timers' = [timers EXCEPT ![t] = "claimed"]
          /\ poll' = [poll EXCEPT ![p] = [pc |-> "look", t |-> t]]
    BY DEF PollClaim
  <2>2. PollMoved(p, "look", t)
    BY <2>1, PollMoves DEF PollMoved, PollPcs
  <2> QED
    BY <2>1, <2>2
<1>2. poll' \in [Pollers -> PollRows]
  BY <1>1 DEF PollMoved
<1>3. Types'
  BY <1>2, Constants DEF PollClaim, Types, rows, zset, history
<1> QED
  BY <1>1, <1>3

LEMMA PollLookMoves ==
  ASSUME Types, NEW p \in Pollers, PollLook(p)
  PROVE  Types' /\ (
            \/ status \in Finished \union {"none"} /\ PollMoved(p, "remove", poll[p].t)
            \/ status = "running" /\ PollMoved(p, "idle", poll[p].t)
            \/ status \in {"new", "pending"} /\ poll[p].t \notin EventSteps /\ PollMoved(p, "publish", poll[p].t)
            \/ status \in {"new", "pending"} /\ poll[p].t \in EventSteps /\ step[poll[p].t] # "null" /\ PollMoved(p, "remove", poll[p].t)
            \/ status \in {"new", "pending"} /\ poll[p].t \in EventSteps /\ step[poll[p].t] = "null" /\ PollMoved(p, "expire", poll[p].t))
<1>1.
            \/ status \in Finished \union {"none"} /\ PollMoved(p, "remove", poll[p].t)
            \/ status = "running" /\ PollMoved(p, "idle", poll[p].t)
            \/ status \in {"new", "pending"} /\ poll[p].t \notin EventSteps /\ PollMoved(p, "publish", poll[p].t)
            \/ status \in {"new", "pending"} /\ poll[p].t \in EventSteps /\ step[poll[p].t] # "null" /\ PollMoved(p, "remove", poll[p].t)
            \/ status \in {"new", "pending"} /\ poll[p].t \in EventSteps /\ step[poll[p].t] = "null" /\ PollMoved(p, "expire", poll[p].t)
  <2>1. SetPoll(p, "remove") => PollMoved(p, "remove", poll[p].t)
    BY PollGoesTo DEF PollPcs
  <2>2. SetPoll(p, "idle") => PollMoved(p, "idle", poll[p].t)
    BY PollGoesTo DEF PollPcs
  <2>3. SetPoll(p, "publish") => PollMoved(p, "publish", poll[p].t)
    BY PollGoesTo DEF PollPcs
  <2>4. SetPoll(p, "expire") => PollMoved(p, "expire", poll[p].t)
    BY PollGoesTo DEF PollPcs
  <2> QED
    BY <2>1, <2>2, <2>3, <2>4 DEF PollLook, Types, Statuses
<1>2. poll' \in [Pollers -> PollRows]
  BY <1>1 DEF PollMoved
<1>3. Types'
  BY <1>2, Constants DEF PollLook, Types, rows, zset, history
<1> QED
  BY <1>1, <1>3

LEMMA PollExpireMoves ==
  ASSUME Types, NEW p \in Pollers, PollExpire(p)
  PROVE  Types' /\ (
            \/ waiters = {} /\ PollMoved(p, "stale", poll[p].t)
            \/ waiters # {} /\ PollMoved(p, "find", poll[p].t))
<1>1.
            \/ waiters = {} /\ PollMoved(p, "stale", poll[p].t)
            \/ waiters # {} /\ PollMoved(p, "find", poll[p].t)
  <2>1. SetPoll(p, "stale") => PollMoved(p, "stale", poll[p].t)
    BY PollGoesTo DEF PollPcs
  <2>2. SetPoll(p, "find") => PollMoved(p, "find", poll[p].t)
    BY PollGoesTo DEF PollPcs
  <2> QED
    BY <2>1, <2>2 DEF PollExpire
<1>2. poll' \in [Pollers -> PollRows]
  BY <1>1 DEF PollMoved
<1>3. Types'
  BY <1>2, Constants DEF PollExpire, Types, rows, zset, history
<1> QED
  BY <1>1, <1>3

LEMMA PollFindMoves ==
  ASSUME Types, NEW p \in Pollers, PollFind(p)
  PROVE  Types' /\ (
            \/ step[poll[p].t] = "null" /\ PollMoved(p, "write", poll[p].t)
            \/ step[poll[p].t] # "null" /\ PollMoved(p, "publish", poll[p].t))
<1>1.
            \/ step[poll[p].t] = "null" /\ PollMoved(p, "write", poll[p].t)
            \/ step[poll[p].t] # "null" /\ PollMoved(p, "publish", poll[p].t)
  <2>1. SetPoll(p, "write") => PollMoved(p, "write", poll[p].t)
    BY PollGoesTo DEF PollPcs
  <2>2. SetPoll(p, "publish") => PollMoved(p, "publish", poll[p].t)
    BY PollGoesTo DEF PollPcs
  <2> QED
    BY <2>1, <2>2 DEF PollFind
<1>2. poll' \in [Pollers -> PollRows]
  BY <1>1 DEF PollMoved
<1>3. Types'
  BY <1>2, Constants DEF PollFind, Types, rows, zset, history
<1> QED
  BY <1>1, <1>3

LEMMA PollWriteMoves ==
  ASSUME Types, NEW p \in Pollers, PollWrite(p)
  PROVE  Types' /\ (PollMoved(p, "publish", poll[p].t))
<1>1. PollMoved(p, "publish", poll[p].t)
  BY PollGoesTo DEF PollWrite, PollPcs
<1>2. poll' \in [Pollers -> PollRows]
  BY <1>1 DEF PollMoved
<1>3. Types'
  BY <1>2, Constants DEF PollWrite, Types, rows, zset, history, StepValues
<1> QED
  BY <1>1, <1>3

LEMMA PollPublishMoves ==
  ASSUME Types, NEW p \in Pollers, PollPublish(p)
  PROVE  Types' /\ (PollMoved(p, "remove", poll[p].t))
<1>1. PollMoved(p, "remove", poll[p].t)
  BY PollGoesTo DEF PollPublish, PollPcs
<1>2. poll' \in [Pollers -> PollRows]
  BY <1>1 DEF PollMoved
<1>3. Types'
  BY <1>2, Constants DEF PollPublish, Types, rows, zset, history
<1> QED
  BY <1>1, <1>3

LEMMA PollRemoveMoves ==
  ASSUME Types, NEW p \in Pollers, PollRemove(p)
  PROVE  Types' /\ (PollMoved(p, "idle", poll[p].t))
<1>1. PollMoved(p, "idle", poll[p].t)
  BY PollGoesTo DEF PollRemove, PollPcs
<1>2. poll' \in [Pollers -> PollRows]
  BY <1>1 DEF PollMoved
<1>3. Types'
  BY <1>2, Constants DEF PollRemove, Types, rows, zset, history
<1> QED
  BY <1>1, <1>3

LEMMA PollFailsMoves ==
  ASSUME Types, NEW p \in Pollers, PollFails(p)
  PROVE  Types' /\ (PollMoved(p, "idle", poll[p].t))
<1>1. PollMoved(p, "idle", poll[p].t)
  BY PollGoesTo DEF PollFails, PollPcs
<1>2. poll' \in [Pollers -> PollRows]
  BY <1>1 DEF PollMoved
<1>3. Types'
  BY <1>2, Constants DEF PollFails, Types, rows, zset, history, Fault
<1> QED
  BY <1>1, <1>3

EventMoved(e, row) ==
  /\ event' \in [Events -> EventRows]
  /\ event'[e] = row
  /\ \A f \in Events : f # e => event'[f] = event[f]

EventRow(pc, todo, w, t, b) ==
  [pc |-> pc, todo |-> todo, waiter |-> w, target |-> t, buffered |-> b]

LEMMA EventSelectMoves ==
  ASSUME Types, NEW e \in Events, EventSelect(e)
  PROVE  Types' /\ (
            \E pc \in {"done", "find"} :
              EventMoved(e, EventRow(pc, waiters \ past, 0, 0, 0)))
<1>1.
            \E pc \in {"done", "find"} :
              EventMoved(e, EventRow(pc, waiters \ past, 0, 0, 0))
  <2> DEFINE pc == IF waiters \subseteq past THEN "done" ELSE "find"
  <2>1. SetEvent(e, pc, waiters \ past, 0, 0, 0)
    BY DEF EventSelect
  <2>2. pc \in EventPcs /\ pc \in {"done", "find"} /\ waiters \ past \in SUBSET EventSteps
    BY DEF EventPcs, Types
  <2> HIDE DEF pc
  <2> QED
    BY <2>1, <2>2, EventMoves DEF EventMoved, EventRow
<1>2. event' \in [Events -> EventRows]
  BY <1>1 DEF EventMoved
<1>3. Types'
  BY <1>2, Constants, Fields DEF EventSelect, Types, rows, zset, history
<1> QED
  BY <1>1, <1>3

LEMMA EventFindMoves ==
  ASSUME Types, Kinds, NEW e \in Events, EventFind(e)
  PROVE  Types' /\ (
            \E w \in event[e].todo :
              \/ /\ \A i \in Steps : step[i] # "null"
                 /\ EventMoved(e, EventRow("delete", event[e].todo, w, 0, event[e].buffered + 1))
              \/ \E i \in EventSteps :
                   /\ step[i] = "null"
                   /\ EventMoved(e, EventRow("fill", event[e].todo, w, i, event[e].buffered)))
<1>1.
            \E w \in event[e].todo :
              \/ /\ \A i \in Steps : step[i] # "null"
                 /\ EventMoved(e, EventRow("delete", event[e].todo, w, 0, event[e].buffered + 1))
              \/ \E i \in EventSteps :
                   /\ step[i] = "null"
                   /\ EventMoved(e, EventRow("fill", event[e].todo, w, i, event[e].buffered))
  <2>1. PICK w \in event[e].todo :
          \/ /\ \A i \in Steps : step[i] # "null"
             /\ SetEvent(e, "delete", event[e].todo, w, 0, event[e].buffered + 1)
          \/ \E i \in Steps :
               /\ step[i] = "null"
               /\ SetEvent(e, "fill", event[e].todo, w, i, event[e].buffered)
    BY DEF EventFind
  <2>2. w \in EventSteps /\ event[e].todo \in SUBSET EventSteps /\ event[e].buffered \in Nat
    BY Fields
  <2>3. CASE /\ \A i \in Steps : step[i] # "null"
             /\ SetEvent(e, "delete", event[e].todo, w, 0, event[e].buffered + 1)
    <3>1. event[e].buffered + 1 \in Nat
      BY <2>2
    <3>2. EventMoved(e, EventRow("delete", event[e].todo, w, 0, event[e].buffered + 1))
      BY <2>2, <2>3, <3>1, EventMoves DEF EventMoved, EventRow, EventPcs
    <3> QED
      BY <2>3, <3>2
  <2>4. ASSUME NEW i \in Steps, step[i] = "null",
               SetEvent(e, "fill", event[e].todo, w, i, event[e].buffered)
        PROVE  \E j \in EventSteps :
                 /\ step[j] = "null"
                 /\ EventMoved(e, EventRow("fill", event[e].todo, w, j, event[e].buffered))
    <3>1. i \in EventSteps
      BY <2>4, Constants DEF Kinds, EventSteps
    <3>2. EventMoved(e, EventRow("fill", event[e].todo, w, i, event[e].buffered))
      BY <2>2, <2>4, <3>1, EventMoves DEF EventMoved, EventRow, EventPcs
    <3> QED
      BY <2>4, <3>1, <3>2
  <2> QED
    BY <2>1, <2>3, <2>4
<1>2. event' \in [Events -> EventRows]
  BY <1>1 DEF EventMoved
<1>3. Types'
  BY <1>2, Constants, Fields DEF EventFind, Types, rows, zset, history
<1> QED
  BY <1>1, <1>3

LEMMA EventFillMoves ==
  ASSUME Types, NEW e \in Events, EventFill(e)
  PROVE  Types' /\ (
            EventMoved(e, EventRow("delete", event[e].todo, event[e].waiter, event[e].target,
                                   event[e].buffered + 1)))
<1>1.
            EventMoved(e, EventRow("delete", event[e].todo, event[e].waiter, event[e].target,
                                   event[e].buffered + 1))
  <2>1. event[e].buffered + 1 \in Nat
    BY Fields
  <2> QED
    BY <2>1, Fields, EventMoves DEF EventFill, EventMoved, EventRow, EventPcs
<1>2. event' \in [Events -> EventRows]
  BY <1>1 DEF EventMoved
<1>3. Types'
  BY <1>2, Constants, Fields DEF EventFill, Types, rows, zset, history, StepValues
<1> QED
  BY <1>1, <1>3

LEMMA EventDeleteMoves ==
  ASSUME Types, NEW e \in Events, EventDelete(e)
  PROVE  Types' /\ (
            \E pc \in {"find", "flush", "done"} :
              EventMoved(e, EventRow(pc, event[e].todo \ {event[e].waiter}, 0, 0,
                                     event[e].buffered)))
<1>1.
            \E pc \in {"find", "flush", "done"} :
              EventMoved(e, EventRow(pc, event[e].todo \ {event[e].waiter}, 0, 0,
                                     event[e].buffered))
  <2> DEFINE left == event[e].todo \ {event[e].waiter}
             pc == IF left # {} THEN "find" ELSE IF event[e].buffered > 0 THEN "flush" ELSE "done"
  <2>1. SetEvent(e, pc, left, 0, 0, event[e].buffered)
    BY DEF EventDelete
  <2>2. pc \in EventPcs /\ pc \in {"find", "flush", "done"} /\ left \in SUBSET EventSteps
    BY Fields DEF EventPcs
  <2> HIDE DEF pc
  <2> QED
    BY <2>1, <2>2, Fields, EventMoves DEF EventMoved, EventRow
<1>2. event' \in [Events -> EventRows]
  BY <1>1 DEF EventMoved
<1>3. Types'
  BY <1>2, Constants, Fields DEF EventDelete, Types, rows, zset, history
<1> QED
  BY <1>1, <1>3

LEMMA EventFlushMoves ==
  ASSUME Types, NEW e \in Events, EventFlush(e)
  PROVE  Types' /\ (
            \E pc \in {"done", event[e].pc} :
              EventMoved(e, EventRow(pc, event[e].todo, event[e].waiter, event[e].target, 0)))
<1>1.
            \E pc \in {"done", event[e].pc} :
              EventMoved(e, EventRow(pc, event[e].todo, event[e].waiter, event[e].target, 0))
  <2> DEFINE pc == IF event[e].pc = "flush" THEN "done" ELSE event[e].pc
  <2>1. SetEvent(e, pc, event[e].todo, event[e].waiter, event[e].target, 0)
    BY DEF EventFlush
  <2>2. pc \in EventPcs /\ pc \in {"done", event[e].pc}
    BY Fields DEF EventPcs
  <2> HIDE DEF pc
  <2> QED
    BY <2>1, <2>2, Fields, EventMoves DEF EventMoved, EventRow
<1>2. event' \in [Events -> EventRows]
  BY <1>1 DEF EventMoved
<1>3. Types'
  BY <1>2, Constants, Fields DEF EventFlush, Types, rows, zset, history
<1> QED
  BY <1>1, <1>3

LEMMA EventFailsMoves ==
  ASSUME Types, NEW e \in Events, EventFails(e)
  PROVE  Types' /\ (EventMoved(e, EventRow("again", {}, 0, 0, 0)))
<1>1. EventMoved(e, EventRow("again", {}, 0, 0, 0))
  BY EventMoves DEF EventFails, EventMoved, EventRow, EventPcs
<1>2. event' \in [Events -> EventRows]
  BY <1>1 DEF EventMoved
<1>3. Types'
  BY <1>2, Constants, Fields DEF EventFails, Types, rows, zset, history, Fault
<1> QED
  BY <1>1, <1>3

-----------------------------------------------------------------------------
(* Base is inductive.                                                      *)

LEMMA AtStepKept == AtStep /\ run' = run => AtStep'
BY DEF AtStep

LEMMA TypesStep ==
  ASSUME Types, Kinds, AtStep, [Next]_vars
  PROVE  Types' /\ AtStep'
<1>1. CASE UNCHANGED vars
  BY <1>1 DEF vars, Types, AtStep
<1>2. CASE Trigger
  BY <1>2, Constants DEF Trigger, Types, AtStep, rows, zset, history, Statuses, Finished
<1>3. CASE Cancel
  BY <1>3, Constants DEF Cancel, Types, AtStep, rows, zset, history, Statuses, Finished
<1>4. CASE LockExpires
  BY <1>4, Constants DEF LockExpires, Types, AtStep, rows, zset, history, Statuses, Finished
<1>5. CASE Reap
  BY <1>5, Constants DEF Reap, Types, AtStep, rows, zset, history, Statuses, Finished
<1>6. ASSUME NEW i \in Steps \union {Deferred}, Elapse(i) PROVE Types' /\ AtStep'
  BY <1>6, Constants DEF Elapse, Types, AtStep, rows, zset, history, Statuses, Finished
<1>7. ASSUME NEW t \in Members, Reappear(t) PROVE Types' /\ AtStep'
  BY <1>7, Constants DEF Reappear, Types, AtStep, rows, zset, history, Statuses, Finished
<1>8. ASSUME NEW r \in Runs, Deliver(r) PROVE Types' /\ AtStep'
  BY <1>8, DeliverMoves
<1>9. ASSUME NEW r \in Runs, Lock(r) PROVE Types' /\ AtStep'
  BY <1>9, LockMoves
<1>10. ASSUME NEW r \in Runs, Check(r) PROVE Types' /\ AtStep'
  BY <1>10, CheckMoves
<1>11. ASSUME NEW r \in Runs, Claim(r) PROVE Types' /\ AtStep'
  BY <1>11, ClaimMoves
<1>12. ASSUME NEW r \in Runs, Begin(r) PROVE Types' /\ AtStep'
  BY <1>12, BeginMoves
<1>13. ASSUME NEW r \in Runs, Act(r) PROVE Types' /\ AtStep'
  BY <1>13, ActMoves
<1>14. ASSUME NEW r \in Runs, Record(r) PROVE Types' /\ AtStep'
  BY <1>14, RecordMoves
<1>15. ASSUME NEW r \in Runs, ArmWait(r) PROVE Types' /\ AtStep'
  BY <1>15, ArmWaitMoves
<1>16. ASSUME NEW r \in Runs, Sleep(r) PROVE Types' /\ AtStep'
  BY <1>16, SleepMoves
<1>17. ASSUME NEW r \in Runs, ArmTimeout(r) PROVE Types' /\ AtStep'
  BY <1>17, ArmTimeoutMoves
<1>18. ASSUME NEW r \in Runs, Await(r) PROVE Types' /\ AtStep'
  BY <1>18, AwaitMoves
<1>19. ASSUME NEW r \in Runs, InsertWaiter(r) PROVE Types' /\ AtStep'
  BY <1>19, InsertWaiterMoves
<1>20. ASSUME NEW r \in Runs, StepFails(r) PROVE Types' /\ AtStep'
  BY <1>20, StepFailsMoves
<1>21. ASSUME NEW r \in Runs, Finish(r) PROVE Types' /\ AtStep'
  BY <1>21, FinishMoves
<1>22. ASSUME NEW r \in Runs, Release(r) PROVE Types' /\ AtStep'
  BY <1>22, ReleaseMoves
<1>23. ASSUME NEW r \in Runs, Crash(r) PROVE Types' /\ AtStep'
  BY <1>23, CrashMoves
<1>24. ASSUME NEW p \in Pollers, PollClaim(p) PROVE Types' /\ AtStep'
  BY <1>24, PollClaimMoves, AtStepKept DEF PollClaim
<1>25. ASSUME NEW p \in Pollers, PollLook(p) PROVE Types' /\ AtStep'
  BY <1>25, PollLookMoves, AtStepKept DEF PollLook
<1>26. ASSUME NEW p \in Pollers, PollExpire(p) PROVE Types' /\ AtStep'
  BY <1>26, PollExpireMoves, AtStepKept DEF PollExpire
<1>27. ASSUME NEW p \in Pollers, PollFind(p) PROVE Types' /\ AtStep'
  BY <1>27, PollFindMoves, AtStepKept DEF PollFind
<1>28. ASSUME NEW p \in Pollers, PollWrite(p) PROVE Types' /\ AtStep'
  BY <1>28, PollWriteMoves, AtStepKept DEF PollWrite
<1>29. ASSUME NEW p \in Pollers, PollPublish(p) PROVE Types' /\ AtStep'
  BY <1>29, PollPublishMoves, AtStepKept DEF PollPublish
<1>30. ASSUME NEW p \in Pollers, PollRemove(p) PROVE Types' /\ AtStep'
  BY <1>30, PollRemoveMoves, AtStepKept DEF PollRemove
<1>31. ASSUME NEW p \in Pollers, PollFails(p) PROVE Types' /\ AtStep'
  BY <1>31, PollFailsMoves, AtStepKept DEF PollFails
<1>32. ASSUME NEW e \in Events, EventSelect(e) PROVE Types' /\ AtStep'
  BY <1>32, EventSelectMoves, AtStepKept DEF EventSelect
<1>33. ASSUME NEW e \in Events, EventFind(e) PROVE Types' /\ AtStep'
  BY <1>33, EventFindMoves, AtStepKept DEF EventFind
<1>34. ASSUME NEW e \in Events, EventFill(e) PROVE Types' /\ AtStep'
  BY <1>34, EventFillMoves, AtStepKept DEF EventFill
<1>35. ASSUME NEW e \in Events, EventDelete(e) PROVE Types' /\ AtStep'
  BY <1>35, EventDeleteMoves, AtStepKept DEF EventDelete
<1>36. ASSUME NEW e \in Events, EventFlush(e) PROVE Types' /\ AtStep'
  BY <1>36, EventFlushMoves, AtStepKept DEF EventFlush
<1>37. ASSUME NEW e \in Events, EventFails(e) PROVE Types' /\ AtStep'
  BY <1>37, EventFailsMoves, AtStepKept DEF EventFails
<1> QED
  BY <1>1, <1>2, <1>3, <1>4, <1>5, <1>6, <1>7, <1>8, <1>9, <1>10, <1>11,
     <1>12, <1>13, <1>14, <1>15, <1>16, <1>17, <1>18, <1>19, <1>20,
     <1>21, <1>22, <1>23, <1>24, <1>25, <1>26, <1>27, <1>28, <1>29,
     <1>30, <1>31, <1>32, <1>33, <1>34, <1>35, <1>36, <1>37
     DEF Next, Run, Poll, Event, Time

LEMMA KindsStep ==
  ASSUME Types, Kinds, AtStep, [Next]_vars
  PROVE  Kinds'
<1>1. CASE UNCHANGED vars
  BY <1>1 DEF vars, Kinds
<1>2. CASE Trigger
  BY <1>2 DEF Trigger, Kinds, rows, zset, history
<1>3. CASE Cancel
  BY <1>3 DEF Cancel, Kinds, rows, zset, history
<1>4. CASE LockExpires
  BY <1>4 DEF LockExpires, Kinds, rows, zset, history
<1>5. CASE Reap
  BY <1>5 DEF Reap, Kinds, rows, zset, history
<1>6. ASSUME NEW i \in Steps \union {Deferred}, Elapse(i) PROVE Kinds'
  BY <1>6 DEF Elapse, Kinds, rows, zset, history
<1>7. ASSUME NEW t \in Members, Reappear(t) PROVE Kinds'
  BY <1>7 DEF Reappear, Kinds, rows, zset, history
<1>8. ASSUME NEW r \in Runs, Deliver(r) PROVE Kinds'
  BY <1>8 DEF Deliver, Kinds, rows, zset, history
<1>9. ASSUME NEW r \in Runs, Lock(r) PROVE Kinds'
  BY <1>9 DEF Lock, Kinds, rows, zset, history, DeferResume, Arm
<1>10. ASSUME NEW r \in Runs, Check(r) PROVE Kinds'
  BY <1>10 DEF Check, Kinds, rows, zset, history, DeferResume, Arm
<1>11. ASSUME NEW r \in Runs, Claim(r) PROVE Kinds'
  BY <1>11 DEF Claim, Kinds, rows, zset, history
<1>12. ASSUME NEW r \in Runs, Begin(r) PROVE Kinds'
  BY <1>12 DEF Begin, Kinds, rows, zset, history
<1>13. ASSUME NEW r \in Runs, Act(r) PROVE Kinds'
  BY <1>13 DEF Act, Kinds, rows, zset, history
<1>14. ASSUME NEW r \in Runs, Record(r) PROVE Kinds'
  BY <1>14, Fields, Constants DEF Record, Kinds, rows, zset, history, AtStep, EventSteps, Types
<1>15. ASSUME NEW r \in Runs, ArmWait(r) PROVE Kinds'
  BY <1>15, Fields, Constants DEF ArmWait, Kinds, rows, zset, history, Arm, AtStep
<1>16. ASSUME NEW r \in Runs, Sleep(r) PROVE Kinds'
  BY <1>16, Fields, Constants DEF Sleep, Kinds, rows, zset, history, AtStep, EventSteps, Types
<1>17. ASSUME NEW r \in Runs, ArmTimeout(r) PROVE Kinds'
  BY <1>17 DEF ArmTimeout, Kinds, rows, zset, history, Arm
<1>18. ASSUME NEW r \in Runs, Await(r) PROVE Kinds'
  BY <1>18, Fields, Constants DEF Await, Kinds, rows, zset, history, AtStep, EventSteps, Types
<1>19. ASSUME NEW r \in Runs, InsertWaiter(r) PROVE Kinds'
  BY <1>19 DEF InsertWaiter, Kinds, rows, zset, history
<1>20. ASSUME NEW r \in Runs, StepFails(r) PROVE Kinds'
  BY <1>20 DEF StepFails, Kinds, rows, zset, history
<1>21. ASSUME NEW r \in Runs, Finish(r) PROVE Kinds'
  BY <1>21 DEF Finish, Kinds, rows, zset, history
<1>22. ASSUME NEW r \in Runs, Release(r) PROVE Kinds'
  BY <1>22 DEF Release, Kinds, rows, zset, history
<1>23. ASSUME NEW r \in Runs, Crash(r) PROVE Kinds'
  BY <1>23 DEF Crash, Kinds, rows, zset, history
<1>24. ASSUME NEW p \in Pollers, PollClaim(p) PROVE Kinds'
  BY <1>24 DEF PollClaim, Kinds, rows, zset, history
<1>25. ASSUME NEW p \in Pollers, PollLook(p) PROVE Kinds'
  BY <1>25 DEF PollLook, Kinds, rows, zset, history
<1>26. ASSUME NEW p \in Pollers, PollExpire(p) PROVE Kinds'
  BY <1>26 DEF PollExpire, Kinds, rows, zset, history
<1>27. ASSUME NEW p \in Pollers, PollFind(p) PROVE Kinds'
  BY <1>27 DEF PollFind, Kinds, rows, zset, history
<1>28. ASSUME NEW p \in Pollers, PollWrite(p) PROVE Kinds'
  <2>1. poll[p].t \in Members
    BY Fields
  <2>2. \A i \in Steps : i = poll[p].t => Program[i] = "event"
    BY <2>1 DEF Members, EventSteps, Wake, Deferred, Steps
  <2>3. \A i \in Steps : step'[i] = IF i = poll[p].t THEN "timedOut" ELSE step[i]
    BY <1>28 DEF PollWrite, Types
  <2> QED
    BY <1>28, <2>2, <2>3 DEF PollWrite, Kinds, rows, zset, history
<1>29. ASSUME NEW p \in Pollers, PollPublish(p) PROVE Kinds'
  BY <1>29 DEF PollPublish, Kinds, rows, zset, history
<1>30. ASSUME NEW p \in Pollers, PollRemove(p) PROVE Kinds'
  BY <1>30 DEF PollRemove, Kinds, rows, zset, history
<1>31. ASSUME NEW p \in Pollers, PollFails(p) PROVE Kinds'
  BY <1>31 DEF PollFails, Kinds, rows, zset, history
<1>32. ASSUME NEW e \in Events, EventSelect(e) PROVE Kinds'
  BY <1>32 DEF EventSelect, Kinds, rows, zset, history
<1>33. ASSUME NEW e \in Events, EventFind(e) PROVE Kinds'
  BY <1>33 DEF EventFind, Kinds, rows, zset, history
<1>34. ASSUME NEW e \in Events, EventFill(e) PROVE Kinds'
  <2>1. event[e].target \in EventSteps \union {0}
    BY Fields
  <2>2. \A i \in Steps : i = event[e].target => Program[i] = "event"
    BY <2>1 DEF EventSteps, Steps
  <2>3. \A i \in Steps : step'[i] = IF i = event[e].target THEN "data" ELSE step[i]
    BY <1>34 DEF EventFill, Types
  <2> QED
    BY <1>34, <2>2, <2>3 DEF EventFill, Kinds, rows, zset, history
<1>35. ASSUME NEW e \in Events, EventDelete(e) PROVE Kinds'
  BY <1>35 DEF EventDelete, Kinds, rows, zset, history
<1>36. ASSUME NEW e \in Events, EventFlush(e) PROVE Kinds'
  BY <1>36 DEF EventFlush, Kinds, rows, zset, history
<1>37. ASSUME NEW e \in Events, EventFails(e) PROVE Kinds'
  BY <1>37 DEF EventFails, Kinds, rows, zset, history
<1> QED
  BY <1>1, <1>2, <1>3, <1>4, <1>5, <1>6, <1>7, <1>8, <1>9, <1>10, <1>11,
     <1>12, <1>13, <1>14, <1>15, <1>16, <1>17, <1>18, <1>19, <1>20,
     <1>21, <1>22, <1>23, <1>24, <1>25, <1>26, <1>27, <1>28, <1>29,
     <1>30, <1>31, <1>32, <1>33, <1>34, <1>35, <1>36, <1>37
     DEF Next, Run, Poll, Event, Time

LEMMA AloneStep ==
  ASSUME Types, Kinds, AtStep, Alone, [Next]_vars
  PROVE  Alone'
<1>1. CASE UNCHANGED vars
  BY <1>1 DEF vars, Alone
<1>2. CASE Trigger
  BY <1>2 DEF Trigger, Alone
<1>3. CASE Cancel
  BY <1>3 DEF Cancel, Alone
<1>4. CASE LockExpires
  BY <1>4, Constants DEF LockExpires, Alone
<1>5. CASE Reap
  BY <1>5 DEF Reap, Alone
<1>6. ASSUME NEW i \in Steps \union {Deferred}, Elapse(i) PROVE Alone'
  BY <1>6 DEF Elapse, Alone
<1>7. ASSUME NEW t \in Members, Reappear(t) PROVE Alone'
  BY <1>7 DEF Reappear, Alone
<1>8. ASSUME NEW r \in Runs, Deliver(r) PROVE Alone'
  BY <1>8, DeliverMoves, Constants DEF Deliver, Alone, Moved, Types
<1>9. ASSUME NEW r \in Runs, Lock(r) PROVE Alone'
  BY <1>9, LockMoves, Constants DEF Lock, Alone, Moved, Types
<1>10. ASSUME NEW r \in Runs, Check(r) PROVE Alone'
  BY <1>10, CheckMoves, Constants DEF Check, Alone, Moved, Types
<1>11. ASSUME NEW r \in Runs, Claim(r) PROVE Alone'
  BY <1>11, ClaimMoves, Constants DEF Claim, Alone, Moved, Types
<1>12. ASSUME NEW r \in Runs, Begin(r) PROVE Alone'
  BY <1>12, BeginMoves, Constants DEF Begin, Alone, Moved, Types, AtStep
<1>13. ASSUME NEW r \in Runs, Act(r) PROVE Alone'
  BY <1>13, ActMoves, Constants DEF Act, Alone, Moved, Types
<1>14. ASSUME NEW r \in Runs, Record(r) PROVE Alone'
  BY <1>14, RecordMoves, Constants DEF Record, Alone, Moved, Types
<1>15. ASSUME NEW r \in Runs, ArmWait(r) PROVE Alone'
  BY <1>15, ArmWaitMoves, Constants DEF ArmWait, Alone, Moved, Types
<1>16. ASSUME NEW r \in Runs, Sleep(r) PROVE Alone'
  BY <1>16, SleepMoves, Constants DEF Sleep, Alone, Moved, Types
<1>17. ASSUME NEW r \in Runs, ArmTimeout(r) PROVE Alone'
  BY <1>17, ArmTimeoutMoves, Constants DEF ArmTimeout, Alone, Moved, Types
<1>18. ASSUME NEW r \in Runs, Await(r) PROVE Alone'
  BY <1>18, AwaitMoves, Constants DEF Await, Alone, Moved, Types
<1>19. ASSUME NEW r \in Runs, InsertWaiter(r) PROVE Alone'
  BY <1>19, InsertWaiterMoves, Constants DEF InsertWaiter, Alone, Moved, Types
<1>20. ASSUME NEW r \in Runs, StepFails(r) PROVE Alone'
  BY <1>20, StepFailsMoves, Constants DEF StepFails, Alone, Moved, Types
<1>21. ASSUME NEW r \in Runs, Finish(r) PROVE Alone'
  BY <1>21, FinishMoves, Constants DEF Finish, Alone, Moved, Types
<1>22. ASSUME NEW r \in Runs, Release(r) PROVE Alone'
  BY <1>22, ReleaseMoves, Constants DEF Release, Alone, Moved, Types
<1>23. ASSUME NEW r \in Runs, Crash(r) PROVE Alone'
  BY <1>23, CrashMoves, Constants DEF Crash, Alone, Moved, Types
<1>24. ASSUME NEW p \in Pollers, PollClaim(p) PROVE Alone'
  BY <1>24 DEF PollClaim, Alone
<1>25. ASSUME NEW p \in Pollers, PollLook(p) PROVE Alone'
  BY <1>25 DEF PollLook, Alone
<1>26. ASSUME NEW p \in Pollers, PollExpire(p) PROVE Alone'
  BY <1>26 DEF PollExpire, Alone
<1>27. ASSUME NEW p \in Pollers, PollFind(p) PROVE Alone'
  BY <1>27 DEF PollFind, Alone
<1>28. ASSUME NEW p \in Pollers, PollWrite(p) PROVE Alone'
  BY <1>28 DEF PollWrite, Alone
<1>29. ASSUME NEW p \in Pollers, PollPublish(p) PROVE Alone'
  BY <1>29 DEF PollPublish, Alone
<1>30. ASSUME NEW p \in Pollers, PollRemove(p) PROVE Alone'
  BY <1>30 DEF PollRemove, Alone
<1>31. ASSUME NEW p \in Pollers, PollFails(p) PROVE Alone'
  BY <1>31 DEF PollFails, Alone
<1>32. ASSUME NEW e \in Events, EventSelect(e) PROVE Alone'
  BY <1>32 DEF EventSelect, Alone
<1>33. ASSUME NEW e \in Events, EventFind(e) PROVE Alone'
  BY <1>33 DEF EventFind, Alone
<1>34. ASSUME NEW e \in Events, EventFill(e) PROVE Alone'
  BY <1>34 DEF EventFill, Alone
<1>35. ASSUME NEW e \in Events, EventDelete(e) PROVE Alone'
  BY <1>35 DEF EventDelete, Alone
<1>36. ASSUME NEW e \in Events, EventFlush(e) PROVE Alone'
  BY <1>36 DEF EventFlush, Alone
<1>37. ASSUME NEW e \in Events, EventFails(e) PROVE Alone'
  BY <1>37 DEF EventFails, Alone
<1> QED
  BY <1>1, <1>2, <1>3, <1>4, <1>5, <1>6, <1>7, <1>8, <1>9, <1>10, <1>11,
     <1>12, <1>13, <1>14, <1>15, <1>16, <1>17, <1>18, <1>19, <1>20,
     <1>21, <1>22, <1>23, <1>24, <1>25, <1>26, <1>27, <1>28, <1>29,
     <1>30, <1>31, <1>32, <1>33, <1>34, <1>35, <1>36, <1>37
     DEF Next, Run, Poll, Event, Time

LEMMA UntouchedStep ==
  ASSUME Types, Untouched, [Next]_vars
  PROVE  Untouched'
<1>1. CASE UNCHANGED vars
  BY <1>1 DEF vars, Untouched
<1>2. CASE Trigger
  BY <1>2 DEF Trigger, Untouched, rows, zset, history
<1>3. CASE Cancel
  BY <1>3 DEF Cancel, Untouched, rows, zset, history
<1>4. CASE LockExpires
  BY <1>4 DEF LockExpires, Untouched, rows, zset, history
<1>5. CASE Reap
  BY <1>5 DEF Reap, Untouched, rows, zset, history
<1>6. ASSUME NEW i \in Steps \union {Deferred}, Elapse(i) PROVE Untouched'
  BY <1>6 DEF Elapse, Untouched, rows, zset, history
<1>7. ASSUME NEW t \in Members, Reappear(t) PROVE Untouched'
  BY <1>7 DEF Reappear, Untouched, rows, zset, history
<1>8. ASSUME NEW r \in Runs, Deliver(r) PROVE Untouched'
  <2>1. status # "new"
    BY <1>8 DEF Deliver, Untouched
  <2>2. status' # "new"
    BY <1>8, <2>1 DEF Deliver, rows, zset, history
  <2> QED
    BY <2>2 DEF Untouched
<1>9. ASSUME NEW r \in Runs, Lock(r) PROVE Untouched'
  <2>1. status # "new"
    BY <1>9 DEF Lock, Untouched
  <2>2. status' # "new"
    BY <1>9, <2>1 DEF Lock, rows, zset, history
  <2> QED
    BY <2>2 DEF Untouched
<1>10. ASSUME NEW r \in Runs, Check(r) PROVE Untouched'
  <2>1. status # "new"
    BY <1>10 DEF Check, Untouched
  <2>2. status' # "new"
    BY <1>10, <2>1 DEF Check, rows, zset, history
  <2> QED
    BY <2>2 DEF Untouched
<1>11. ASSUME NEW r \in Runs, Claim(r) PROVE Untouched'
  <2>1. status # "new"
    BY <1>11 DEF Claim, Untouched
  <2>2. status' # "new"
    BY <1>11, <2>1 DEF Claim, rows, zset, history
  <2> QED
    BY <2>2 DEF Untouched
<1>12. ASSUME NEW r \in Runs, Begin(r) PROVE Untouched'
  <2>1. status # "new"
    BY <1>12 DEF Begin, Untouched
  <2>2. status' # "new"
    BY <1>12, <2>1 DEF Begin, rows, zset, history
  <2> QED
    BY <2>2 DEF Untouched
<1>13. ASSUME NEW r \in Runs, Act(r) PROVE Untouched'
  <2>1. status # "new"
    BY <1>13 DEF Act, Untouched
  <2>2. status' # "new"
    BY <1>13, <2>1 DEF Act, rows, zset, history
  <2> QED
    BY <2>2 DEF Untouched
<1>14. ASSUME NEW r \in Runs, Record(r) PROVE Untouched'
  <2>1. status # "new"
    BY <1>14 DEF Record, Untouched
  <2>2. status' # "new"
    BY <1>14, <2>1 DEF Record, rows, zset, history
  <2> QED
    BY <2>2 DEF Untouched
<1>15. ASSUME NEW r \in Runs, ArmWait(r) PROVE Untouched'
  <2>1. status # "new"
    BY <1>15 DEF ArmWait, Untouched
  <2>2. status' # "new"
    BY <1>15, <2>1 DEF ArmWait, rows, zset, history
  <2> QED
    BY <2>2 DEF Untouched
<1>16. ASSUME NEW r \in Runs, Sleep(r) PROVE Untouched'
  <2>1. status # "new"
    BY <1>16 DEF Sleep, Untouched
  <2>2. status' # "new"
    BY <1>16, <2>1 DEF Sleep, rows, zset, history
  <2> QED
    BY <2>2 DEF Untouched
<1>17. ASSUME NEW r \in Runs, ArmTimeout(r) PROVE Untouched'
  <2>1. status # "new"
    BY <1>17 DEF ArmTimeout, Untouched
  <2>2. status' # "new"
    BY <1>17, <2>1 DEF ArmTimeout, rows, zset, history
  <2> QED
    BY <2>2 DEF Untouched
<1>18. ASSUME NEW r \in Runs, Await(r) PROVE Untouched'
  <2>1. status # "new"
    BY <1>18 DEF Await, Untouched
  <2>2. status' # "new"
    BY <1>18, <2>1 DEF Await, rows, zset, history
  <2> QED
    BY <2>2 DEF Untouched
<1>19. ASSUME NEW r \in Runs, InsertWaiter(r) PROVE Untouched'
  <2>1. status # "new"
    BY <1>19 DEF InsertWaiter, Untouched
  <2>2. status' # "new"
    BY <1>19, <2>1 DEF InsertWaiter, rows, zset, history
  <2> QED
    BY <2>2 DEF Untouched
<1>20. ASSUME NEW r \in Runs, StepFails(r) PROVE Untouched'
  <2>1. status # "new"
    BY <1>20 DEF StepFails, Untouched
  <2>2. status' # "new"
    BY <1>20, <2>1 DEF StepFails, rows, zset, history
  <2> QED
    BY <2>2 DEF Untouched
<1>21. ASSUME NEW r \in Runs, Finish(r) PROVE Untouched'
  <2>1. status # "new"
    BY <1>21 DEF Finish, Untouched
  <2>2. status' # "new"
    BY <1>21, <2>1 DEF Finish, rows, zset, history
  <2> QED
    BY <2>2 DEF Untouched
<1>22. ASSUME NEW r \in Runs, Release(r) PROVE Untouched'
  <2>1. status # "new"
    BY <1>22 DEF Release, Untouched
  <2>2. status' # "new"
    BY <1>22, <2>1 DEF Release, rows, zset, history
  <2> QED
    BY <2>2 DEF Untouched
<1>23. ASSUME NEW r \in Runs, Crash(r) PROVE Untouched'
  <2>1. status # "new"
    BY <1>23 DEF Crash, Untouched
  <2>2. status' # "new"
    BY <1>23, <2>1 DEF Crash, rows, zset, history
  <2> QED
    BY <2>2 DEF Untouched
<1>24. ASSUME NEW p \in Pollers, PollClaim(p) PROVE Untouched'
  <2>1. status # "new" /\ status' = status
    BY <1>24, Fields DEF PollClaim, Untouched, rows, zset, history
  <2> QED
    BY <2>1 DEF Untouched
<1>25. ASSUME NEW p \in Pollers, PollLook(p) PROVE Untouched'
  <2>1. status # "new" /\ status' = status
    BY <1>25 DEF PollLook, Untouched, rows, zset, history
  <2> QED
    BY <2>1 DEF Untouched
<1>26. ASSUME NEW p \in Pollers, PollExpire(p) PROVE Untouched'
  <2>1. status # "new" /\ status' = status
    BY <1>26 DEF PollExpire, Untouched, rows, zset, history
  <2> QED
    BY <2>1 DEF Untouched
<1>27. ASSUME NEW p \in Pollers, PollFind(p) PROVE Untouched'
  <2>1. status # "new" /\ status' = status
    BY <1>27 DEF PollFind, Untouched, rows, zset, history
  <2> QED
    BY <2>1 DEF Untouched
<1>28. ASSUME NEW p \in Pollers, PollWrite(p) PROVE Untouched'
  <2>1. status # "new" /\ status' = status
    BY <1>28 DEF PollWrite, Untouched, rows, zset, history
  <2> QED
    BY <2>1 DEF Untouched
<1>29. ASSUME NEW p \in Pollers, PollPublish(p) PROVE Untouched'
  <2>1. status # "new" /\ status' = status
    BY <1>29 DEF PollPublish, Untouched, rows, zset, history
  <2> QED
    BY <2>1 DEF Untouched
<1>30. ASSUME NEW p \in Pollers, PollRemove(p) PROVE Untouched'
  <2>1. status # "new" /\ status' = status
    BY <1>30 DEF PollRemove, Untouched, rows, zset, history
  <2> QED
    BY <2>1 DEF Untouched
<1>31. ASSUME NEW p \in Pollers, PollFails(p) PROVE Untouched'
  <2>1. status # "new" /\ status' = status
    BY <1>31 DEF PollFails, Untouched, rows, zset, history
  <2> QED
    BY <2>1 DEF Untouched
<1>32. ASSUME NEW e \in Events, EventSelect(e) PROVE Untouched'
  <2>1. status # "new" /\ status' = status
    BY <1>32, Fields DEF EventSelect, Untouched, rows, zset, history
  <2> QED
    BY <2>1 DEF Untouched
<1>33. ASSUME NEW e \in Events, EventFind(e) PROVE Untouched'
  <2>1. status # "new" /\ status' = status
    BY <1>33, Fields DEF EventFind, Untouched, rows, zset, history
  <2> QED
    BY <2>1 DEF Untouched
<1>34. ASSUME NEW e \in Events, EventFill(e) PROVE Untouched'
  <2>1. status # "new" /\ status' = status
    BY <1>34, Fields DEF EventFill, Untouched, rows, zset, history
  <2> QED
    BY <2>1 DEF Untouched
<1>35. ASSUME NEW e \in Events, EventDelete(e) PROVE Untouched'
  <2>1. status # "new" /\ status' = status
    BY <1>35, Fields DEF EventDelete, Untouched, rows, zset, history
  <2> QED
    BY <2>1 DEF Untouched
<1>36. ASSUME NEW e \in Events, EventFlush(e) PROVE Untouched'
  <2>1. status # "new" /\ status' = status
    BY <1>36, Fields DEF EventFlush, Untouched, rows, zset, history
  <2> QED
    BY <2>1 DEF Untouched
<1>37. ASSUME NEW e \in Events, EventFails(e) PROVE Untouched'
  <2>1. status # "new" /\ status' = status
    BY <1>37, Fields DEF EventFails, Untouched, rows, zset, history
  <2> QED
    BY <2>1 DEF Untouched
<1> QED
  BY <1>1, <1>2, <1>3, <1>4, <1>5, <1>6, <1>7, <1>8, <1>9, <1>10, <1>11,
     <1>12, <1>13, <1>14, <1>15, <1>16, <1>17, <1>18, <1>19, <1>20,
     <1>21, <1>22, <1>23, <1>24, <1>25, <1>26, <1>27, <1>28, <1>29,
     <1>30, <1>31, <1>32, <1>33, <1>34, <1>35, <1>36, <1>37
     DEF Next, Run, Poll, Event, Time

LEMMA InboxStep ==
  ASSUME Types, AtStep, Alone, Untouched, InboxFits, [Next]_vars
  PROVE  InboxFits'
<1>1. CASE UNCHANGED vars
  BY <1>1 DEF vars, InboxFits
<1>2. CASE Trigger
  BY <1>2, Constants DEF Trigger, InboxFits, Types, Untouched
<1>3. CASE Cancel
  BY <1>3, Constants DEF Cancel, InboxFits, Types, Untouched
<1>4. CASE LockExpires
  BY <1>4, Constants DEF LockExpires, InboxFits, Types, Untouched
<1>5. CASE Reap
  BY <1>5, Constants DEF Reap, InboxFits, Types, Untouched
<1>6. ASSUME NEW i \in Steps \union {Deferred}, Elapse(i) PROVE InboxFits'
  BY <1>6, Constants DEF Elapse, InboxFits, Types, Untouched
<1>7. ASSUME NEW t \in Members, Reappear(t) PROVE InboxFits'
  BY <1>7, Constants DEF Reappear, InboxFits, Types, Untouched
<1>8. ASSUME NEW r \in Runs, Deliver(r) PROVE InboxFits'
  BY <1>8, DeliverMoves, Constants DEF Deliver, InboxFits, Moved, Types, Alone
<1>9. ASSUME NEW r \in Runs, Lock(r) PROVE InboxFits'
  BY <1>9, LockMoves, Constants DEF Lock, InboxFits, Moved, Types, Alone
<1>10. ASSUME NEW r \in Runs, Check(r) PROVE InboxFits'
  BY <1>10, CheckMoves, Constants DEF Check, InboxFits, Moved, Types, Alone
<1>11. ASSUME NEW r \in Runs, Claim(r) PROVE InboxFits'
  BY <1>11, ClaimMoves, Constants DEF Claim, InboxFits, Moved, Types, Alone
<1>12. ASSUME NEW r \in Runs, Begin(r) PROVE InboxFits'
  <2>1. (\E q \in Runs : run'[q].pc = "retry") => \E q \in Runs : run[q].pc = "retry"
    BY <1>12, BeginMoves, Constants DEF Moved, Begin, AtStep
  <2>2. inbox' = inbox /\ faults' = faults
    BY <1>12 DEF Begin, rows, zset, history
  <2> QED
    BY <2>1, <2>2 DEF InboxFits
<1>13. ASSUME NEW r \in Runs, Act(r) PROVE InboxFits'
  <2>1. (\E q \in Runs : run'[q].pc = "retry") => \E q \in Runs : run[q].pc = "retry"
    BY <1>13, ActMoves DEF Moved
  <2>2. inbox' = inbox /\ faults' = faults
    BY <1>13 DEF Act, rows, zset, history
  <2> QED
    BY <2>1, <2>2 DEF InboxFits
<1>14. ASSUME NEW r \in Runs, Record(r) PROVE InboxFits'
  <2>1. (\E q \in Runs : run'[q].pc = "retry") => \E q \in Runs : run[q].pc = "retry"
    BY <1>14, RecordMoves DEF Moved
  <2>2. inbox' = inbox /\ faults' = faults
    BY <1>14 DEF Record, rows, zset, history
  <2> QED
    BY <2>1, <2>2 DEF InboxFits
<1>15. ASSUME NEW r \in Runs, ArmWait(r) PROVE InboxFits'
  <2>1. (\E q \in Runs : run'[q].pc = "retry") => \E q \in Runs : run[q].pc = "retry"
    BY <1>15, ArmWaitMoves DEF Moved
  <2>2. inbox' = inbox /\ faults' = faults
    BY <1>15 DEF ArmWait, rows, zset, history
  <2> QED
    BY <2>1, <2>2 DEF InboxFits
<1>16. ASSUME NEW r \in Runs, Sleep(r) PROVE InboxFits'
  <2>1. (\E q \in Runs : run'[q].pc = "retry") => \E q \in Runs : run[q].pc = "retry"
    BY <1>16, SleepMoves DEF Moved
  <2>2. inbox' = inbox /\ faults' = faults
    BY <1>16 DEF Sleep, rows, zset, history
  <2> QED
    BY <2>1, <2>2 DEF InboxFits
<1>17. ASSUME NEW r \in Runs, ArmTimeout(r) PROVE InboxFits'
  <2>1. (\E q \in Runs : run'[q].pc = "retry") => \E q \in Runs : run[q].pc = "retry"
    BY <1>17, ArmTimeoutMoves DEF Moved
  <2>2. inbox' = inbox /\ faults' = faults
    BY <1>17 DEF ArmTimeout, rows, zset, history
  <2> QED
    BY <2>1, <2>2 DEF InboxFits
<1>18. ASSUME NEW r \in Runs, Await(r) PROVE InboxFits'
  <2>1. (\E q \in Runs : run'[q].pc = "retry") => \E q \in Runs : run[q].pc = "retry"
    BY <1>18, AwaitMoves DEF Moved
  <2>2. inbox' = inbox /\ faults' = faults
    BY <1>18 DEF Await, rows, zset, history
  <2> QED
    BY <2>1, <2>2 DEF InboxFits
<1>19. ASSUME NEW r \in Runs, InsertWaiter(r) PROVE InboxFits'
  <2>1. (\E q \in Runs : run'[q].pc = "retry") => \E q \in Runs : run[q].pc = "retry"
    BY <1>19, InsertWaiterMoves DEF Moved
  <2>2. inbox' = inbox /\ faults' = faults
    BY <1>19 DEF InsertWaiter, rows, zset, history
  <2> QED
    BY <2>1, <2>2 DEF InboxFits
<1>20. ASSUME NEW r \in Runs, StepFails(r) PROVE InboxFits'
  BY <1>20, StepFailsMoves, Constants DEF StepFails, InboxFits, Moved, Types, Alone, Fault
<1>21. ASSUME NEW r \in Runs, Finish(r) PROVE InboxFits'
  BY <1>21, FinishMoves, Constants DEF Finish, InboxFits, Moved, Types, Alone, Fault
<1>22. ASSUME NEW r \in Runs, Release(r) PROVE InboxFits'
  BY <1>22, ReleaseMoves, Constants DEF Release, InboxFits, Moved, Types, Alone, Fault
<1>23. ASSUME NEW r \in Runs, Crash(r) PROVE InboxFits'
  BY <1>23, CrashMoves, Constants DEF Crash, InboxFits, Moved, Types, Alone, Fault
<1>24. ASSUME NEW p \in Pollers, PollClaim(p) PROVE InboxFits'
  BY <1>24, Constants, Fields DEF PollClaim, InboxFits, Types
<1>25. ASSUME NEW p \in Pollers, PollLook(p) PROVE InboxFits'
  BY <1>25, Constants, Fields DEF PollLook, InboxFits, Types
<1>26. ASSUME NEW p \in Pollers, PollExpire(p) PROVE InboxFits'
  BY <1>26, Constants, Fields DEF PollExpire, InboxFits, Types
<1>27. ASSUME NEW p \in Pollers, PollFind(p) PROVE InboxFits'
  BY <1>27, Constants, Fields DEF PollFind, InboxFits, Types
<1>28. ASSUME NEW p \in Pollers, PollWrite(p) PROVE InboxFits'
  BY <1>28, Constants, Fields DEF PollWrite, InboxFits, Types
<1>29. ASSUME NEW p \in Pollers, PollPublish(p) PROVE InboxFits'
  BY <1>29, Constants, Fields DEF PollPublish, InboxFits, Types
<1>30. ASSUME NEW p \in Pollers, PollRemove(p) PROVE InboxFits'
  BY <1>30, Constants, Fields DEF PollRemove, InboxFits, Types
<1>31. ASSUME NEW p \in Pollers, PollFails(p) PROVE InboxFits'
  BY <1>31, Constants, Fields DEF PollFails, InboxFits, Types, Fault
<1>32. ASSUME NEW e \in Events, EventSelect(e) PROVE InboxFits'
  BY <1>32, Constants, Fields DEF EventSelect, InboxFits, Types
<1>33. ASSUME NEW e \in Events, EventFind(e) PROVE InboxFits'
  BY <1>33, Constants, Fields DEF EventFind, InboxFits, Types
<1>34. ASSUME NEW e \in Events, EventFill(e) PROVE InboxFits'
  BY <1>34, Constants, Fields DEF EventFill, InboxFits, Types
<1>35. ASSUME NEW e \in Events, EventDelete(e) PROVE InboxFits'
  BY <1>35, Constants, Fields DEF EventDelete, InboxFits, Types
<1>36. ASSUME NEW e \in Events, EventFlush(e) PROVE InboxFits'
  BY <1>36, Constants, Fields DEF EventFlush, InboxFits, Types
<1>37. ASSUME NEW e \in Events, EventFails(e) PROVE InboxFits'
  BY <1>37, Constants, Fields DEF EventFails, InboxFits, Types, Fault
<1> QED
  BY <1>1, <1>2, <1>3, <1>4, <1>5, <1>6, <1>7, <1>8, <1>9, <1>10, <1>11,
     <1>12, <1>13, <1>14, <1>15, <1>16, <1>17, <1>18, <1>19, <1>20,
     <1>21, <1>22, <1>23, <1>24, <1>25, <1>26, <1>27, <1>28, <1>29,
     <1>30, <1>31, <1>32, <1>33, <1>34, <1>35, <1>36, <1>37
     DEF Next, Run, Poll, Event, Time

LEMMA BaseInit == Init => Base
<1> SUFFICES ASSUME Init PROVE Base
  OBVIOUS
<1>1. /\ run \in [Runs -> RunRows] /\ poll \in [Pollers -> PollRows]
      /\ event \in [Events -> EventRows]
  BY Constants DEF Init, RunRows, RunPcs, Places, PollRows, PollPcs, Members, EventRows, EventPcs
<1>2. Types
  BY <1>1, Constants DEF Init, Types, Statuses, StepValues, Places
<1>3. Kinds /\ AtStep /\ Alone /\ Untouched /\ InboxFits
  BY Constants DEF Init, Kinds, AtStep, Alone, Untouched, InboxFits
<1> QED
  BY <1>2, <1>3 DEF Base

LEMMA BaseStep == Base /\ [Next]_vars => Base'
BY TypesStep, KindsStep, AloneStep, UntouchedStep, InboxStep DEF Base

LEMMA BaseHolds == Spec => []Base
<1> QED
  BY BaseInit, BaseStep, PTL DEF Spec

\* Workflow's type invariant: in particular a step's row fits its kind, and the
\* stream holds at most MaxInbox messages and one for each fault.
THEOREM TypesHold == Spec => []TypeOK
<1>1. Base => TypeOK
  <2> SUFFICES ASSUME Base PROVE TypeOK
    OBVIOUS
  <2>1. inbox \in 0..(MaxInbox + MaxFaults)
    BY Constants DEF Base, Types, InboxFits
  <2>2. ASSUME NEW i \in Steps
        PROVE  step[i] \in {"none"} \union
                 (CASE Program[i] = "act" -> {"done"}
                    [] Program[i] = "wait" -> {"asleep"}
                    [] OTHER -> {"null", "data", "timedOut"})
    BY Constants DEF Base, Kinds
  <2>3. nap = 0 \/ (nap \in Steps /\ Program[nap] = "wait")
    BY Constants DEF Base, Types, Kinds, Places, Steps
  <2>4. \A e \in Events : event[e].todo \subseteq EventSteps
    BY Fields DEF Base
  <2> QED
    BY <2>1, <2>2, <2>3, <2>4 DEF Base, Types, TypeOK, Statuses
<1> QED
  BY <1>1, BaseHolds, PTL

-----------------------------------------------------------------------------
(* Who changes what.                                                       *)

LEMMA WhoRuns ==
  ASSUME [Next]_vars
  PROVE  run' = run \/ \E r \in Runs : Run(r) \/ StepFails(r) \/ Crash(r)
<1>1. ASSUME NEW p \in Pollers, Poll(p) \/ PollFails(p) PROVE run' = run
  BY <1>1 DEF Poll, PollClaim, PollLook, PollExpire, PollFind, PollWrite, PollPublish,
              PollRemove, PollFails
<1>2. ASSUME NEW e \in Events, EventSelect(e) \/ Event(e) \/ EventFails(e) PROVE run' = run
  BY <1>2 DEF Event, EventSelect, EventFind, EventFill, EventDelete, EventFlush, EventFails
<1>3. ASSUME Trigger \/ Cancel \/ Time \/ Reap \/ UNCHANGED vars PROVE run' = run
  BY <1>3 DEF Trigger, Cancel, Time, LockExpires, Elapse, Reappear, Reap, vars
<1> QED
  BY <1>1, <1>2, <1>3 DEF Next

LEMMA RunStays ==
  ASSUME Base, [Next]_vars, NEW q \in Runs
  PROVE  run'[q] = run[q] \/ Run(q) \/ StepFails(q) \/ Crash(q)
<1>1. ASSUME NEW r \in Runs, r # q, Run(r) \/ StepFails(r) \/ Crash(r)
      PROVE  run'[q] = run[q]
  BY <1>1, DeliverMoves, LockMoves, CheckMoves, ClaimMoves, BeginMoves, ActMoves, RecordMoves,
     ArmWaitMoves, SleepMoves, ArmTimeoutMoves, AwaitMoves, InsertWaiterMoves, StepFailsMoves,
     FinishMoves, ReleaseMoves, CrashMoves DEF Base, Run, Moved
<1> QED
  BY <1>1, WhoRuns

LEMMA WhoPolls ==
  ASSUME [Next]_vars
  PROVE  poll' = poll \/ \E p \in Pollers : Poll(p) \/ PollFails(p)
<1>1. ASSUME NEW r \in Runs, Run(r) \/ StepFails(r) \/ Crash(r) PROVE poll' = poll
  BY <1>1 DEF Run, Deliver, Lock, Check, Claim, Begin, Act, Record, ArmWait, Sleep, ArmTimeout,
              Await, InsertWaiter, Finish, Release, StepFails, Crash
<1>2. ASSUME NEW e \in Events, EventSelect(e) \/ Event(e) \/ EventFails(e) PROVE poll' = poll
  BY <1>2 DEF Event, EventSelect, EventFind, EventFill, EventDelete, EventFlush, EventFails
<1>3. ASSUME Trigger \/ Cancel \/ Time \/ Reap \/ UNCHANGED vars PROVE poll' = poll
  BY <1>3 DEF Trigger, Cancel, Time, LockExpires, Elapse, Reappear, Reap, vars
<1> QED
  BY <1>1, <1>2, <1>3 DEF Next

LEMMA WhoHandles ==
  ASSUME [Next]_vars
  PROVE  event' = event \/ \E e \in Events : EventSelect(e) \/ Event(e) \/ EventFails(e)
<1>1. ASSUME NEW r \in Runs, Run(r) \/ StepFails(r) \/ Crash(r) PROVE event' = event
  BY <1>1 DEF Run, Deliver, Lock, Check, Claim, Begin, Act, Record, ArmWait, Sleep, ArmTimeout,
              Await, InsertWaiter, Finish, Release, StepFails, Crash
<1>2. ASSUME NEW p \in Pollers, Poll(p) \/ PollFails(p) PROVE event' = event
  BY <1>2 DEF Poll, PollClaim, PollLook, PollExpire, PollFind, PollWrite, PollPublish,
              PollRemove, PollFails
<1>3. ASSUME Trigger \/ Cancel \/ Time \/ Reap \/ UNCHANGED vars PROVE event' = event
  BY <1>3 DEF Trigger, Cancel, Time, LockExpires, Elapse, Reappear, Reap, vars
<1> QED
  BY <1>1, <1>2, <1>3 DEF Next

-----------------------------------------------------------------------------
(* A final status is final.                                                *)

LEMMA FinishedStep ==
  ASSUME status \in Finished, [Next]_vars
  PROVE  status' = status
<1>1. CASE UNCHANGED vars
  BY <1>1 DEF vars
<1>2. CASE Trigger
  BY <1>2 DEF Trigger, rows, zset, history, Finished
<1>3. CASE Cancel
  BY <1>3 DEF Cancel, rows, zset, history, Finished
<1>4. CASE LockExpires
  BY <1>4 DEF LockExpires, rows, zset, history
<1>5. CASE Reap
  BY <1>5 DEF Reap, rows, zset, history, Finished
<1>6. ASSUME NEW i \in Steps \union {Deferred}, Elapse(i) PROVE status' = status
  BY <1>6 DEF Elapse, rows, zset, history
<1>7. ASSUME NEW t \in Members, Reappear(t) PROVE status' = status
  BY <1>7 DEF Reappear, rows, zset, history
<1>8. ASSUME NEW r \in Runs, Deliver(r) PROVE status' = status
  BY <1>8 DEF Deliver, rows, zset, history
<1>9. ASSUME NEW r \in Runs, Lock(r) PROVE status' = status
  BY <1>9 DEF Lock, rows, zset, history
<1>10. ASSUME NEW r \in Runs, Check(r) PROVE status' = status
  BY <1>10 DEF Check, rows, zset, history, Finished
<1>11. ASSUME NEW r \in Runs, Claim(r) PROVE status' = status
  BY <1>11 DEF Claim, rows, zset, history, Finished
<1>12. ASSUME NEW r \in Runs, Begin(r) PROVE status' = status
  BY <1>12 DEF Begin, rows, zset, history
<1>13. ASSUME NEW r \in Runs, Act(r) PROVE status' = status
  BY <1>13 DEF Act, rows, zset, history
<1>14. ASSUME NEW r \in Runs, Record(r) PROVE status' = status
  BY <1>14 DEF Record, rows, zset, history
<1>15. ASSUME NEW r \in Runs, ArmWait(r) PROVE status' = status
  BY <1>15 DEF ArmWait, rows, zset, history
<1>16. ASSUME NEW r \in Runs, Sleep(r) PROVE status' = status
  BY <1>16 DEF Sleep, rows, zset, history
<1>17. ASSUME NEW r \in Runs, ArmTimeout(r) PROVE status' = status
  BY <1>17 DEF ArmTimeout, rows, zset, history
<1>18. ASSUME NEW r \in Runs, Await(r) PROVE status' = status
  BY <1>18 DEF Await, rows, zset, history
<1>19. ASSUME NEW r \in Runs, InsertWaiter(r) PROVE status' = status
  BY <1>19 DEF InsertWaiter, rows, zset, history
<1>20. ASSUME NEW r \in Runs, StepFails(r) PROVE status' = status
  BY <1>20 DEF StepFails, rows, zset, history
<1>21. ASSUME NEW r \in Runs, Finish(r) PROVE status' = status
  BY <1>21 DEF Finish, rows, zset, history, Finished
<1>22. ASSUME NEW r \in Runs, Release(r) PROVE status' = status
  BY <1>22 DEF Release, rows, zset, history
<1>23. ASSUME NEW r \in Runs, Crash(r) PROVE status' = status
  BY <1>23 DEF Crash, rows, zset, history
<1>24. ASSUME NEW p \in Pollers, PollClaim(p) PROVE status' = status
  BY <1>24 DEF PollClaim, rows, zset, history
<1>25. ASSUME NEW p \in Pollers, PollLook(p) PROVE status' = status
  BY <1>25 DEF PollLook, rows, zset, history
<1>26. ASSUME NEW p \in Pollers, PollExpire(p) PROVE status' = status
  BY <1>26 DEF PollExpire, rows, zset, history
<1>27. ASSUME NEW p \in Pollers, PollFind(p) PROVE status' = status
  BY <1>27 DEF PollFind, rows, zset, history
<1>28. ASSUME NEW p \in Pollers, PollWrite(p) PROVE status' = status
  BY <1>28 DEF PollWrite, rows, zset, history
<1>29. ASSUME NEW p \in Pollers, PollPublish(p) PROVE status' = status
  BY <1>29 DEF PollPublish, rows, zset, history
<1>30. ASSUME NEW p \in Pollers, PollRemove(p) PROVE status' = status
  BY <1>30 DEF PollRemove, rows, zset, history
<1>31. ASSUME NEW p \in Pollers, PollFails(p) PROVE status' = status
  BY <1>31 DEF PollFails, rows, zset, history
<1>32. ASSUME NEW e \in Events, EventSelect(e) PROVE status' = status
  BY <1>32 DEF EventSelect, rows, zset, history
<1>33. ASSUME NEW e \in Events, EventFind(e) PROVE status' = status
  BY <1>33 DEF EventFind, rows, zset, history
<1>34. ASSUME NEW e \in Events, EventFill(e) PROVE status' = status
  BY <1>34 DEF EventFill, rows, zset, history
<1>35. ASSUME NEW e \in Events, EventDelete(e) PROVE status' = status
  BY <1>35 DEF EventDelete, rows, zset, history
<1>36. ASSUME NEW e \in Events, EventFlush(e) PROVE status' = status
  BY <1>36 DEF EventFlush, rows, zset, history
<1>37. ASSUME NEW e \in Events, EventFails(e) PROVE status' = status
  BY <1>37 DEF EventFails, rows, zset, history
<1> QED
  BY <1>1, <1>2, <1>3, <1>4, <1>5, <1>6, <1>7, <1>8, <1>9, <1>10, <1>11,
     <1>12, <1>13, <1>14, <1>15, <1>16, <1>17, <1>18, <1>19, <1>20,
     <1>21, <1>22, <1>23, <1>24, <1>25, <1>26, <1>27, <1>28, <1>29,
     <1>30, <1>31, <1>32, <1>33, <1>34, <1>35, <1>36, <1>37
     DEF Next, Run, Poll, Event, Time

\* No run, poll or reaper moves an instance out of a final status: every write of
\* the status is conditional on the one it replaces.
THEOREM FinishedForGood == Spec => FinishedStays
<1>1. [Next]_vars => [(status \in Finished) => status' = status]_status
  BY FinishedStep
<1> QED
  BY <1>1, PTL DEF Spec, FinishedStays

-----------------------------------------------------------------------------
(* Order is inductive.                                                     *)

LEMMA RecordedSame ==
  ASSUME \A i \in Steps : step'[i] = "none" <=> step[i] = "none"
  PROVE  Recorded' = Recorded
<1>1. {i \in Steps : step'[i] # "none"} = {i \in Steps : step[i] # "none"}
  OBVIOUS
<1> QED
  BY <1>1 DEF Recorded

\* No step gets a row, and what is over stays over.
Keeps ==
  \A i \in Steps : /\ step'[i] = "none" <=> step[i] = "none"
                   /\ Passed(i) => Passed(i)'

LEMMA EasesKeeps ==
  ASSUME step' = step, past \subseteq past' \union {Deferred}
  PROVE  Keeps
<1>1. Deferred \notin Steps
  BY DEF Deferred, Steps
<1> QED
  BY <1>1 DEF Keeps, Passed

\* A step without a row gets an unfinished timer.
LEMMA ArmsKeeps ==
  ASSUME step' = step, NEW i \in Steps, step[i] = "none", past' = past \ {i}
  PROVE  Keeps
BY DEF Keeps, Passed

LEMMA AnswerKeeps ==
  ASSUME Types, NEW i \in Steps, step[i] # "none", NEW v \in {"data", "timedOut"},
         step' = [step EXCEPT ![i] = v], past' = past
  PROVE  Keeps
<1>1. \A j \in Steps : step'[j] = IF j = i THEN v ELSE step[j]
  BY DEF Types
<1> QED
  BY <1>1 DEF Keeps, Passed

LEMMA NextRow ==
  ASSUME Base, Order, NEW r \in Runs,
         run[r].pc \in {"begin", "act", "record", "wait", "sleep", "event", "await"}
  PROVE  /\ run[r].at \in Steps
         /\ run[r].at = Recorded + 1
         /\ step[run[r].at] = "none"
         /\ \A i \in Steps : i < run[r].at => Passed(i)
<1>1. run[r].at \in Steps /\ run[r].at = Recorded + 1 /\ Recorded \in Nat
  BY Constants DEF Base, AtStep, Order, Placed, Prefix, Places
<1>2. \A i \in Steps : i < run[r].at => i =< Recorded
  BY <1>1 DEF Steps
<1> QED
  BY <1>1, <1>2 DEF Order, Placed, Prefix

LEMMA KeepsStep ==
  ASSUME Base, Order, [Next]_vars
  PROVE  Keeps \/ \E s \in Runs : Record(s) \/ Sleep(s) \/ Await(s)
<1>1. CASE UNCHANGED vars
  BY <1>1, EasesKeeps DEF vars
<1>2. CASE Trigger
  BY <1>2, EasesKeeps DEF Trigger, rows, zset, history
<1>3. CASE Cancel
  BY <1>3, EasesKeeps DEF Cancel, rows, zset, history
<1>4. CASE LockExpires
  BY <1>4, EasesKeeps DEF LockExpires, rows, zset, history
<1>5. CASE Reap
  BY <1>5, EasesKeeps DEF Reap, rows, zset, history
<1>6. ASSUME NEW i \in Steps \union {Deferred}, Elapse(i) PROVE Keeps \/ \E s \in Runs : Record(s) \/ Sleep(s) \/ Await(s)
  BY <1>6, EasesKeeps DEF Elapse, rows, zset, history
<1>7. ASSUME NEW t \in Members, Reappear(t) PROVE Keeps \/ \E s \in Runs : Record(s) \/ Sleep(s) \/ Await(s)
  BY <1>7, EasesKeeps DEF Reappear, rows, zset, history
<1>8. ASSUME NEW r \in Runs, Deliver(r) PROVE Keeps \/ \E s \in Runs : Record(s) \/ Sleep(s) \/ Await(s)
  BY <1>8, EasesKeeps DEF Deliver, rows, zset, history
<1>9. ASSUME NEW r \in Runs, Lock(r) PROVE Keeps \/ \E s \in Runs : Record(s) \/ Sleep(s) \/ Await(s)
  BY <1>9, EasesKeeps DEF Lock, rows, zset, history, DeferResume, Arm
<1>10. ASSUME NEW r \in Runs, Check(r) PROVE Keeps \/ \E s \in Runs : Record(s) \/ Sleep(s) \/ Await(s)
  BY <1>10, EasesKeeps DEF Check, rows, zset, history, DeferResume, Arm
<1>11. ASSUME NEW r \in Runs, Claim(r) PROVE Keeps \/ \E s \in Runs : Record(s) \/ Sleep(s) \/ Await(s)
  BY <1>11, EasesKeeps DEF Claim, rows, zset, history
<1>12. ASSUME NEW r \in Runs, Begin(r) PROVE Keeps \/ \E s \in Runs : Record(s) \/ Sleep(s) \/ Await(s)
  BY <1>12, EasesKeeps DEF Begin, rows, zset, history
<1>13. ASSUME NEW r \in Runs, Act(r) PROVE Keeps \/ \E s \in Runs : Record(s) \/ Sleep(s) \/ Await(s)
  BY <1>13, EasesKeeps DEF Act, rows, zset, history
<1>14. ASSUME NEW r \in Runs, Record(r) PROVE Keeps \/ \E s \in Runs : Record(s) \/ Sleep(s) \/ Await(s)
  BY <1>14
<1>15. ASSUME NEW r \in Runs, ArmWait(r) PROVE Keeps \/ \E s \in Runs : Record(s) \/ Sleep(s) \/ Await(s)
  BY <1>15, NextRow, ArmsKeeps DEF ArmWait, Arm, rows, zset, history
<1>16. ASSUME NEW r \in Runs, Sleep(r) PROVE Keeps \/ \E s \in Runs : Record(s) \/ Sleep(s) \/ Await(s)
  BY <1>16
<1>17. ASSUME NEW r \in Runs, ArmTimeout(r) PROVE Keeps \/ \E s \in Runs : Record(s) \/ Sleep(s) \/ Await(s)
  BY <1>17, NextRow, ArmsKeeps DEF ArmTimeout, Arm, rows, zset, history
<1>18. ASSUME NEW r \in Runs, Await(r) PROVE Keeps \/ \E s \in Runs : Record(s) \/ Sleep(s) \/ Await(s)
  BY <1>18
<1>19. ASSUME NEW r \in Runs, InsertWaiter(r) PROVE Keeps \/ \E s \in Runs : Record(s) \/ Sleep(s) \/ Await(s)
  BY <1>19, EasesKeeps DEF InsertWaiter, rows, zset, history
<1>20. ASSUME NEW r \in Runs, StepFails(r) PROVE Keeps \/ \E s \in Runs : Record(s) \/ Sleep(s) \/ Await(s)
  BY <1>20, EasesKeeps DEF StepFails, rows, zset, history
<1>21. ASSUME NEW r \in Runs, Finish(r) PROVE Keeps \/ \E s \in Runs : Record(s) \/ Sleep(s) \/ Await(s)
  BY <1>21, EasesKeeps DEF Finish, rows, zset, history
<1>22. ASSUME NEW r \in Runs, Release(r) PROVE Keeps \/ \E s \in Runs : Record(s) \/ Sleep(s) \/ Await(s)
  BY <1>22, EasesKeeps DEF Release, rows, zset, history
<1>23. ASSUME NEW r \in Runs, Crash(r) PROVE Keeps \/ \E s \in Runs : Record(s) \/ Sleep(s) \/ Await(s)
  BY <1>23, EasesKeeps DEF Crash, rows, zset, history
<1>24. ASSUME NEW p \in Pollers, PollClaim(p) PROVE Keeps \/ \E s \in Runs : Record(s) \/ Sleep(s) \/ Await(s)
  BY <1>24, EasesKeeps DEF PollClaim, rows, zset, history
<1>25. ASSUME NEW p \in Pollers, PollLook(p) PROVE Keeps \/ \E s \in Runs : Record(s) \/ Sleep(s) \/ Await(s)
  BY <1>25, EasesKeeps DEF PollLook, rows, zset, history
<1>26. ASSUME NEW p \in Pollers, PollExpire(p) PROVE Keeps \/ \E s \in Runs : Record(s) \/ Sleep(s) \/ Await(s)
  BY <1>26, EasesKeeps DEF PollExpire, rows, zset, history
<1>27. ASSUME NEW p \in Pollers, PollFind(p) PROVE Keeps \/ \E s \in Runs : Record(s) \/ Sleep(s) \/ Await(s)
  BY <1>27, EasesKeeps DEF PollFind, rows, zset, history
<1>28. ASSUME NEW p \in Pollers, PollWrite(p) PROVE Keeps \/ \E s \in Runs : Record(s) \/ Sleep(s) \/ Await(s)
  <2>1. poll[p].t \in Steps /\ step[poll[p].t] # "none"
    BY <1>28 DEF PollWrite, Order, Targets, EventSteps
  <2> QED
    BY <1>28, <2>1, AnswerKeeps DEF PollWrite, Base, rows, zset, history
<1>29. ASSUME NEW p \in Pollers, PollPublish(p) PROVE Keeps \/ \E s \in Runs : Record(s) \/ Sleep(s) \/ Await(s)
  BY <1>29, EasesKeeps DEF PollPublish, rows, zset, history
<1>30. ASSUME NEW p \in Pollers, PollRemove(p) PROVE Keeps \/ \E s \in Runs : Record(s) \/ Sleep(s) \/ Await(s)
  BY <1>30, EasesKeeps DEF PollRemove, rows, zset, history
<1>31. ASSUME NEW p \in Pollers, PollFails(p) PROVE Keeps \/ \E s \in Runs : Record(s) \/ Sleep(s) \/ Await(s)
  BY <1>31, EasesKeeps DEF PollFails, rows, zset, history
<1>32. ASSUME NEW e \in Events, EventSelect(e) PROVE Keeps \/ \E s \in Runs : Record(s) \/ Sleep(s) \/ Await(s)
  BY <1>32, EasesKeeps DEF EventSelect, rows, zset, history
<1>33. ASSUME NEW e \in Events, EventFind(e) PROVE Keeps \/ \E s \in Runs : Record(s) \/ Sleep(s) \/ Await(s)
  BY <1>33, EasesKeeps DEF EventFind, rows, zset, history
<1>34. ASSUME NEW e \in Events, EventFill(e) PROVE Keeps \/ \E s \in Runs : Record(s) \/ Sleep(s) \/ Await(s)
  <2>1. event[e].target \in Steps /\ step[event[e].target] # "none"
    BY <1>34 DEF EventFill, Order, Targets, EventSteps
  <2> QED
    BY <1>34, <2>1, AnswerKeeps DEF EventFill, Base, rows, zset, history
<1>35. ASSUME NEW e \in Events, EventDelete(e) PROVE Keeps \/ \E s \in Runs : Record(s) \/ Sleep(s) \/ Await(s)
  BY <1>35, EasesKeeps DEF EventDelete, rows, zset, history
<1>36. ASSUME NEW e \in Events, EventFlush(e) PROVE Keeps \/ \E s \in Runs : Record(s) \/ Sleep(s) \/ Await(s)
  BY <1>36, EasesKeeps DEF EventFlush, rows, zset, history
<1>37. ASSUME NEW e \in Events, EventFails(e) PROVE Keeps \/ \E s \in Runs : Record(s) \/ Sleep(s) \/ Await(s)
  BY <1>37, EasesKeeps DEF EventFails, rows, zset, history
<1> QED
  BY <1>1, <1>2, <1>3, <1>4, <1>5, <1>6, <1>7, <1>8, <1>9, <1>10, <1>11,
     <1>12, <1>13, <1>14, <1>15, <1>16, <1>17, <1>18, <1>19, <1>20,
     <1>21, <1>22, <1>23, <1>24, <1>25, <1>26, <1>27, <1>28, <1>29,
     <1>30, <1>31, <1>32, <1>33, <1>34, <1>35, <1>36, <1>37
     DEF Next, Run, Poll, Event, Time

\* The row of the step after the recorded ones is inserted.
LEMMA RowInserted ==
  ASSUME Base, Order, NEW r \in Runs, Record(r) \/ Sleep(r) \/ Await(r)
  PROVE  /\ run[r].at \in Steps /\ run[r].at = Recorded + 1 /\ step[run[r].at] = "none"
         /\ \A i \in Steps : i < run[r].at => Passed(i)
         /\ step'[run[r].at] # "none"
         /\ \A i \in Steps : i # run[r].at => step'[i] = step[i]
         /\ past' = past
         /\ Recorded' = Recorded + 1
         /\ \A i \in Steps : Passed(i) => Passed(i)'
<1> DEFINE n == run[r].at
<1>1. n \in Steps /\ n = Recorded + 1 /\ step[n] = "none" /\ \A i \in Steps : i < n => Passed(i)
  BY NextRow DEF Record, Sleep, Await
<1>2. /\ step'[n] # "none" /\ \A i \in Steps : i # n => step'[i] = step[i]
      /\ past' = past
  BY <1>1 DEF Record, Sleep, Await, Base, Types, rows, zset, history
<1>3. n \in Places /\ Recorded \in Places
  BY <1>1, RecordedIsPlace, Constants DEF Steps, Places
<1>4. \A i \in Steps : step'[i] # "none" <=> i =< n
  <2>1. \A i \in Steps : step[i] # "none" <=> i =< Recorded
    BY DEF Order, Prefix
  <2> HIDE DEF n
  <2> QED
    BY <1>1, <1>2, <1>3, <2>1, Constants DEF Steps, Places
<1>5. Recorded' = n
  <2> HIDE DEF n
  <2>1. ASSUME NEW m \in Places, \A i \in Steps : step'[i] # "none" <=> i =< m
        PROVE  Recorded' = m
    <3>1. {i \in Steps : step'[i] # "none"} = 1..m
      BY <2>1, Constants DEF Steps, Places
    <3>2. Cardinality(1..m) = m
      BY FS_Interval, Constants DEF Places
    <3> QED
      BY <3>1, <3>2 DEF Recorded
  <2> QED
    BY <1>3, <1>4, <2>1
<1>6. \A i \in Steps : Passed(i) => Passed(i)'
  BY <1>1, <1>2 DEF Passed
<1> QED
  BY <1>1, <1>2, <1>5, <1>6

LEMMA PrefixStep ==
  ASSUME Base, Order, [Next]_vars
  PROVE  Prefix' /\ BelowPassed'
<1>1. CASE Keeps
  <2>1. Recorded' = Recorded
    BY <1>1, RecordedSame DEF Keeps
  <2> QED
    BY <1>1, <2>1 DEF Keeps, Order, Prefix, BelowPassed
<1>2. ASSUME NEW r \in Runs, Record(r) \/ Sleep(r) \/ Await(r)
      PROVE  Prefix' /\ BelowPassed'
  <2> DEFINE n == run[r].at
  <2>1. /\ n \in Steps /\ n = Recorded + 1 /\ step[n] = "none"
        /\ \A i \in Steps : i < n => Passed(i)
        /\ step'[n] # "none" /\ \A i \in Steps : i # n => step'[i] = step[i]
        /\ Recorded' = n
        /\ \A i \in Steps : Passed(i) => Passed(i)'
    BY <1>2, RowInserted
  <2> HIDE DEF n
  <2>2. BelowPassed'
    BY <2>1 DEF BelowPassed
  <2>3. Recorded \in Nat /\ \A i \in Steps : step[i] # "none" <=> i =< Recorded
    BY Constants DEF Order, Prefix, Places
  <2>4. \A i \in Steps : i \in Nat
    BY Constants DEF Steps
  <2>5. \A i \in Steps : step'[i] # "none" <=> i =< n
    BY <2>1, <2>3, <2>4
  <2>6. n \in Places
    BY <2>1, Constants DEF Steps, Places
  <2> QED
    BY <2>1, <2>2, <2>5, <2>6 DEF Prefix
<1> QED
  BY <1>1, <1>2, KeepsStep

\* What is over stays over, and no row goes.
LEMMA PassedStays ==
  ASSUME Base, Order, [Next]_vars
  PROVE  \A i \in Steps : /\ Passed(i) => Passed(i)'
                          /\ step[i] # "none" => step'[i] # "none"
<1>1. ASSUME NEW r \in Runs, Record(r) \/ Sleep(r) \/ Await(r), NEW i \in Steps
      PROVE  /\ Passed(i) => Passed(i)'
             /\ step[i] # "none" => step'[i] # "none"
  BY <1>1, RowInserted
<1> QED
  BY <1>1, KeepsStep DEF Keeps

Placing == {"begin", "act", "record", "wait", "sleep", "event", "await"}

\* A run that holds the lock moves on; the others are not at any step.
LEMMA PlacedMoved ==
  ASSUME Base, Order, NEW r \in Runs, NEW pc, NEW i, Moved(r, pc, i),
         Keeps \/ run[r].pc \notin {"idle", "lock"},
         \A q \in Runs : q # r /\ run[q].pc \in Placing \union {"waiter"} => Keeps,
         \A j \in Steps : Passed(j) => Passed(j)',
         pc \in Placing => i = Recorded' + 1 /\ \A j \in Steps : j =< Recorded' => Passed(j)',
         pc = "waiter" => i = Recorded'
  PROVE  Placed'
<1>1. Keeps => Recorded' = Recorded
  BY RecordedSame DEF Keeps
<1>2. ASSUME NEW q \in Runs, q # r
      PROVE  /\ run'[q].pc \in Placing =>
                  /\ run'[q].at = Recorded' + 1
                  /\ \A j \in Steps : j =< Recorded' => Passed(j)'
             /\ run'[q].pc = "waiter" => run'[q].at = Recorded'
  <2>1. run'[q] = run[q]
    BY <1>2 DEF Moved
  <2>2. CASE run[q].pc \in Placing \union {"waiter"}
    BY <1>1, <1>2, <2>1, <2>2 DEF Order, Placed, Placing
  <2> QED
    BY <2>1, <2>2 DEF Placing
<1>3. /\ run'[r].pc \in Placing =>
           /\ run'[r].at = Recorded' + 1
           /\ \A j \in Steps : j =< Recorded' => Passed(j)'
      /\ run'[r].pc = "waiter" => run'[r].at = Recorded'
  BY DEF Moved
<1> QED
  BY <1>2, <1>3 DEF Placed, Placing

LEMMA PlacedStep ==
  ASSUME Base, Order, [Next]_vars
  PROVE  Placed'
<1>1. CASE run' = run /\ Keeps
  BY <1>1, RecordedSame DEF Keeps, Order, Placed
<1>2. ASSUME NEW r \in Runs, Record(r) PROVE Placed'
  <2>1. /\ run[r].at = Recorded' /\ run[r].at \in Steps
        /\ \A j \in Steps : Passed(j) => Passed(j)'
        /\ \A j \in Steps : j < run[r].at => Passed(j)
    BY <1>2, RowInserted
  <2>2. Moved(r, "completed", run[r].at) \/ Moved(r, "begin", run[r].at + 1)
    BY <1>2, RecordMoves DEF Base
  <2>3. \A q \in Runs : q # r => run[q].pc \in {"idle", "lock"}
    BY <1>2 DEF Record, Base, Alone
  <2>4. run[r].pc \notin {"idle", "lock"}
    BY <1>2 DEF Record
  <2>5. step'[run[r].at] = "done"
    BY <1>2, <2>1 DEF Record, Base, Types
  <2>6. \A j \in Steps : j =< Recorded' => Passed(j)'
    BY <2>1, <2>5 DEF Passed, Steps
  <2> QED
    BY <2>1, <2>2, <2>3, <2>4, <2>6, PlacedMoved DEF Placing
<1>3. ASSUME NEW r \in Runs, Sleep(r) PROVE Placed'
  <2>1. /\ run[r].at = Recorded' /\ run[r].at \in Steps
        /\ \A j \in Steps : Passed(j) => Passed(j)'
        /\ \A j \in Steps : j < run[r].at => Passed(j)
    BY <1>3, RowInserted
  <2>2. Moved(r, "pending", run[r].at)
    BY <1>3, SleepMoves DEF Base
  <2>3. \A q \in Runs : q # r => run[q].pc \in {"idle", "lock"}
    BY <1>3 DEF Sleep, Base, Alone
  <2>4. run[r].pc \notin {"idle", "lock"}
    BY <1>3 DEF Sleep
  <2> QED
    BY <2>1, <2>2, <2>3, <2>4, PlacedMoved DEF Placing
<1>4. ASSUME NEW r \in Runs, Await(r) PROVE Placed'
  <2>1. /\ run[r].at = Recorded' /\ run[r].at \in Steps
        /\ \A j \in Steps : Passed(j) => Passed(j)'
        /\ \A j \in Steps : j < run[r].at => Passed(j)
    BY <1>4, RowInserted
  <2>2. Moved(r, "waiter", run[r].at)
    BY <1>4, AwaitMoves DEF Base
  <2>3. \A q \in Runs : q # r => run[q].pc \in {"idle", "lock"}
    BY <1>4 DEF Await, Base, Alone
  <2>4. run[r].pc \notin {"idle", "lock"}
    BY <1>4 DEF Await
  <2> QED
    BY <2>1, <2>2, <2>3, <2>4, PlacedMoved DEF Placing
<1>5. ASSUME NEW r \in Runs, Deliver(r), Keeps PROVE Placed'
  <2>1. \E pc \in RunPcs \ (Placing \union {"waiter"}), j \in Places : Moved(r, pc, j)
    BY <1>5, DeliverMoves, Fields, Constants DEF Base, RunPcs, Placing, Places
  <2> QED
    BY <2>1, <1>5, PlacedMoved DEF Placing, Keeps
<1>6. ASSUME NEW r \in Runs, Lock(r), Keeps PROVE Placed'
  <2>1. \E pc \in RunPcs \ (Placing \union {"waiter"}), j \in Places : Moved(r, pc, j)
    BY <1>6, LockMoves, Fields, Constants DEF Base, RunPcs, Placing, Places
  <2> QED
    BY <2>1, <1>6, PlacedMoved DEF Placing, Keeps
<1>7. ASSUME NEW r \in Runs, Check(r), Keeps PROVE Placed'
  <2>1. \E pc \in RunPcs \ (Placing \union {"waiter"}), j \in Places : Moved(r, pc, j)
    BY <1>7, CheckMoves, Fields, Constants DEF Base, RunPcs, Placing, Places
  <2> QED
    BY <2>1, <1>7, PlacedMoved DEF Placing, Keeps
<1>8. ASSUME NEW r \in Runs, Claim(r), Keeps PROVE Placed'
  <2>1. Recorded' = Recorded /\ \A j \in Steps : Passed(j) => Passed(j)'
    BY <1>8, RecordedSame DEF Keeps
  <2>2. CASE Recorded = Last /\ Moved(r, "completed", Recorded)
    BY <2>1, <2>2, <1>8, PlacedMoved DEF Placing
  <2>3. CASE Recorded < Last /\ (Recorded = 0 \/ Passed(Recorded))
               /\ Moved(r, "begin", Recorded + 1)
    <3>1. \A j \in Steps : j =< Recorded => Passed(j)
      <4>1. Recorded \in Nat
        BY RecordedIsPlace, Constants DEF Places
      <4> QED
        BY <2>3, <4>1 DEF Order, BelowPassed, Steps
    <3> QED
      BY <2>1, <2>3, <3>1, <1>8, PlacedMoved DEF Placing
  <2>4. CASE \E j \in Places : Moved(r, "pending", j) \/ Moved(r, "release", j)
    BY <2>1, <2>4, <1>8, PlacedMoved DEF Placing
  <2> QED
    BY <1>8, <2>2, <2>3, <2>4, ClaimMoves, RecordedIsPlace, Fields DEF Base
<1>9. ASSUME NEW r \in Runs, Begin(r), Keeps PROVE Placed'
  <2>1. Recorded' = Recorded /\ \A j \in Steps : Passed(j) => Passed(j)'
    BY <1>9, RecordedSame DEF Keeps
  <2>2. run[r].at = Recorded + 1 /\ \A j \in Steps : j =< Recorded => Passed(j)
    BY <1>9 DEF Begin, Order, Placed
  <2>3. \E pc \in RunPcs : Moved(r, pc, run[r].at) /\ pc # "waiter"
    BY <1>9, BeginMoves, Constants DEF Base, RunPcs, Begin, AtStep
  <2> QED
    BY <2>1, <2>2, <2>3, <1>9, PlacedMoved DEF Placing
<1>10. ASSUME NEW r \in Runs, Act(r), Keeps PROVE Placed'
  <2>1. Recorded' = Recorded /\ \A j \in Steps : Passed(j) => Passed(j)'
    BY <1>10, RecordedSame DEF Keeps
  <2>2. run[r].at = Recorded + 1 /\ \A j \in Steps : j =< Recorded => Passed(j)
    BY <1>10 DEF Act, Order, Placed
  <2>3. Moved(r, "record", run[r].at)
    BY <1>10, ActMoves DEF Base
  <2> QED
    BY <2>1, <2>2, <2>3, <1>10, PlacedMoved DEF Placing
<1>11. ASSUME NEW r \in Runs, ArmWait(r), Keeps PROVE Placed'
  <2>1. Recorded' = Recorded /\ \A j \in Steps : Passed(j) => Passed(j)'
    BY <1>11, RecordedSame DEF Keeps
  <2>2. run[r].at = Recorded + 1 /\ \A j \in Steps : j =< Recorded => Passed(j)
    BY <1>11 DEF ArmWait, Order, Placed
  <2>3. Moved(r, "sleep", run[r].at)
    BY <1>11, ArmWaitMoves DEF Base
  <2> QED
    BY <2>1, <2>2, <2>3, <1>11, PlacedMoved DEF Placing
<1>12. ASSUME NEW r \in Runs, ArmTimeout(r), Keeps PROVE Placed'
  <2>1. Recorded' = Recorded /\ \A j \in Steps : Passed(j) => Passed(j)'
    BY <1>12, RecordedSame DEF Keeps
  <2>2. run[r].at = Recorded + 1 /\ \A j \in Steps : j =< Recorded => Passed(j)
    BY <1>12 DEF ArmTimeout, Order, Placed
  <2>3. Moved(r, "await", run[r].at)
    BY <1>12, ArmTimeoutMoves DEF Base
  <2> QED
    BY <2>1, <2>2, <2>3, <1>12, PlacedMoved DEF Placing
<1>13. ASSUME NEW r \in Runs, InsertWaiter(r), Keeps PROVE Placed'
  <2>1. \E pc \in RunPcs \ (Placing \union {"waiter"}), j \in Places : Moved(r, pc, j)
    BY <1>13, InsertWaiterMoves, Fields, Constants DEF Base, RunPcs, Placing, Places
  <2> QED
    BY <2>1, <1>13, PlacedMoved DEF Placing, Keeps
<1>14. ASSUME NEW r \in Runs, StepFails(r), Keeps PROVE Placed'
  <2>1. \E pc \in RunPcs \ (Placing \union {"waiter"}), j \in Places : Moved(r, pc, j)
    BY <1>14, StepFailsMoves, Fields, Constants DEF Base, RunPcs, Placing, Places
  <2> QED
    BY <2>1, <1>14, PlacedMoved DEF Placing, Keeps
<1>15. ASSUME NEW r \in Runs, Finish(r), Keeps PROVE Placed'
  <2>1. \E pc \in RunPcs \ (Placing \union {"waiter"}), j \in Places : Moved(r, pc, j)
    BY <1>15, FinishMoves, Fields, Constants DEF Base, RunPcs, Placing, Places
  <2> QED
    BY <2>1, <1>15, PlacedMoved DEF Placing, Keeps
<1>16. ASSUME NEW r \in Runs, Release(r), Keeps PROVE Placed'
  <2>1. \E pc \in RunPcs \ (Placing \union {"waiter"}), j \in Places : Moved(r, pc, j)
    BY <1>16, ReleaseMoves, Fields, Constants DEF Base, RunPcs, Placing, Places
  <2> QED
    BY <2>1, <1>16, PlacedMoved DEF Placing, Keeps
<1>17. ASSUME NEW r \in Runs, Crash(r), Keeps PROVE Placed'
  <2>1. \E pc \in RunPcs \ (Placing \union {"waiter"}), j \in Places : Moved(r, pc, j)
    BY <1>17, CrashMoves, Fields, Constants DEF Base, RunPcs, Placing, Places
  <2> QED
    BY <2>1, <1>17, PlacedMoved DEF Placing, Keeps
<1> QED
  BY <1>1, <1>2, <1>3, <1>4, <1>5, <1>6, <1>7, <1>8, <1>9, <1>10, <1>11, <1>12, <1>13, <1>14, <1>15, <1>16, <1>17,
     KeepsStep, WhoRuns DEF Run

LEMMA WhoSends ==
  ASSUME [Next]_vars
  PROVE  UNCHANGED <<sent, late>> \/ \E r \in Runs : Act(r)
<1>1. ASSUME NEW r \in Runs, Run(r) \/ StepFails(r) \/ Crash(r)
      PROVE  UNCHANGED <<sent, late>> \/ Act(r)
  BY <1>1 DEF Run, Deliver, Lock, Check, Claim, Begin, Record, ArmWait, Sleep, ArmTimeout,
              Await, InsertWaiter, Finish, Release, StepFails, Crash, history
<1>2. ASSUME NEW p \in Pollers, Poll(p) \/ PollFails(p) PROVE UNCHANGED <<sent, late>>
  BY <1>2 DEF Poll, PollClaim, PollLook, PollExpire, PollFind, PollWrite, PollPublish,
              PollRemove, PollFails, history
<1>3. ASSUME NEW e \in Events, EventSelect(e) \/ Event(e) \/ EventFails(e) PROVE UNCHANGED <<sent, late>>
  BY <1>3 DEF Event, EventSelect, EventFind, EventFill, EventDelete, EventFlush, EventFails, history
<1>4. ASSUME Trigger \/ Cancel \/ Time \/ Reap \/ UNCHANGED vars PROVE UNCHANGED <<sent, late>>
  BY <1>4 DEF Trigger, Cancel, Time, LockExpires, Elapse, Reappear, Reap, vars, history
<1> QED
  BY <1>1, <1>2, <1>3, <1>4 DEF Next

LEMMA SentBelowStep ==
  ASSUME Base, Order, [Next]_vars
  PROVE  SentBelow'
<1>1. CASE sent' = sent
  BY <1>1, PassedStays DEF Order, SentBelow
<1>2. ASSUME NEW r \in Runs, Act(r) PROVE SentBelow'
  <2>1. \A i \in Steps : i < run[r].at => Passed(i)
    BY <1>2, NextRow DEF Act
  <2>2. \A j \in Steps : sent'[j] = IF j = run[r].at THEN sent[j] + 1 ELSE sent[j]
    BY <1>2 DEF Act, Base, Types
  <2> QED
    BY <2>1, <2>2, PassedStays DEF Order, SentBelow
<1> QED
  BY <1>1, <1>2, WhoSends

\* A row is written in place only to record an answer.
LEMMA AnswersStay ==
  ASSUME Base, Order, [Next]_vars, NEW i \in Steps, step[i] \in {"data", "timedOut"}
  PROVE  step'[i] \in {"data", "timedOut"}
<1>1. step[i] # "none"
  OBVIOUS
<1>2. Passed(i)
  BY DEF Passed
<1>3. Passed(i)'
  BY <1>2, PassedStays
<1>4. Program[i] = "event"
  BY Constants DEF Base, Kinds
<1>5. Program[i] = "event" => step'[i] \in {"none", "null", "data", "timedOut"}
  BY BaseStep DEF Base, Kinds
<1> QED
  BY <1>3, <1>4, <1>5 DEF Passed

LEMMA WhoWaits ==
  ASSUME [Next]_vars
  PROVE  waiters' \subseteq waiters \/ \E r \in Runs : InsertWaiter(r)
<1>1. ASSUME NEW r \in Runs, Run(r) \/ StepFails(r) \/ Crash(r)
      PROVE  waiters' = waiters \/ InsertWaiter(r)
  BY <1>1 DEF Run, Deliver, Lock, Check, Claim, Begin, Act, Record, ArmWait, Sleep, ArmTimeout,
              Await, Finish, Release, StepFails, Crash, rows
<1>2. ASSUME NEW p \in Pollers, Poll(p) \/ PollFails(p) PROVE waiters' \subseteq waiters
  BY <1>2 DEF Poll, PollClaim, PollLook, PollExpire, PollFind, PollWrite, PollPublish,
              PollRemove, PollFails, rows
<1>3. ASSUME NEW e \in Events, EventSelect(e) \/ Event(e) \/ EventFails(e)
      PROVE  waiters' \subseteq waiters
  BY <1>3 DEF Event, EventSelect, EventFind, EventFill, EventDelete, EventFlush, EventFails, rows
<1>4. ASSUME Trigger \/ Cancel \/ Time \/ Reap \/ UNCHANGED vars PROVE waiters' \subseteq waiters
  BY <1>4 DEF Trigger, Cancel, Time, LockExpires, Elapse, Reappear, Reap, vars, rows
<1> QED
  BY <1>1, <1>2, <1>3, <1>4 DEF Next

PollTarget(p) ==
  poll[p].pc \in {"expire", "find", "write", "stale"} =>
    poll[p].t \in EventSteps /\ step[poll[p].t] # "none"

EventTarget(e) ==
  /\ \A w \in event[e].todo : step[w] # "none"
  /\ event[e].pc = "fill" =>
       /\ event[e].target \in EventSteps
       /\ step[event[e].target] # "none"
       /\ event[e].waiter = event[e].target \/ step[event[e].waiter] \in {"data", "timedOut"}
       /\ event[e].waiter \in EventSteps
  /\ event[e].pc = "delete" =>
       /\ event[e].waiter \in EventSteps
       /\ step[event[e].waiter] \in {"data", "timedOut"}
  /\ event[e].pc \in {"new", "again"} => event[e].buffered = 0

LEMMA TargetsParts ==
  Targets <=> /\ \A w \in waiters : step[w] # "none"
              /\ \A p \in Pollers : PollTarget(p)
              /\ \A e \in Events : EventTarget(e)
BY DEF Targets, PollTarget, EventTarget

LEMMA PollTargetStep ==
  ASSUME Base, Order, [Next]_vars, NEW q \in Pollers
  PROVE  PollTarget(q)'
<1>1. PollTarget(q) /\ \A i \in EventSteps : step[i] # "none" => step'[i] # "none"
  BY PassedStays, TargetsParts DEF Order, EventSteps
<1>2. CASE poll'[q] = poll[q]
  BY <1>1, <1>2 DEF PollTarget
<1>3. CASE PollClaim(q)
  BY <1>3, PollClaimMoves DEF PollTarget, PollMoved, Base
<1>4. CASE PollLook(q)
  BY <1>1, <1>4, PollLookMoves DEF PollTarget, PollMoved, Base
<1>5. CASE PollExpire(q)
  BY <1>1, <1>5, PollExpireMoves DEF PollTarget, PollMoved, Base, PollExpire
<1>6. CASE PollFind(q)
  BY <1>1, <1>6, PollFindMoves DEF PollTarget, PollMoved, Base, PollFind
<1>7. CASE PollWrite(q) \/ PollPublish(q) \/ PollRemove(q) \/ PollFails(q)
  BY <1>7, PollWriteMoves, PollPublishMoves, PollRemoveMoves, PollFailsMoves
     DEF PollTarget, PollMoved, Base
<1>8. ASSUME NEW p \in Pollers, p # q, Poll(p) \/ PollFails(p)
      PROVE  poll'[q] = poll[q]
  BY <1>8, PollClaimMoves, PollLookMoves, PollExpireMoves, PollFindMoves, PollWriteMoves,
     PollPublishMoves, PollRemoveMoves, PollFailsMoves DEF Poll, PollMoved, Base
<1> QED
  BY <1>2, <1>3, <1>4, <1>5, <1>6, <1>7, <1>8, WhoPolls DEF Poll

LEMMA EventTargetStep ==
  ASSUME Base, Order, [Next]_vars, NEW f \in Events
  PROVE  EventTarget(f)'
<1>1. /\ EventTarget(f)
      /\ \A i \in EventSteps : step[i] # "none" => step'[i] # "none"
      /\ \A i \in EventSteps :
           step[i] \in {"data", "timedOut"} => step'[i] \in {"data", "timedOut"}
      /\ \A w \in waiters : step[w] # "none"
  BY PassedStays, AnswersStay, TargetsParts DEF Order, EventSteps
<1>2. event[f].todo \subseteq EventSteps
  BY Fields DEF Base
<1>3. CASE event'[f] = event[f]
  BY <1>1, <1>2, <1>3 DEF EventTarget
<1>4. CASE EventSelect(f)
  <2>1. \A w \in waiters : w \in EventSteps /\ step'[w] # "none"
    BY <1>1 DEF Base, Types
  <2> QED
    BY <1>4, <2>1, EventSelectMoves DEF Base, EventMoved, EventRow, EventTarget
<1>5. CASE EventFind(f)
  <2>1. PICK w \in event[f].todo :
          \/ /\ \A i \in Steps : step[i] # "null"
             /\ EventMoved(f, EventRow("delete", event[f].todo, w, 0, event[f].buffered + 1))
          \/ \E i \in EventSteps :
               /\ step[i] = "null"
               /\ EventMoved(f, EventRow("fill", event[f].todo, w, i, event[f].buffered))
    BY <1>5, EventFindMoves DEF Base
  <2>2. w \in EventSteps /\ step[w] \in {"null", "data", "timedOut"}
    BY <1>1, <1>2 DEF EventTarget, EventSteps, Base, Kinds
  <2>3. step' = step
    BY <1>5 DEF EventFind, rows
  <2>4. CASE /\ \A i \in Steps : step[i] # "null"
             /\ EventMoved(f, EventRow("delete", event[f].todo, w, 0, event[f].buffered + 1))
    <3>1. step[w] \in {"data", "timedOut"}
      BY <2>2, <2>4 DEF EventSteps
    <3> QED
      BY <1>1, <2>2, <2>3, <2>4, <3>1 DEF EventMoved, EventRow, EventTarget
  <2>5. ASSUME NEW i \in EventSteps, step[i] = "null",
               EventMoved(f, EventRow("fill", event[f].todo, w, i, event[f].buffered))
        PROVE  EventTarget(f)'
    <3>1. ASSUME NEW j \in EventSteps, step[j] = "null"
          PROVE  j = Recorded
      <4>1. j \in Steps /\ j \in Nat /\ ~Passed(j) /\ step[j] # "none"
        BY <3>1, Constants DEF EventSteps, Passed, Steps
      <4> QED
        BY <4>1, Constants DEF Order, Prefix, BelowPassed, Places
    <3>2. w = i \/ step[w] \in {"data", "timedOut"}
      BY <2>2, <2>5, <3>1
    <3> QED
      BY <1>1, <2>2, <2>3, <2>5, <3>2 DEF EventMoved, EventRow, EventTarget
  <2> QED
    BY <2>1, <2>4, <2>5
<1>6. CASE EventFill(f)
  <2>1. event'[f] = EventRow("delete", event[f].todo, event[f].waiter, event[f].target,
                             event[f].buffered + 1)
    BY <1>6, EventFillMoves DEF Base, EventMoved
  <2>2. event[f].waiter \in EventSteps /\ step'[event[f].waiter] \in {"data", "timedOut"}
    BY <1>1, <1>6 DEF EventFill, EventTarget, Base, Types, EventSteps
  <2> QED
    BY <1>1, <1>2, <2>1, <2>2 DEF EventRow, EventTarget
<1>7. CASE EventDelete(f)
  <2>1. PICK pc \in {"find", "flush", "done"} :
          event'[f] = EventRow(pc, event[f].todo \ {event[f].waiter}, 0, 0, event[f].buffered)
    BY <1>7, EventDeleteMoves DEF Base, EventMoved
  <2> QED
    BY <1>1, <1>2, <2>1 DEF EventRow, EventTarget
<1>8. CASE EventFlush(f)
  <2>1. PICK pc \in {"done", event[f].pc} :
          event'[f] = EventRow(pc, event[f].todo, event[f].waiter, event[f].target, 0)
    BY <1>8, EventFlushMoves DEF Base, EventMoved
  <2> QED
    BY <1>1, <1>2, <2>1 DEF EventRow, EventTarget
<1>9. CASE EventFails(f)
  BY <1>9, EventFailsMoves DEF Base, EventMoved, EventRow, EventTarget
<1>10. ASSUME NEW e \in Events, e # f, EventSelect(e) \/ Event(e) \/ EventFails(e)
       PROVE  event'[f] = event[f]
  BY <1>10, EventSelectMoves, EventFindMoves, EventFillMoves, EventDeleteMoves,
     EventFlushMoves, EventFailsMoves DEF Event, EventMoved, Base
<1> QED
  BY <1>3, <1>4, <1>5, <1>6, <1>7, <1>8, <1>9, <1>10, WhoHandles DEF Event

LEMMA TargetsStep ==
  ASSUME Base, Order, [Next]_vars
  PROVE  Targets'
<1>1. \A w \in waiters' : step'[w] # "none"
  <2>1. \A w \in waiters : step'[w] # "none"
    BY PassedStays DEF Order, Targets, Base, Types, EventSteps
  <2>2. ASSUME NEW r \in Runs, InsertWaiter(r)
        PROVE  waiters' = waiters \union {run[r].at} /\ step'[run[r].at] # "none"
    <3>1. run[r].at \in Steps /\ run[r].at = Recorded
      BY <2>2 DEF InsertWaiter, Base, AtStep, Order, Placed
    <3>2. step[run[r].at] # "none"
      BY <3>1, Constants DEF Order, Prefix, Places
    <3> QED
      BY <2>2, <3>1, <3>2, PassedStays DEF InsertWaiter
  <2> QED
    BY <2>1, <2>2, WhoWaits
<1>2. \A p \in Pollers : PollTarget(p)'
  BY PollTargetStep
<1>3. \A e \in Events : EventTarget(e)'
  BY EventTargetStep
<1> QED
  BY <1>1, <1>2, <1>3 DEF Targets, PollTarget, EventTarget

LEMMA OrderInit == Init => Order
<1> SUFFICES ASSUME Init PROVE Order
  OBVIOUS
<1>1. Recorded = 0
  <2>1. 0 \in Places /\ \A i \in Steps : step[i] # "none" <=> i =< 0
    BY Constants DEF Init, Places, Steps
  <2> QED
    BY <2>1, RecordedCounts
<1> QED
  BY <1>1, Constants DEF Init, Order, Prefix, Places, Steps, BelowPassed, Placed, SentBelow, Targets

LEMMA OrderStep == Base /\ Order /\ [Next]_vars => Order'
BY PrefixStep, PlacedStep, SentBelowStep, TargetsStep DEF Order

LEMMA OrderHolds == Spec => [](Base /\ Order)
<1>1. Base /\ Order /\ [Next]_vars => Base' /\ Order'
  BY BaseStep, OrderStep
<1> QED
  BY BaseInit, OrderInit, <1>1, PTL DEF Spec

\* What comes after a wait happens after its resumeAt has passed, also when a
\* stale timer, a redelivered message or the reaper resumes the instance early.
THEOREM SleptOut == Spec => []SleepsOut
<1>1. Base /\ Order => SleepsOut
  BY Constants DEF Base, Kinds, Order, SentBelow, SleepsOut, Passed
<1> QED
  BY <1>1, OrderHolds, PTL

\* What comes after an event wait happens after the event or the timeout was
\* recorded, whichever of the two wins.
THEOREM Answered == Spec => []WaitsForAnswer
<1>1. Base /\ Order => WaitsForAnswer
  BY Constants DEF Base, Kinds, Order, SentBelow, WaitsForAnswer, Passed
<1> QED
  BY <1>1, OrderHolds, PTL

-----------------------------------------------------------------------------
(* History is inductive.                                                   *)

LEMMA RedoneGrows == [Next]_vars => redone \subseteq redone'
<1> SUFFICES ASSUME [Next]_vars PROVE redone \subseteq redone'
  OBVIOUS
<1>1. ASSUME NEW r \in Runs, Run(r) \/ StepFails(r) \/ Crash(r)
      PROVE  redone \subseteq redone'
  BY <1>1 DEF Run, Deliver, Lock, Check, Claim, Begin, Act, Record, ArmWait, Sleep, ArmTimeout,
              Await, InsertWaiter, Finish, Release, StepFails, Crash, history
<1>2. ASSUME NEW p \in Pollers, Poll(p) \/ PollFails(p) PROVE redone \subseteq redone'
  BY <1>2 DEF Poll, PollClaim, PollLook, PollExpire, PollFind, PollWrite, PollPublish,
              PollRemove, PollFails, history
<1>3. ASSUME NEW e \in Events, EventSelect(e) \/ Event(e) \/ EventFails(e)
      PROVE  redone \subseteq redone'
  BY <1>3 DEF Event, EventSelect, EventFind, EventFill, EventDelete, EventFlush, EventFails, history
<1>4. ASSUME Trigger \/ Cancel \/ Time \/ Reap \/ UNCHANGED vars PROVE redone \subseteq redone'
  BY <1>4 DEF Trigger, Cancel, Time, LockExpires, Elapse, Reappear, Reap, vars, history
<1> QED
  BY <1>1, <1>2, <1>3, <1>4 DEF Next

\* A run that has carried out an effect writes its row, or the step is redone.
LEMMA RecordsOrRedone ==
  ASSUME Base, Order, [Next]_vars, NEW r \in Runs, run[r].pc = "record"
  PROVE  \/ run'[r] = run[r]
         \/ step'[run[r].at] # "none"
         \/ run[r].at \in redone'
<1>1. CASE Run(r)
  <2>1. Record(r)
    BY <1>1 DEF Run, Deliver, Lock, Check, Claim, Begin, Act, ArmWait, Sleep, ArmTimeout, Await,
                InsertWaiter, Finish, Release
  <2> QED
    BY <2>1, RowInserted
<1>2. CASE StepFails(r) \/ Crash(r)
  BY <1>2 DEF StepFails, Crash
<1> QED
  BY <1>1, <1>2, RunStays

LEMMA OnceStep ==
  ASSUME Base, Order, Once, [Next]_vars
  PROVE  Once'
<1>1. SUFFICES ASSUME NEW i \in Steps, sent'[i] > 0, i \notin redone'
               PROVE  /\ sent'[i] = 1
                      /\ step'[i] # "none" \/ \E r \in Runs : run'[r].pc = "record" /\ run'[r].at = i
  BY DEF Once
<1>2. i \notin redone
  BY <1>1, RedoneGrows
<1>3. ASSUME sent[i] > 0
      PROVE  \/ step'[i] # "none"
             \/ \E r \in Runs : run'[r].pc = "record" /\ run'[r].at = i
  <2>1. CASE step[i] # "none"
    BY <2>1, PassedStays
  <2>2. ASSUME NEW r \in Runs, run[r].pc = "record", run[r].at = i
        PROVE  step'[i] # "none" \/ (run'[r].pc = "record" /\ run'[r].at = i)
    BY <1>1, <2>2, RecordsOrRedone
  <2> QED
    BY <1>2, <1>3, <2>1, <2>2 DEF Once
<1>4. CASE sent' = sent
  BY <1>1, <1>2, <1>3, <1>4 DEF Once
<1>5. ASSUME NEW r \in Runs, Act(r)
      PROVE  /\ sent'[i] = 1
             /\ step'[i] # "none" \/ \E q \in Runs : run'[q].pc = "record" /\ run'[q].at = i
  <2>1. \A j \in Steps : sent'[j] = IF j = run[r].at THEN sent[j] + 1 ELSE sent[j]
    BY <1>5 DEF Act, Base, Types
  <2>2. CASE i = run[r].at
    <3>1. step[i] = "none" /\ \A q \in Runs : run[q].pc # "record"
      BY <1>5, <2>2, NextRow DEF Act, Base, Alone
    <3>2. sent[i] = 0
      BY <1>2, <3>1 DEF Once, Base, Types
    <3> QED
      BY <1>5, <2>1, <2>2, <3>2, ActMoves DEF Moved, Base
  <2>3. CASE i # run[r].at
    BY <1>1, <1>2, <1>3, <2>1, <2>3 DEF Once
  <2> QED
    BY <2>2, <2>3
<1> QED
  BY <1>4, <1>5, WhoSends

LEMMA NoActAfterCancel ==
  ASSUME Base, [Next]_vars, NEW r \in Runs, status = "canceled", run[r].pc # "act"
  PROVE  run'[r].pc # "act"
<1>1. CASE Begin(r)
  BY <1>1, BeginMoves DEF Base, Moved
<1>2. CASE Run(r) /\ ~Begin(r)
  BY <1>2, DeliverMoves, LockMoves, CheckMoves, ClaimMoves, ActMoves, RecordMoves,
     ArmWaitMoves, SleepMoves, ArmTimeoutMoves, AwaitMoves, InsertWaiterMoves,
     FinishMoves, ReleaseMoves DEF Base, Run, Moved
<1>3. CASE StepFails(r) \/ Crash(r)
  BY <1>3, StepFailsMoves, CrashMoves DEF Base, Moved
<1> QED
  BY <1>1, <1>2, <1>3, RunStays

LEMMA LateStep ==
  ASSUME Base, LateOnce, [Next]_vars
  PROVE  LateOnce'
<1>1. CASE late' = late
  <2>1. ASSUME late > 0
        PROVE  status' = "canceled" /\ \A r \in Runs : run'[r].pc # "act"
    BY <2>1, NoActAfterCancel, FinishedStep DEF LateOnce, Finished
  <2> QED
    BY <1>1, <2>1 DEF LateOnce
<1>2. ASSUME NEW r \in Runs, Act(r) PROVE LateOnce'
  <2>1. late = 0
    BY <1>2 DEF Act, LateOnce, Base, Types
  <2>2. \A q \in Runs : run'[q].pc # "act"
    BY <1>2, ActMoves DEF Act, Moved, Base, Alone
  <2>3. status' = status /\ late' = IF status = "canceled" THEN 1 ELSE 0
    BY <1>2, <2>1 DEF Act, rows
  <2> QED
    BY <2>2, <2>3 DEF LateOnce
<1> QED
  BY <1>1, <1>2, WhoSends

LEMMA HistoryHolds == Spec => [](Base /\ Order /\ History)
<1>1. Init => History
  BY DEF Init, History, Once, LateOnce
<1>2. Base /\ Order /\ History /\ [Next]_vars => Base' /\ Order' /\ History'
  BY BaseStep, OrderStep, OnceStep, LateStep DEF History
<1> QED
  BY BaseInit, OrderInit, <1>1, <1>2, PTL DEF Spec

\* The effect of a step is carried out once, whatever is redelivered, reaped or
\* resumed, unless its row could not be written.
THEOREM ActedOnce == Spec => []ActOnce
<1>1. Base /\ History => ActOnce
  <2> SUFFICES ASSUME Base, History, NEW i \in Steps PROVE sent[i] =< 1 \/ i \in redone
    BY DEF ActOnce
  <2>1. sent[i] \in Nat
    BY DEF Base, Types
  <2> QED
    BY <2>1 DEF History, Once
<1> QED
  BY <1>1, HistoryHolds, PTL

\* After a cancel at most the step under way is carried out.
THEOREM CancelHeeded == Spec => []CancelStops
<1>1. History => CancelStops
  BY DEF History, LateOnce, CancelStops
<1> QED
  BY <1>1, HistoryHolds, PTL

-----------------------------------------------------------------------------
(* Wakes is inductive: how each variable may change.                       *)

LEMMA SlipsGrow == [Next]_vars => slips \subseteq slips'
<1> SUFFICES ASSUME [Next]_vars PROVE slips \subseteq slips'
  OBVIOUS
<1>1. ASSUME NEW r \in Runs, Run(r) \/ StepFails(r) \/ Crash(r)
      PROVE  slips \subseteq slips'
  BY <1>1 DEF Run, Deliver, Lock, Check, Claim, Begin, Act, Record, ArmWait, Sleep, ArmTimeout,
              Await, InsertWaiter, Finish, Release, StepFails, Crash, DeferResume, Arm
<1>2. ASSUME NEW p \in Pollers, Poll(p) \/ PollFails(p) PROVE slips \subseteq slips'
  BY <1>2 DEF Poll, PollClaim, PollLook, PollExpire, PollFind, PollWrite, PollPublish,
              PollRemove, PollFails
<1>3. ASSUME NEW e \in Events, EventSelect(e) \/ Event(e) \/ EventFails(e)
      PROVE  slips \subseteq slips'
  BY <1>3 DEF Event, EventSelect, EventFind, EventFill, EventDelete, EventFlush, EventFails
<1>4. ASSUME Trigger \/ Cancel \/ Time \/ Reap \/ UNCHANGED vars PROVE slips \subseteq slips'
  BY <1>4 DEF Trigger, Cancel, Time, LockExpires, Elapse, Reappear, Reap, vars
<1> QED
  BY <1>1, <1>2, <1>3, <1>4 DEF Next

\* The status of an instance that a run works on changes only by that run, or
\* by a cancel.
LEMMA StatusHeld ==
  ASSUME Base, [Next]_vars, slips' = {}, NEW q \in Runs, run[q].pc \notin {"idle", "lock"},
         ~Check(q), ~Claim(q), ~Finish(q)
  PROVE  status' = status \/ status' \in Finished
<1>1. lock = q /\ \A r \in Runs : r # q => run[r].pc \in {"idle", "lock"}
  BY DEF Base, Alone
<1>2. ASSUME NEW r \in Runs, Run(r) \/ StepFails(r) \/ Crash(r)
      PROVE  status' = status
  BY <1>1, <1>2 DEF Run, Deliver, Lock, Check, Claim, Begin, Act, Record, ArmWait, Sleep,
              ArmTimeout, Await, InsertWaiter, Finish, Release, StepFails, Crash, rows
<1>3. ASSUME NEW p \in Pollers, Poll(p) \/ PollFails(p) PROVE status' = status
  BY <1>3 DEF Poll, PollClaim, PollLook, PollExpire, PollFind, PollWrite, PollPublish,
              PollRemove, PollFails, rows
<1>4. ASSUME NEW e \in Events, EventSelect(e) \/ Event(e) \/ EventFails(e)
      PROVE  status' = status
  BY <1>4 DEF Event, EventSelect, EventFind, EventFill, EventDelete, EventFlush, EventFails, rows
<1>5. CASE Trigger
  BY <1>5 DEF Trigger, Base, Untouched
<1>6. CASE Reap
  BY <1>1, <1>6 DEF Reap
<1>7. ASSUME Cancel \/ Time \/ UNCHANGED vars PROVE status' = status \/ status' \in Finished
  BY <1>7 DEF Cancel, Time, LockExpires, Elapse, Reappear, vars, rows, Finished
<1> QED
  BY <1>2, <1>3, <1>4, <1>5, <1>6, <1>7 DEF Next

\* Only a poll removes a timer.
LEMMA TimersStay ==
  ASSUME Base, [Next]_vars, NEW t \in Members, timers[t] # "absent"
  PROVE  \/ timers'[t] # "absent"
         \/ \E p \in Pollers : poll[p].t = t /\ poll[p].pc \in {"remove", "stale"}
<1>1. ASSUME NEW r \in Runs, Run(r) \/ StepFails(r) \/ Crash(r)
      PROVE  timers'[t] # "absent"
  <2>1. CASE UNCHANGED timers
    BY <2>1
  <2>2. ASSUME NEW u, Arm(u) PROVE timers'[t] # "absent"
    BY <2>2 DEF Arm, Base, Types
  <2> QED
    BY <1>1, <2>1, <2>2 DEF Run, Deliver, Lock, Check, Claim, Begin, Act, Record, ArmWait,
              Sleep, ArmTimeout, Await, InsertWaiter, Finish, Release, StepFails, Crash,
              DeferResume, zset
<1>2. ASSUME NEW p \in Pollers, PollClaim(p) PROVE timers'[t] # "absent"
  BY <1>2 DEF PollClaim, Base, Types
<1>3. ASSUME NEW p \in Pollers, PollRemove(p), poll[p].t # t PROVE timers'[t] # "absent"
  BY <1>3 DEF PollRemove, Base, Types
<1>4. ASSUME NEW p \in Pollers, Poll(p) \/ PollFails(p), ~PollClaim(p), ~PollRemove(p)
      PROVE  timers' = timers
  BY <1>4 DEF Poll, PollLook, PollExpire, PollFind, PollWrite, PollPublish, PollFails, zset
<1>5. ASSUME NEW e \in Events, EventSelect(e) \/ Event(e) \/ EventFails(e)
      PROVE  timers' = timers
  BY <1>5 DEF Event, EventSelect, EventFind, EventFill, EventDelete, EventFlush, EventFails, zset
<1>6. ASSUME Trigger \/ Cancel \/ LockExpires \/ Reap \/ UNCHANGED vars PROVE timers' = timers
  BY <1>6 DEF Trigger, Cancel, LockExpires, Reap, vars, zset
<1>7. ASSUME NEW i, Elapse(i) PROVE timers' = timers
  BY <1>7 DEF Elapse
<1>8. ASSUME NEW u \in Members, Reappear(u) PROVE timers'[t] # "absent"
  BY <1>8 DEF Reappear, Base, Types
<1> QED
  BY <1>1, <1>2, <1>3, <1>4, <1>5, <1>6, <1>7, <1>8 DEF Next, Time, PollRemove, Poll

LEMMA PollStays ==
  ASSUME Base, [Next]_vars, NEW q \in Pollers
  PROVE  poll'[q] = poll[q] \/ Poll(q) \/ PollFails(q)
<1>1. ASSUME NEW p \in Pollers, p # q, Poll(p) \/ PollFails(p)
      PROVE  poll'[q] = poll[q]
  BY <1>1, PollClaimMoves, PollLookMoves, PollExpireMoves, PollFindMoves, PollWriteMoves,
     PollPublishMoves, PollRemoveMoves, PollFailsMoves DEF Poll, PollMoved, Base
<1> QED
  BY <1>1, WhoPolls

LEMMA EventStays ==
  ASSUME Base, [Next]_vars, NEW f \in Events
  PROVE  event'[f] = event[f] \/ EventSelect(f) \/ Event(f) \/ EventFails(f)
<1>1. ASSUME NEW e \in Events, e # f, EventSelect(e) \/ Event(e) \/ EventFails(e)
      PROVE  event'[f] = event[f]
  BY <1>1, EventSelectMoves, EventFindMoves, EventFillMoves, EventDeleteMoves,
     EventFlushMoves, EventFailsMoves DEF Event, EventMoved, Base
<1> QED
  BY <1>1, WhoHandles

\* Where a poll goes.
LEMMA PollNext ==
  ASSUME Base, [Next]_vars, slips' = {}, NEW q \in Pollers
  PROVE  \/ poll'[q] = poll[q]
         \/ poll[q].pc = "idle" /\ poll'[q].pc = "look" /\ DueAt(poll'[q].t) \in past
         \/ /\ poll'[q].t = poll[q].t
            /\ \/ poll[q].pc \notin {"find", "write"} /\ poll'[q].pc = "idle"
                  /\ (poll[q].pc = "publish" => poll[q].t \notin EventSteps)
               \/ /\ poll[q].pc = "look" /\ UNCHANGED <<status, step>>
                  /\ \/ status \in Finished /\ poll'[q].pc = "remove"
                     \/ /\ status \notin Finished \union {"running"}
                        /\ IF poll[q].t \notin EventSteps THEN poll'[q].pc = "publish"
                           ELSE poll'[q].pc = IF step[poll[q].t] = "null" THEN "expire" ELSE "remove"
               \/ PollExpire(q) /\ poll'[q].pc = IF waiters = {} THEN "stale" ELSE "find"
               \/ PollFind(q) /\ poll'[q].pc \in {"write", "publish"}
               \/ PollWrite(q) /\ poll'[q].pc = "publish"
               \/ PollPublish(q) /\ poll'[q].pc = "remove"
<1>1. CASE PollClaim(q)
  BY <1>1, PollClaimMoves DEF PollMoved, Base, PollClaim
<1>2. CASE PollLook(q)
  <2>1. status # "none"
    BY <1>2 DEF PollLook
  <2>2. poll[q].pc = "look" /\ UNCHANGED <<status, step>>
    BY <1>2 DEF PollLook, rows
  <2>3. /\ poll'[q].t = poll[q].t
        /\ \/ status \in Finished /\ poll'[q].pc = "remove"
           \/ status = "running" /\ poll'[q].pc = "idle"
           \/ /\ status \in {"new", "pending"}
              /\ IF poll[q].t \notin EventSteps THEN poll'[q].pc = "publish"
                 ELSE poll'[q].pc = IF step[poll[q].t] = "null" THEN "expire" ELSE "remove"
    BY <1>2, <2>1, PollLookMoves DEF PollMoved, Base
  <2> QED
    BY <2>2, <2>3 DEF Finished
<1>3. CASE PollExpire(q)
  BY <1>3, PollExpireMoves DEF PollMoved, Base
<1>4. CASE PollFind(q)
  BY <1>4, PollFindMoves DEF PollMoved, Base
<1>5. CASE PollWrite(q)
  BY <1>5, PollWriteMoves DEF PollMoved, Base
<1>6. CASE PollPublish(q)
  BY <1>6, PollPublishMoves DEF PollMoved, Base
<1>7. CASE PollRemove(q)
  BY <1>7, PollRemoveMoves DEF PollMoved, Base, PollRemove
<1>8. CASE PollFails(q)
  BY <1>8, PollFailsMoves DEF PollMoved, Base, PollFails
<1> QED
  BY <1>1, <1>2, <1>3, <1>4, <1>5, <1>6, <1>7, <1>8, PollStays DEF Poll

LEMMA WhoForgets ==
  ASSUME [Next]_vars
  PROVE  \/ past \subseteq past' \union {Deferred} /\ nap' = nap
         \/ \E r \in Runs : ArmWait(r) \/ ArmTimeout(r)
<1>1. ASSUME NEW r \in Runs, Run(r) \/ StepFails(r) \/ Crash(r), ~ArmWait(r), ~ArmTimeout(r)
      PROVE  past \subseteq past' \union {Deferred} /\ nap' = nap
  BY <1>1 DEF Run, Deliver, Lock, Check, Claim, Begin, Act, Record, Sleep, Await,
              InsertWaiter, Finish, Release, StepFails, Crash, DeferResume, zset
<1>2. ASSUME NEW p \in Pollers, Poll(p) \/ PollFails(p) PROVE past' = past /\ nap' = nap
  BY <1>2 DEF Poll, PollClaim, PollLook, PollExpire, PollFind, PollWrite, PollPublish,
              PollRemove, PollFails, zset
<1>3. ASSUME NEW e \in Events, EventSelect(e) \/ Event(e) \/ EventFails(e)
      PROVE  past' = past /\ nap' = nap
  BY <1>3 DEF Event, EventSelect, EventFind, EventFill, EventDelete, EventFlush, EventFails, zset
<1>4. ASSUME Trigger \/ Cancel \/ Time \/ Reap \/ UNCHANGED vars
      PROVE  past \subseteq past' /\ nap' = nap
  BY <1>4 DEF Trigger, Cancel, Time, LockExpires, Elapse, Reappear, Reap, vars, zset
<1> QED
  BY <1>1, <1>2, <1>3, <1>4 DEF Next

-----------------------------------------------------------------------------
(* Wakes is inductive: what keeps a wake-up.                               *)

\* What is to be kept while no slip has happened.
Calm == Owned /\ NapKept /\ WaitKept /\ Driven

LEMMA OwnedStep ==
  ASSUME Base, Owned, [Next]_vars, slips' = {}
  PROVE  Owned'
<1>1. SUFFICES ASSUME NEW q \in Runs
               PROVE  /\ run'[q].pc \in Active => status' \in Finished \union {"running"}
                      /\ run'[q].pc = "claim" => status' \in Finished \union {"pending"}
  BY DEF Owned
<1>2. /\ run[q].pc \in Active => status \in Finished \union {"running"}
      /\ run[q].pc = "claim" => status \in Finished \union {"pending"}
  BY DEF Owned
<1>3. status \in Finished => status' = status
  BY FinishedStep
<1>4. CASE Check(q)
  BY <1>4, CheckMoves DEF Base, Moved, Active
<1>5. CASE Claim(q)
  BY <1>3, <1>5, ClaimMoves DEF Base, Moved, Active
<1>6. CASE Finish(q)
  BY <1>6, FinishMoves DEF Base, Moved, Active
<1>7. CASE Deliver(q) \/ Lock(q)
  BY <1>7, DeliverMoves, LockMoves DEF Base, Moved, Active
<1>8. CASE Release(q) \/ Crash(q)
  BY <1>8, ReleaseMoves, CrashMoves DEF Base, Moved, Active
<1>9. CASE Begin(q) \/ Act(q) \/ Record(q) \/ ArmWait(q) \/ Sleep(q) \/ ArmTimeout(q) \/ Await(q)
           \/ InsertWaiter(q) \/ StepFails(q)
  <2>1. run[q].pc \in Active
    BY <1>9 DEF Begin, Act, Record, ArmWait, Sleep, ArmTimeout, Await, InsertWaiter, StepFails,
                Active
  <2>2. run'[q].pc # "claim"
    BY <1>9, BeginMoves, ActMoves, RecordMoves, ArmWaitMoves, SleepMoves, ArmTimeoutMoves,
       AwaitMoves, InsertWaiterMoves, StepFailsMoves, Constants DEF Base, Moved, AtStep, Begin
  <2>3. status' = status
    BY <1>9 DEF Begin, Act, Record, ArmWait, Sleep, ArmTimeout, Await, InsertWaiter, StepFails,
                rows
  <2> QED
    BY <1>2, <2>1, <2>2, <2>3
<1>10. CASE run'[q] = run[q] /\ ~Check(q) /\ ~Claim(q) /\ ~Finish(q)
  <2>1. CASE run[q].pc \in {"idle", "lock"}
    BY <1>10, <2>1 DEF Active
  <2>2. CASE run[q].pc \notin {"idle", "lock"}
    <3>1. status' = status \/ status' \in Finished
      BY <1>10, <2>2, StatusHeld
    <3> QED
      BY <1>2, <1>3, <1>10, <3>1
  <2> QED
    BY <2>1, <2>2
<1> QED
  BY <1>4, <1>5, <1>6, <1>7, <1>8, <1>9, <1>10, RunStays DEF Run

\* A timer just set, which no poll is working on.
LEMMA Armed ==
  ASSUME Types, NEW t \in Members, Arm(t), slips' = {}, poll' = poll
  PROVE  timers'[t] # "absent" /\ PollsIn(t, {"idle"})'
BY DEF Types, Arm, PollsIn

\* While the instance is running, polls leave its timers alone.
LEMMA QuietStays ==
  ASSUME Base, Order, [Next]_vars, slips' = {}, NEW t \in Members, timers[t] # "absent",
         PollsIn(t, {"idle", "look"}), status = "running"
  PROVE  timers'[t] # "absent" /\ PollsIn(t, {"idle", "look"})'
<1>1. timers'[t] # "absent"
  BY TimersStay DEF PollsIn
<1>2. ASSUME NEW q \in Pollers, poll'[q].t = t
      PROVE  poll'[q].pc \in {"idle", "look"}
  BY <1>2, PollNext DEF PollsIn, Finished, PollExpire, PollFind, PollWrite, PollPublish
<1> QED
  BY <1>1, <1>2 DEF PollsIn

LEMMA NapHasTimer ==
  ASSUME Base, Order, Calm, [Next]_vars, slips' = {}, nap' # 0, nap' \notin past'
  PROVE  timers'[Wake] # "absent" /\ PollsIn(Wake, {"idle"})'
<1>1. Wake \in Members
  BY DEF Members
<1>2. CASE \E r \in Runs : ArmWait(r)
  BY <1>1, <1>2, Armed DEF ArmWait, Base
<1>3. ASSUME nap' = nap, nap \notin past
      PROVE  timers'[Wake] # "absent" /\ PollsIn(Wake, {"idle"})'
  <2>1. timers[Wake] # "absent" /\ PollsIn(Wake, {"idle"})
    BY <1>3 DEF Calm, NapKept
  <2>2. timers'[Wake] # "absent"
    BY <1>1, <2>1, TimersStay DEF PollsIn
  <2>3. ASSUME NEW q \in Pollers, poll'[q].t = Wake
        PROVE  poll'[q].pc = "idle"
    BY <1>3, <2>1, <2>3, PollNext DEF PollsIn, DueAt, PollExpire, PollFind, PollWrite, PollPublish
  <2> QED
    BY <2>2, <2>3 DEF PollsIn
<1>4. CASE past \subseteq past' \union {Deferred} /\ nap' = nap
  <2>1. nap # Deferred
    BY Constants DEF Base, Types, Places, Deferred
  <2> QED
    BY <1>3, <1>4, <2>1
<1>5. ASSUME NEW r \in Runs, ArmTimeout(r)
      PROVE  nap' = nap /\ nap \notin past
  <2>1. run[r].at # nap
    BY <1>5 DEF ArmTimeout, Base, AtStep, Kinds
  <2> QED
    BY <1>5, <2>1 DEF ArmTimeout
<1> QED
  BY <1>2, <1>3, <1>4, <1>5, WhoForgets

\* A wait whose time has not come was there before, or was inserted just now.
LEMMA SleeperNaps ==
  ASSUME Base, Order, Calm, [Next]_vars, NEW i \in Steps, step'[i] = "asleep", i \notin past'
  PROVE  nap' = i
<1>1. Deferred \notin Steps
  BY DEF Deferred, Steps
<1>2. ASSUME NEW r \in Runs, Sleep(r), i = run[r].at
      PROVE  nap' = i
  BY <1>2 DEF Sleep, Calm, NapKept, zset
<1>3. ASSUME step[i] = "asleep" PROVE nap' = i
  <2>1. CASE past \subseteq past' \union {Deferred} /\ nap' = nap
    BY <1>1, <1>3, <2>1 DEF Calm, NapKept
  <2>2. ASSUME NEW r \in Runs, ArmWait(r) \/ ArmTimeout(r)
        PROVE  FALSE
    <3>1. step[run[r].at] = "none" /\ \A j \in Steps : j < run[r].at => Passed(j)
      BY <2>2, NextRow DEF ArmWait, ArmTimeout
    <3>2. i # run[r].at
      BY <1>3, <3>1
    <3>3. i \in past' => i \in past
      BY <2>2 DEF ArmWait, ArmTimeout
    <3>4. i \notin past
      BY <2>2, <3>2 DEF ArmWait, ArmTimeout
    <3>5. ~Passed(i)
      BY <1>3, <3>4 DEF Passed
    <3>6. i < run[r].at
      <4>1. run[r].at = Recorded + 1 /\ Recorded \in Nat /\ i \in Nat /\ i =< Recorded
        BY <1>3, <2>2, Constants DEF ArmWait, ArmTimeout, Order, Placed, Prefix, Places, Steps
      <4> QED
        BY <4>1
    <3> QED
      BY <3>1, <3>5, <3>6
  <2> QED
    BY <2>1, <2>2, WhoForgets
<1>4. CASE Keeps
  <2>1. step[i] # "none"
    BY <1>4 DEF Keeps
  <2>2. Program[i] = "wait"
    BY Constants, BaseStep DEF Base, Kinds
  <2> QED
    BY <1>3, <2>1, <2>2 DEF Base, Kinds
<1>5. ASSUME NEW r \in Runs, Record(r) \/ Sleep(r) \/ Await(r)
      PROVE  nap' = i
  <2>1. CASE i # run[r].at
    BY <1>3, <1>5, <2>1, RowInserted
  <2>2. CASE i = run[r].at
    BY <1>2, <1>5, <2>2 DEF Record, Await, Base, Types
  <2> QED
    BY <2>1, <2>2
<1> QED
  BY <1>4, <1>5, KeepsStep

\* A run that goes to pc comes from the action that leads there.
LEMMA ComesFrom ==
  ASSUME Base, [Next]_vars, NEW r \in Runs, run'[r] # run[r]
  PROVE  /\ run'[r].pc = "sleep" => ArmWait(r)
         /\ run'[r].pc = "await" => ArmTimeout(r)
         /\ run'[r].pc = "waiter" => Await(r)
         /\ run'[r].pc = "failed" => StepFails(r)
<1>1. CASE Begin(r)
  BY <1>1, BeginMoves, Constants DEF Base, Moved, AtStep, Begin
<1>2. CASE Run(r) /\ ~Begin(r)
  BY <1>2, DeliverMoves, LockMoves, CheckMoves, ClaimMoves, ActMoves, RecordMoves,
     ArmWaitMoves, SleepMoves, ArmTimeoutMoves, AwaitMoves, InsertWaiterMoves,
     FinishMoves, ReleaseMoves DEF Base, Run, Moved
<1>3. CASE StepFails(r) \/ Crash(r)
  BY <1>3, StepFailsMoves, CrashMoves DEF Base, Moved
<1> QED
  BY <1>1, <1>2, <1>3, RunStays

LEMMA NapKeptStep ==
  ASSUME Base, Order, Calm, [Next]_vars, slips' = {}
  PROVE  NapKept'
<1>1. ASSUME NEW r \in Runs, run'[r].pc = "sleep"
      PROVE  /\ nap' = run'[r].at
             /\ status' \notin Finished =>
                  timers'[Wake] # "absent" /\ PollsIn(Wake, {"idle", "look"})'
  <2>1. Wake \in Members
    BY DEF Members
  <2>2. CASE ArmWait(r)
    BY <2>1, <2>2, Armed, ArmWaitMoves DEF ArmWait, Base, Moved, PollsIn
  <2>3. CASE run'[r] = run[r]
    <3>1. nap' = nap
      <4>1. \A q \in Runs : ArmWait(q) => q = r
        BY <1>1, <2>3 DEF ArmWait, Base, Alone
      <4>2. ~ArmWait(r)
        BY <1>1, <2>3 DEF ArmWait
      <4> QED
        BY <4>1, <4>2, WhoForgets DEF ArmTimeout
    <3>2. ASSUME status' \notin Finished
          PROVE  status = "running" /\ timers[Wake] # "absent" /\ PollsIn(Wake, {"idle", "look"})
      BY <1>1, <2>3, <3>2, FinishedStep DEF Calm, Owned, NapKept, Active
    <3> QED
      BY <1>1, <2>1, <2>3, <3>1, <3>2, QuietStays DEF Calm, NapKept
  <2> QED
    BY <1>1, <2>2, <2>3, ComesFrom
<1> QED
  BY <1>1, NapHasTimer, SleeperNaps DEF NapKept

\* The ways in which event step n, which has no output yet, is kept.
Written(n) ==
  /\ \E r \in Runs : run[r].pc = "waiter" /\ run[r].at = n
  /\ timers[n] # "absent" /\ PollsIn(n, {"idle", "look"})
GivenUp(n) == \E r \in Runs : run[r].pc = "failed" /\ run[r].at = n
Awaited(n) == n \in waiters /\ timers[n] # "absent" /\ PollsIn(n, {"idle", "look", "expire"})
TimedOut(n) == \E p \in Pollers : poll[p].t = n /\ poll[p].pc \in {"find", "write"}

\* A run that stays at step n while the instance is running.
LEMMA TimerOfRun ==
  ASSUME Base, Order, Calm, [Next]_vars, slips' = {}, status' \notin Finished,
         NEW r \in Runs, run[r].pc \in {"await", "waiter"}, NEW t \in Members,
         timers[t] # "absent", PollsIn(t, {"idle", "look"})
  PROVE  timers'[t] # "absent" /\ PollsIn(t, {"idle", "look"})'
<1>1. status = "running"
  BY FinishedStep DEF Calm, Owned, Active
<1> QED
  BY <1>1, QuietStays

LEMMA AwaitStep ==
  ASSUME Base, Order, Calm, [Next]_vars, slips' = {}, status' \notin Finished,
         NEW r \in Runs, run'[r].pc = "await", NEW t, run'[r].at = t
  PROVE  timers'[t] # "absent" /\ PollsIn(t, {"idle", "look"})'
<1>1. CASE ArmTimeout(r)
  <2>1. run[r].at = t
    BY <1>1, ArmTimeoutMoves DEF Base, Moved
  <2>2. t \in Members
    BY <1>1, <2>1 DEF ArmTimeout, Base, AtStep, Members, EventSteps
  <2>3. Arm(t) /\ poll' = poll
    BY <1>1, <2>1 DEF ArmTimeout
  <2>4. timers'[t] # "absent" /\ PollsIn(t, {"idle"})'
    BY <2>2, <2>3, Armed DEF Base
  <2> QED
    BY <2>4 DEF PollsIn
<1>2. CASE run'[r] = run[r]
  <2>1. run[r].at = t /\ run[r].pc = "await"
    BY <1>2
  <2>2. t \in Members
    BY <2>1 DEF Base, AtStep, Members, EventSteps
  <2>3. timers[t] # "absent" /\ PollsIn(t, {"idle", "look"})
    BY <2>1, FinishedStep DEF Calm, WaitKept
  <2> QED
    BY <2>1, <2>2, <2>3, TimerOfRun
<1> QED
  BY <1>1, <1>2, ComesFrom

\* The row has just been inserted.
LEMMA NewlyWritten ==
  ASSUME Base, Order, Calm, [Next]_vars, slips' = {}, status' \notin Finished,
         NEW r \in Runs, Await(r), NEW n, run[r].at = n
  PROVE  Written(n)'
<1>1. n \in Members /\ run'[r].at = n /\ run'[r].pc = "waiter"
  BY AwaitMoves DEF Await, Base, AtStep, Moved, Members, EventSteps
<1>2. run[r].pc = "await" /\ timers[n] # "absent" /\ PollsIn(n, {"idle", "look"})
  BY FinishedStep DEF Calm, WaitKept, Await
<1>3. timers'[n] # "absent" /\ PollsIn(n, {"idle", "look"})'
  BY <1>1, <1>2, TimerOfRun
<1> QED
  BY <1>1, <1>3 DEF Written, PollsIn

LEMMA WrittenStep ==
  ASSUME Base, Order, Calm, [Next]_vars, slips' = {}, status' \notin Finished,
         NEW n \in EventSteps, Written(n)
  PROVE  Written(n)' \/ GivenUp(n)' \/ Awaited(n)'
<1>1. PICK r \in Runs : run[r].pc = "waiter" /\ run[r].at = n
  BY DEF Written
<1>2. timers'[n] # "absent" /\ PollsIn(n, {"idle", "look"})'
  BY <1>1, TimerOfRun DEF Written, Members
<1>3. CASE run'[r] = run[r]
  BY <1>1, <1>2, <1>3 DEF Written, PollsIn
<1>4. CASE InsertWaiter(r)
  BY <1>1, <1>2, <1>4 DEF InsertWaiter, Awaited, PollsIn
<1>5. CASE StepFails(r)
  BY <1>1, <1>5, StepFailsMoves DEF Moved, Base, GivenUp
<1>6. ~Crash(r)
  BY <1>1 DEF Crash, NoWaiter
<1>7. Run(r) => InsertWaiter(r)
  BY <1>1 DEF Run, Deliver, Lock, Check, Claim, Begin, Act, Record, ArmWait, Sleep, ArmTimeout,
              Await, Finish, Release
<1> QED
  BY <1>3, <1>4, <1>5, <1>6, <1>7, RunStays

LEMMA GivenUpStep ==
  ASSUME Base, Order, Calm, [Next]_vars, slips' = {}, status' \notin Finished,
         NEW n \in EventSteps, GivenUp(n), step[n] = "null"
  PROVE  GivenUp(n)'
<1>1. PICK r \in Runs : run[r].pc = "failed" /\ run[r].at = n
  BY DEF GivenUp
<1>2. CASE run'[r] = run[r]
  BY <1>1, <1>2 DEF GivenUp
<1>3. status = "running"
  BY <1>1, FinishedStep DEF Calm, Owned, Active
<1>4. ~Crash(r)
  BY <1>1 DEF Crash, NoWaiter
<1>5. ~Finish(r)
  BY <1>1, <1>3 DEF Finish, NoWaiter, Finished
<1>6. ~Run(r) /\ ~StepFails(r)
  BY <1>1, <1>5 DEF Run, Deliver, Lock, Check, Claim, Begin, Act, Record, ArmWait, Sleep,
              ArmTimeout, Await, InsertWaiter, Release, StepFails
<1> QED
  BY <1>2, <1>4, <1>6, RunStays

\* A waiter is deleted by a cancel, by the timeout, and after its answer.
LEMMA WaiterStays ==
  ASSUME Base, Order, [Next]_vars, slips' = {}, status' \notin Finished,
         NEW n \in EventSteps, n \in waiters, step[n] = "null"
  PROVE  n \in waiters' \/ \E p \in Pollers : PollExpire(p) /\ poll[p].t = n
<1>1. ASSUME NEW r \in Runs, Run(r) \/ StepFails(r) \/ Crash(r)
      PROVE  waiters \subseteq waiters'
  BY <1>1 DEF Run, Deliver, Lock, Check, Claim, Begin, Act, Record, ArmWait, Sleep, ArmTimeout,
              Await, InsertWaiter, Finish, Release, StepFails, Crash, rows
<1>2. ASSUME NEW p \in Pollers, PollExpire(p), poll[p].t # n
      PROVE  FALSE
  <2>1. "otherWaiter" \in slips'
    BY <1>2 DEF PollExpire
  <2> QED
    BY <2>1
<1>3. ASSUME NEW p \in Pollers, Poll(p) \/ PollFails(p), ~PollExpire(p)
      PROVE  waiters' = waiters
  BY <1>3 DEF Poll, PollClaim, PollLook, PollFind, PollWrite, PollPublish,
              PollRemove, PollFails, rows
<1>4. ASSUME NEW e \in Events, EventDelete(e)
      PROVE  n \in waiters'
  BY <1>4 DEF EventDelete, Order, Targets
<1>5. ASSUME NEW e \in Events, EventSelect(e) \/ Event(e) \/ EventFails(e), ~EventDelete(e)
      PROVE  waiters' = waiters
  BY <1>5 DEF Event, EventSelect, EventFind, EventFill, EventFlush, EventFails, rows
<1>6. ASSUME Trigger \/ Cancel \/ Time \/ Reap \/ UNCHANGED vars PROVE n \in waiters'
  BY <1>6 DEF Trigger, Cancel, Time, LockExpires, Elapse, Reappear, Reap, vars, rows, Finished
<1> QED
  BY <1>1, <1>2, <1>3, <1>4, <1>5, <1>6 DEF Next

LEMMA AwaitedStep ==
  ASSUME Base, Order, Calm, [Next]_vars, slips' = {}, status' \notin Finished,
         NEW n \in EventSteps, Awaited(n), step[n] = "null"
  PROVE  Awaited(n)' \/ TimedOut(n)'
<1>1. n \in waiters /\ timers[n] # "absent" /\ PollsIn(n, {"idle", "look", "expire"})
  BY DEF Awaited
<1>2. status \notin Finished
  BY FinishedStep
<1>3. ASSUME NEW p \in Pollers, PollExpire(p), poll[p].t = n
      PROVE  TimedOut(n)'
  BY <1>1, <1>3, PollExpireMoves DEF PollMoved, Base, TimedOut
<1>4. ASSUME \A p \in Pollers : PollExpire(p) => poll[p].t # n
      PROVE  Awaited(n)'
  <2>1. n \in waiters'
    BY <1>1, <1>4, WaiterStays
  <2>2. timers'[n] # "absent"
    BY <1>1, TimersStay DEF PollsIn, Members
  <2>3. ASSUME NEW q \in Pollers, poll'[q].t = n
        PROVE  poll'[q].pc \in {"idle", "look", "expire"}
    <3>1. poll[q].t = n => poll[q].pc \in {"idle", "look", "expire"}
      BY <1>1 DEF PollsIn
    <3> QED
      BY <1>2, <1>4, <2>3, <3>1, PollNext DEF PollFind, PollWrite, PollPublish
  <2> QED
    BY <2>1, <2>2, <2>3 DEF Awaited, PollsIn
<1> QED
  BY <1>3, <1>4

LEMMA TimedOutStep ==
  ASSUME Base, Order, [Next]_vars, slips' = {}, NEW n \in EventSteps, TimedOut(n),
         step[n] = "null", step'[n] = "null"
  PROVE  TimedOut(n)'
<1>1. PICK p \in Pollers : poll[p].t = n /\ poll[p].pc \in {"find", "write"}
  BY DEF TimedOut
<1>2. CASE poll'[p] = poll[p]
  BY <1>1, <1>2 DEF TimedOut
<1>3. CASE PollFind(p)
  BY <1>1, <1>3, PollFindMoves DEF PollMoved, Base, TimedOut
<1>4. ~PollWrite(p)
  BY <1>1 DEF PollWrite, Base, Types, EventSteps
<1>5. ~PollFails(p)
  BY <1>1 DEF PollFails
<1>6. Poll(p) => PollFind(p) \/ PollWrite(p)
  BY <1>1 DEF Poll, PollClaim, PollLook, PollExpire, PollPublish, PollRemove
<1> QED
  BY <1>2, <1>3, <1>4, <1>5, <1>6, PollStays

LEMMA WaitKeptStep ==
  ASSUME Base, Order, Calm, [Next]_vars, slips' = {}
  PROVE  WaitKept'
<1>1. ASSUME NEW n \in EventSteps, step'[n] = "null", status' \notin Finished
      PROVE  Written(n)' \/ GivenUp(n)' \/ Awaited(n)' \/ TimedOut(n)'
  <2>1. CASE step[n] = "null"
    <3>1. Written(n) \/ GivenUp(n) \/ Awaited(n) \/ TimedOut(n)
      BY <1>1, <2>1, FinishedStep DEF Calm, WaitKept, Written, GivenUp, Awaited, TimedOut
    <3> QED
      BY <1>1, <2>1, <3>1, WrittenStep, GivenUpStep, AwaitedStep, TimedOutStep
  <2>2. CASE step[n] # "null"
    <3>1. n \in Steps
      BY DEF EventSteps
    <3>2. ~Keeps
      <4>1. ASSUME Keeps PROVE FALSE
        <5>1. step[n] # "none"
          BY <1>1, <3>1, <4>1 DEF Keeps
        <5>2. step[n] \in {"data", "timedOut"}
          BY <2>2, <5>1 DEF Base, Kinds, EventSteps
        <5> QED
          BY <1>1, <3>1, <5>2, AnswersStay
      <4> QED
        BY <4>1
    <3>3. PICK r \in Runs : Record(r) \/ Sleep(r) \/ Await(r)
      BY <3>2, KeepsStep
    <3>4. n = run[r].at
      BY <1>1, <2>2, <3>1, <3>3, RowInserted
    <3>5. Await(r)
      BY <1>1, <3>1, <3>3, <3>4 DEF Record, Sleep, Base, Types
    <3> QED
      BY <1>1, <3>4, <3>5, NewlyWritten
  <2> QED
    BY <2>1, <2>2
<1>2. ASSUME NEW r \in Runs, run'[r].pc = "await", status' \notin Finished
      PROVE  /\ timers'[run'[r].at] # "absent"
             /\ \A q \in Pollers : poll'[q].t = run'[r].at => poll'[q].pc \in {"idle", "look"}
  <2> DEFINE t == run'[r].at
  <2>1. timers'[t] # "absent" /\ \A q \in Pollers : poll'[q].t = t => poll'[q].pc \in {"idle", "look"}
    <3> HIDE DEF t
    <3>1. run'[r].at = t
      BY DEF t
    <3> QED
      BY <1>2, <3>1, AwaitStep DEF PollsIn
  <2> QED
    BY <2>1
<1> QED
  BY <1>1, <1>2 DEF WaitKept, Written, GivenUp, Awaited, TimedOut, PollsIn

-----------------------------------------------------------------------------
(* Wakes is inductive: something drives the instance.                      *)

\* A deferred resume is live.
LEMMA DeferredIsLive ==
  ASSUME Types, DeferResume, slips' = {}, poll' = poll
  PROVE  Live(Deferred)'
<1>1. Deferred \in Members
  BY DEF Members
<1>2. timers'[Deferred] # "absent" /\ PollsIn(Deferred, {"idle"})'
  BY <1>1, Armed DEF DeferResume
<1> QED
  BY <1>2 DEF Live, PollsIn, PollPcs

\* A live wake-up stays so until its resume is on the stream.
LEMMA LiveStays ==
  ASSUME Base, Order, [Next]_vars, slips' = {}, status \notin Finished,
         NEW t \in Members \ EventSteps, Live(t)
  PROVE  Live(t)' \/ inbox' > 0
<1>1. timers'[t] # "absent"
  BY TimersStay DEF Live, PollsIn
<1>2. ASSUME NEW q \in Pollers, PollPublish(q)
      PROVE  inbox' > 0
  BY <1>2 DEF PollPublish, Base, Types
<1>3. ASSUME NEW q \in Pollers, poll'[q].t = t, ~PollPublish(q)
      PROVE  poll'[q].pc \notin {"remove", "stale"}
  <2>1. poll[q].t = t => poll[q].pc \notin {"remove", "stale", "expire", "find", "write"}
    BY DEF Live, PollsIn, Order, Targets
  <2> QED
    BY <1>3, <2>1, PollNext DEF PollExpire, PollFind, PollWrite
<1>4. \A q \in Pollers : poll'[q].pc \in PollPcs
  BY BaseStep DEF Base, Types, PollRows
<1> QED
  BY <1>1, <1>2, <1>3, <1>4 DEF Live, PollsIn

LEMMA InboxStays ==
  ASSUME Base, [Next]_vars, inbox > 0
  PROVE  inbox' > 0 \/ \E r \in Runs : Deliver(r)
<1>1. ASSUME NEW r \in Runs, Run(r) \/ StepFails(r) \/ Crash(r), ~Deliver(r)
      PROVE  inbox' = inbox \/ inbox' = inbox + 1
  BY <1>1 DEF Run, Lock, Check, Claim, Begin, Act, Record, ArmWait, Sleep, ArmTimeout,
              Await, InsertWaiter, Finish, Release, StepFails, Crash
<1>2. ASSUME NEW p \in Pollers, Poll(p) \/ PollFails(p)
      PROVE  inbox' = inbox \/ inbox' = inbox + 1
  BY <1>2 DEF Poll, PollClaim, PollLook, PollExpire, PollFind, PollWrite, PollPublish,
              PollRemove, PollFails
<1>3. ASSUME NEW e \in Events, EventFlush(e) PROVE inbox' = inbox + event[e].buffered
  BY <1>3 DEF EventFlush
<1>4. ASSUME NEW e \in Events, EventSelect(e) \/ Event(e) \/ EventFails(e), ~EventFlush(e)
      PROVE  inbox' = inbox
  BY <1>4 DEF Event, EventSelect, EventFind, EventFill, EventDelete, EventFails
<1>5. ASSUME Trigger \/ Cancel \/ Time \/ Reap \/ UNCHANGED vars
      PROVE  inbox' = inbox \/ inbox' = inbox + 1
  BY <1>5 DEF Trigger, Cancel, Time, LockExpires, Elapse, Reappear, Reap, vars
<1>6. inbox \in Nat /\ \A e \in Events : event[e].buffered \in Nat
  BY Fields DEF Base, Types
<1>7. \/ inbox' = inbox \/ inbox' = inbox + 1
      \/ \E e \in Events : inbox' = inbox + event[e].buffered
      \/ \E r \in Runs : Deliver(r)
  BY <1>1, <1>2, <1>3, <1>4, <1>5 DEF Next
<1> QED
  BY <1>6, <1>7

LEMMA Buffered ==
  ASSUME NEW e, NEW pc, NEW todo, NEW w, NEW t, NEW b, EventMoved(e, EventRow(pc, todo, w, t, b))
  PROVE  event'[e].buffered = b
BY DEF EventMoved, EventRow

\* A run that carries a resume hands it on, or suspends at a step that is waited
\* for.
Carries(r) == run[r].pc \notin {"idle", "release", "pending", "waiter"}

LEMMA CarrierStep ==
  ASSUME Base, Order, Calm, [Next]_vars, slips' = {},
         status \notin Finished, status' \notin Finished,
         NEW r \in Runs, Carries(r)
  PROVE  Carries(r)' \/ Live(Deferred)' \/ inbox' > 0 \/ Waiting'
<1>1. inbox \in Nat
  BY DEF Base, Types
<1>2. CASE run'[r] = run[r]
  BY <1>2 DEF Carries
<1>3. CASE Lock(r)
  BY <1>3, LockMoves, DeferredIsLive DEF Base, Moved, Carries, Lock
<1>4. CASE Check(r)
  <2>1. CASE status = "running"
    BY <1>4, <2>1, DeferredIsLive DEF Check, Base, Finished
  <2>2. CASE status # "running"
    BY <1>4, <2>2, CheckMoves DEF Check, Base, Moved, Carries
  <2> QED
    BY <2>1, <2>2
<1>5. CASE Claim(r)
  <2>1. status = "pending"
    BY <1>5 DEF Claim, Calm, Owned
  <2>2. CASE Recorded # 0 /\ ~Passed(Recorded) /\ Moved(r, "pending", Recorded)
    <3>1. step' = step /\ past' = past
      BY <1>5 DEF Claim, zset
    <3>2. Recorded' = Recorded
      BY <3>1, RecordedSame
    <3>3. Recorded > 0
      BY <2>2, RecordedIsPlace, Constants DEF Places
    <3>4. Recorded' > 0 /\ ~Passed(Recorded)'
      BY <2>2, <3>1, <3>2, <3>3 DEF Passed
    <3> QED
      BY <3>4 DEF Waiting
  <2> QED
    BY <1>5, <2>1, <2>2, ClaimMoves DEF Base, Moved, Carries
<1>6. CASE Begin(r)
  <2>1. status # "canceled"
    BY DEF Finished
  <2>2. Moved(r, Program[run[r].at], run[r].at)
    BY <1>6, <2>1, BeginMoves DEF Base
  <2>3. Program[run[r].at] \in {"act", "wait", "event"}
    BY <1>6, Constants DEF Begin, Base, AtStep
  <2> QED
    BY <2>2, <2>3 DEF Moved, Carries
<1>7. CASE Act(r) \/ ArmWait(r) \/ ArmTimeout(r) \/ StepFails(r)
  BY <1>7, ActMoves, ArmWaitMoves, ArmTimeoutMoves, StepFailsMoves DEF Base, Moved, Carries
<1>8. CASE Record(r)
  BY <1>8, RecordMoves DEF Base, Moved, Carries
<1>9. CASE Sleep(r) \/ Await(r)
  <2> DEFINE n == run[r].at
  <2>1. n \in Steps /\ Recorded' = n /\ past' = past
    BY <1>9, RowInserted
  <2>2. CASE Await(r)
    <3>1. step'[n] = "null"
      BY <2>1, <2>2 DEF Await, Base, Types
    <3> HIDE DEF n
    <3>2. ~Passed(Recorded)'
      BY <2>1, <3>1 DEF Passed
    <3> QED
      BY <2>1, <3>2 DEF Waiting, Steps
  <2>3. CASE Sleep(r)
    <3>1. step'[n] = "asleep" /\ nap' = nap /\ timers' = timers /\ poll' = poll
      BY <2>1, <2>3 DEF Sleep, Base, Types, zset
    <3>2. nap = n /\ timers[Wake] # "absent" /\ PollsIn(Wake, {"idle", "look"})
      BY <2>3 DEF Sleep, Calm, NapKept
    <3> HIDE DEF n
    <3>3. Live(Wake)'
      BY <3>1, <3>2 DEF Live, PollsIn, PollPcs
    <3> QED
      BY <2>1, <3>1, <3>2, <3>3 DEF Waiting, Steps
  <2> QED
    BY <1>9, <2>2, <2>3
<1>10. CASE Finish(r)
  <2>1. status = "running" /\ run[r].pc \in {"completed", "failed"}
    BY <1>10 DEF Finish, Calm, Owned, Active, Carries
  <2> QED
    BY <1>10, <2>1, FinishMoves DEF Base, Moved, Carries, Finished
<1>11. CASE Release(r) \/ Crash(r)
  BY <1>1, <1>11 DEF Release, Crash, Carries
<1>12. ~Deliver(r) /\ ~InsertWaiter(r)
  BY DEF Deliver, InsertWaiter, Carries
<1> QED
  BY <1>2, <1>3, <1>4, <1>5, <1>6, <1>7, <1>8, <1>9, <1>10, <1>11, <1>12, RunStays DEF Run

Timing(p) == poll[p].t \in EventSteps /\ poll[p].pc \in {"find", "write", "publish"}

LEMMA OnItsWayStep ==
  ASSUME Base, Order, Calm, [Next]_vars, slips' = {},
         status \notin Finished, status' \notin Finished, OnItsWay
  PROVE  OnItsWay' \/ Waiting'
<1>1. CASE inbox > 0
  <2>1. ASSUME NEW r \in Runs, Deliver(r) PROVE run'[r].pc = "lock"
    BY <2>1, DeliverMoves DEF Base, Moved
  <2> QED
    BY <1>1, <2>1, InboxStays DEF OnItsWay
<1>2. ASSUME NEW r \in Runs, Carries(r) PROVE OnItsWay' \/ Waiting'
  BY <1>2, CarrierStep DEF OnItsWay, Carries
<1>3. CASE Live(Deferred)
  <2>1. Deferred \in Members \ EventSteps
    BY DEF Members, Deferred, EventSteps, Steps
  <2> QED
    BY <1>3, <2>1, LiveStays DEF OnItsWay
<1>4. ASSUME NEW p \in Pollers, Timing(p) PROVE OnItsWay'
  <2>1. ASSUME PollPublish(p) PROVE inbox' > 0
    BY <2>1 DEF PollPublish, Base, Types
  <2>2. CASE ~PollPublish(p)
    <3>1. Timing(p)'
      BY <1>4, <2>2, PollNext DEF Timing, PollExpire
    <3> QED
      BY <3>1 DEF OnItsWay, Timing
  <2> QED
    BY <2>1, <2>2 DEF OnItsWay
<1>5. ASSUME NEW e \in Events, event[e].buffered > 0 PROVE OnItsWay'
  <2>1. event[e].buffered \in Nat
    BY Fields DEF Base
  <2>2. CASE event'[e] = event[e]
    BY <1>5, <2>2 DEF OnItsWay
  <2>3. ~EventSelect(e)
    BY <1>5 DEF EventSelect, Order, Targets
  <2>4. ~EventFails(e)
    BY <1>5 DEF EventFails
  <2>5. ASSUME EventFlush(e) PROVE inbox' > 0
    BY <2>5, <2>1 DEF EventFlush, Base, Types
  <2>6. ASSUME EventFind(e) \/ EventFill(e) \/ EventDelete(e)
        PROVE  event'[e].buffered > 0
    <3>1. event'[e].buffered \in {event[e].buffered, event[e].buffered + 1}
      BY <2>6, EventFindMoves, EventFillMoves, EventDeleteMoves, Buffered DEF Base
    <3> QED
      BY <1>5, <2>1, <3>1
  <2> QED
    BY <2>2, <2>3, <2>4, <2>5, <2>6, EventStays DEF OnItsWay, Event
<1> QED
  BY <1>1, <1>2, <1>3, <1>4, <1>5 DEF OnItsWay, Carries, Timing

\* The step waited for is answered, or its time passes.
LEMMA AnsweredBy ==
  ASSUME Base, Order, [Next]_vars, NEW n \in Steps, step'[n] # step[n], Keeps
  PROVE  \/ \E p \in Pollers : PollWrite(p)
         \/ \E e \in Events : EventFill(e)
<1>1. ASSUME NEW r \in Runs, Run(r) \/ StepFails(r) \/ Crash(r)
      PROVE  FALSE
  <2>1. CASE Record(r) \/ Sleep(r) \/ Await(r)
    BY <2>1, RowInserted DEF Keeps
  <2>2. CASE step' = step
    BY <2>2
  <2> QED
    BY <1>1, <2>1, <2>2 DEF Run, Deliver, Lock, Check, Claim, Begin, Act, ArmWait, ArmTimeout,
              InsertWaiter, Finish, Release, StepFails, Crash, rows
<1>2. ASSUME NEW p \in Pollers, Poll(p) \/ PollFails(p) PROVE PollWrite(p)
  BY <1>2 DEF Poll, PollClaim, PollLook, PollExpire, PollFind, PollPublish,
              PollRemove, PollFails, rows
<1>3. ASSUME NEW e \in Events, EventSelect(e) \/ Event(e) \/ EventFails(e)
      PROVE  EventFill(e)
  BY <1>3 DEF Event, EventSelect, EventFind, EventDelete, EventFlush, EventFails, rows
<1>4. ASSUME Trigger \/ Cancel \/ Time \/ Reap \/ UNCHANGED vars PROVE step' = step
  BY <1>4 DEF Trigger, Cancel, Time, LockExpires, Elapse, Reappear, Reap, vars, rows
<1> QED
  BY <1>1, <1>2, <1>3, <1>4 DEF Next

LEMMA WaitingStep ==
  ASSUME Base, Order, Calm, [Next]_vars, slips' = {},
         status \notin Finished, status' \notin Finished, Waiting
  PROVE  OnItsWay' \/ Waiting'
<1> DEFINE n == Recorded
<1>0. n \in Steps /\ Wake \in Members \ EventSteps
  BY RecordedIsPlace, Constants DEF Waiting, Places, Steps, Members, Wake, EventSteps
<1>1. ASSUME NEW r \in Runs, Record(r) \/ Sleep(r) \/ Await(r)
      PROVE  OnItsWay' \/ Waiting'
  <2>1. Carries(r)
    BY <1>1 DEF Record, Sleep, Await, Carries
  <2> QED
    BY <2>1, CarrierStep DEF OnItsWay, Carries
<1>2. CASE Keeps /\ step'[n] # step[n]
  <2>1. ASSUME NEW p \in Pollers, PollWrite(p) PROVE OnItsWay'
    <3>1. poll'[p].pc = "publish" /\ poll'[p].t \in EventSteps
      BY <2>1, PollWriteMoves DEF Base, PollMoved, Order, Targets, PollWrite
    <3> QED
      BY <3>1 DEF OnItsWay
  <2>2. ASSUME NEW e \in Events, EventFill(e) PROVE OnItsWay'
    <3>1. event'[e].buffered > 0
      <4>1. event'[e].buffered = event[e].buffered + 1 /\ event[e].buffered \in Nat
        BY <2>2, EventFillMoves, Buffered, Fields DEF Base
      <4> QED
        BY <4>1
    <3> QED
      BY <3>1 DEF OnItsWay
  <2> QED
    BY <1>0, <1>2, <2>1, <2>2, AnsweredBy
<1>3. CASE Keeps /\ step'[n] = step[n]
  <2>1. Recorded' = n /\ n > 0
    BY <1>0, <1>3, RecordedSame DEF Keeps, Waiting
  <2>2. ASSUME step[n] = "asleep", nap = n, Live(Wake)
        PROVE  OnItsWay' \/ Waiting'
    <3>1. CASE nap' = nap
      <4>1. Live(Wake)' \/ inbox' > 0
        BY <1>0, <2>2, LiveStays
      <4>2. step'[n] = "asleep" /\ nap' = n
        BY <1>3, <2>2, <3>1
      <4> HIDE DEF n
      <4>3. Live(Wake)' => Waiting'
        BY <2>1, <4>2 DEF Waiting
      <4> QED
        BY <4>1, <4>3 DEF OnItsWay
    <3>2. ASSUME NEW r \in Runs, ArmWait(r) PROVE OnItsWay'
      BY <3>2, ArmWaitMoves DEF Base, Moved, OnItsWay
    <3>3. ASSUME NEW r \in Runs, ArmTimeout(r) PROVE nap' = nap
      BY <3>3 DEF ArmTimeout
    <3> QED
      BY <3>1, <3>2, <3>3, WhoForgets
  <2>3. ASSUME ~Passed(n), step[n] = "asleep" PROVE OnItsWay' \/ Waiting'
    <3>1. n \notin past /\ nap = n /\ nap # 0
      BY <1>0, <2>3 DEF Passed, Calm, NapKept, Steps
    <3>2. timers[Wake] # "absent" /\ PollsIn(Wake, {"idle"})
      BY <3>1 DEF Calm, NapKept
    <3>3. Live(Wake)
      BY <3>2 DEF Live, PollsIn, PollPcs
    <3> QED
      BY <2>2, <2>3, <3>1, <3>3
  <2>4. ASSUME ~Passed(n), step[n] # "asleep" PROVE Waiting'
    <3>1. step'[n] # "asleep" /\ step'[n] \notin {"done", "data", "timedOut"}
      BY <1>3, <2>4 DEF Passed
    <3> HIDE DEF n
    <3>2. ~Passed(Recorded)'
      BY <2>1, <3>1 DEF Passed
    <3> QED
      BY <2>1, <3>2 DEF Waiting
  <2> QED
    BY <2>2, <2>3, <2>4 DEF Waiting
<1> QED
  BY <1>1, <1>2, <1>3, KeepsStep

LEMMA DrivenStep ==
  ASSUME Base, Order, Calm, [Next]_vars, slips' = {}
  PROVE  Driven'
<1>1. SUFFICES ASSUME status' \in {"none", "pending", "running"}
               PROVE  OnItsWay' \/ Waiting'
  BY DEF Driven
<1>2. status' \notin Finished
  BY <1>1 DEF Finished
<1>3. status \notin Finished
  BY <1>2, FinishedStep
<1>4. CASE status = "new"
  <2>1. ASSUME NEW r \in Runs, Run(r) \/ StepFails(r) \/ Crash(r) PROVE status' = status
    BY <1>4, <2>1 DEF Run, Deliver, Lock, Check, Claim, Begin, Act, Record, ArmWait, Sleep,
              ArmTimeout, Await, InsertWaiter, Finish, Release, StepFails, Crash, rows, Finished,
              Base, Untouched
  <2>2. ASSUME NEW p \in Pollers, Poll(p) \/ PollFails(p) PROVE status' = status
    BY <2>2 DEF Poll, PollClaim, PollLook, PollExpire, PollFind, PollWrite, PollPublish,
              PollRemove, PollFails, rows
  <2>3. ASSUME NEW e \in Events, EventSelect(e) \/ Event(e) \/ EventFails(e)
        PROVE  status' = status
    BY <2>3 DEF Event, EventSelect, EventFind, EventFill, EventDelete, EventFlush, EventFails, rows
  <2>4. ASSUME Cancel \/ Time \/ Reap \/ UNCHANGED vars PROVE status' = status
    BY <1>4, <2>4 DEF Cancel, Time, LockExpires, Elapse, Reappear, Reap, vars, rows, Base, Untouched
  <2>5. CASE Trigger
    BY <2>5 DEF Trigger, OnItsWay, Base, Types
  <2> QED
    BY <1>1, <1>4, <2>1, <2>2, <2>3, <2>4, <2>5 DEF Next
<1>5. CASE status # "new"
  <2>1. status \in {"none", "pending", "running"}
    BY <1>3, <1>5 DEF Base, Types, Statuses, Finished
  <2>2. OnItsWay \/ Waiting
    BY <2>1 DEF Calm, Driven
  <2> QED
    BY <1>2, <1>3, <2>2, OnItsWayStep, WaitingStep
<1> QED
  BY <1>4, <1>5

LEMMA WakesHold == Spec => [](Base /\ Order /\ Wakes)
<1>1. Init => Wakes
  BY Constants DEF Init, Wakes, Owned, NapKept, WaitKept, Driven, Finished, Active, EventSteps
<1>2. Base /\ Order /\ Wakes /\ [Next]_vars => Base' /\ Order' /\ Wakes'
  <2> SUFFICES ASSUME Base, Order, Wakes, [Next]_vars PROVE Base' /\ Order' /\ Wakes'
    OBVIOUS
  <2>1. ASSUME slips' = {} PROVE Calm /\ Owned' /\ NapKept' /\ WaitKept' /\ Driven'
    <3>1. Calm
      BY <2>1, SlipsGrow DEF Wakes, Calm
    <3> QED
      BY <2>1, <3>1, OwnedStep, NapKeptStep, WaitKeptStep, DrivenStep DEF Calm
  <2> QED
    BY <2>1, BaseStep, OrderStep DEF Wakes
<1> QED
  BY BaseInit, OrderInit, <1>1, <1>2, PTL DEF Spec

\* An instance that has not finished is never left without anything that will
\* resume it, unless one of the named races and crashes has happened.
THEOREM NobodyStranded == Spec => []NotStranded
<1>1. Base /\ Order /\ Wakes => NotStranded
  <2> SUFFICES ASSUME Base, Order, Wakes, status \in {"none", "pending", "running"}, slips = {}
               PROVE  Owed
    BY DEF NotStranded
  <2>1. Deferred \in Members /\ Wake \in Members
    BY DEF Members
  <2>2. CASE OnItsWay
    BY <2>1, <2>2 DEF OnItsWay, Live, Owed
  <2>3. CASE Waiting
    <3> DEFINE n == Recorded
    <3>1. n \in Steps /\ n # 0
      BY <2>3, RecordedIsPlace, Constants DEF Waiting, Places, Steps
    <3>2. CASE step[n] = "asleep"
      <4>1. n \notin past => nap = n
        BY <3>1, <3>2 DEF Wakes, NapKept
      <4>2. n \notin past => timers[Wake] # "absent"
        BY <3>1, <4>1 DEF Wakes, NapKept
      <4> QED
        BY <2>1, <2>3, <3>2, <4>2 DEF Waiting, Passed, Live, Owed
    <3>3. CASE step[n] # "asleep"
      <4>1. step[n] = "null" /\ n \in EventSteps
        <5>1. ~Passed(n) /\ step[n] # "none"
          BY <2>3, <3>1, <3>3 DEF Waiting, Order, Prefix, Places, Steps
        <5> QED
          BY <3>1, <3>3, <5>1, Constants DEF Passed, Base, Kinds, EventSteps
      <4>2. status \notin Finished
        BY DEF Finished
      <4>3. n \in Members
        BY <4>1 DEF Members
      <4> HIDE DEF n
      <4> QED
        BY <4>1, <4>2, <4>3 DEF Wakes, WaitKept, Owed
    <3> QED
      BY <3>2, <3>3
  <2> QED
    BY <2>2, <2>3 DEF Wakes, Driven
<1> QED
  BY <1>1, WakesHold, PTL
=============================================================================
