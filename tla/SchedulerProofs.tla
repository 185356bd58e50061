--------------------------- MODULE SchedulerProofs ---------------------------
(***************************************************************************)
(* Proofs about Scheduler, for any tasks, processes, parks and faults: no  *)
(* parked send is forgotten, sent twice, sent early or sent after it was   *)
(* stopped, but for the races named in slips.                              *)
(***************************************************************************)
EXTENDS Scheduler, TLAPS

(***************************************************************************)
(* The inductive invariant, in parts about one task u, one process q and   *)
(* one member g of the sorted set.                                         *)
(***************************************************************************)

\* TypeOK by the variables that change together.
TableTypes ==
    /\ row \in [Tasks -> Members]
    /\ due \in [Tasks -> [Parks -> 0..MaxWait]]
    /\ parks \in [Tasks -> 0..MaxParks]

ZsetTypes == zset \in [Tasks -> [Members -> -1..(MaxWait + Visibility)]]
ScheduledTypes == scheduled \subseteq Tasks \X Parks
OutboundTypes == outbound \in [Tasks -> 0..MaxCopies]

LockTypes ==
    /\ sentinel \in BOOLEAN
    /\ lock \in Procs \union {"none", "dead"}
    /\ lockTtl \in 0..LockTtl

PollTypes ==
    /\ pc \in [Procs -> PollSteps]
    /\ work \in [Procs -> [batch : SUBSET (Tasks \X Members),
                           got : [Tasks -> Members], send : SUBSET Tasks]]

SendTypes ==
    /\ engine \in [Tasks -> {"new", "inserted", "done", "again", "last", "over"}]
    /\ attempt \in [Tasks -> {"none", "sending", "mark", "retry", "retryAnnounce",
                              "retryDone", "defer", "deferAnnounce", "deferDone"}]
    /\ lease \in [Tasks -> {"none", "L", "1"}]
    /\ optedOut \in [Tasks -> BOOLEAN]

HistoryTypes ==
    /\ faults \in 0..MaxFaults
    /\ sent \in [Tasks -> Nat]
    /\ ended \subseteq Tasks \X {"canceled", "blocked", "failed"}
    /\ slips \subseteq Tasks \X {"again", "skipped", "unqueued", "removed", "unmarked",
                               "late", "passed", "wiped", "sealed"}

Types ==
    /\ TableTypes /\ ZsetTypes /\ ScheduledTypes /\ OutboundTypes /\ LockTypes
    /\ PollTypes /\ SendTypes /\ HistoryTypes

\* What a poll has read, by where it is: it sends only what it has loaded, and
\* has loaded only what it claimed.
WorkFits(q) ==
    /\ pc[q] \notin {"load", "gate", "publish", "delete", "cleanup"} => work[q].batch = {}
    /\ pc[q] \notin {"queue", "gate", "publish", "delete", "cleanup"} =>
          \A u \in Tasks : work[q].got[u] = 0
    /\ pc[q] # "publish" => work[q].send = {}
    /\ \A u \in work[q].send : work[q].got[u] # 0
    /\ pc[q] # "queue" =>
          \A u \in Tasks : work[q].got[u] # 0 => \E g \in Members : <<u, g>> \in work[q].batch

\* Nothing is read, announced, queued or sent of a park that has not been made,
\* and the row holds the latest park.
Started(u) == engine[u] = "new" <=> parks[u] = 0
InPlay(u) == outbound[u] > 0 \/ attempt[u] # "none" => parks[u] > 0
RowIsLatest(u) == row[u] \in {0, parks[u]}
QueuedIsParked(u, g) == zset[u][g] # -1 => parks[u] > 0 /\ g <= parks[u]
AnnouncedIsParked(u, g) == <<u, g>> \in scheduled => g <= parks[u]
ClaimedIsParked(u, q, g) == <<u, g>> \in work[q].batch => parks[u] > 0 /\ g <= parks[u]
ReadIsParked(u, q) == work[q].got[u] <= parks[u]

\* Before the time of its first park a task is not claimed, released or parked
\* again, and every member of it has that time for a score.
Early(u) == due[u][1] > 0
EarlyIsFirst(u) == Early(u) => parks[u] = 1
EarlyIsUnsent(u) == Early(u) => outbound[u] = 0 /\ attempt[u] = "none"
EarlyIsHidden(u, g) == Early(u) => zset[u][g] = -1 \/ zset[u][g] >= due[u][1]
EarlyIsUnclaimed(u, q, g) == Early(u) => <<u, g>> \notin work[q].batch

Base ==
    /\ Types
    /\ \A q \in Procs : WorkFits(q)
    /\ \A u \in Tasks :
          /\ Started(u) /\ InPlay(u) /\ RowIsLatest(u) /\ EarlyIsFirst(u) /\ EarlyIsUnsent(u)
          /\ \A g \in Members : QueuedIsParked(u, g) /\ EarlyIsHidden(u, g)
          /\ \A g \in Parks : AnnouncedIsParked(u, g)
          /\ \A q \in Procs : ReadIsParked(u, q)
          /\ \A q \in Procs, g \in Members : ClaimedIsParked(u, q, g) /\ EarlyIsUnclaimed(u, q, g)

\* The lease is held while a send is under way; once it was accepted, the mark
\* says so or is about to.
SentIsKnown(u) == attempt[u] = "mark" \/ lease[u] = "1" => sent[u] > 0
LeaseHeld(u) ==
    Slipped(u, {"unmarked", "wiped"})
    \/ /\ Holding(u) => lease[u] = "L"
       /\ sent[u] > 0 => sent[u] = 1 /\ (attempt[u] = "mark" \/ lease[u] = "1")

\* A stopped send is nowhere any more, unless it was on its way.
AgainIsKnown(u) == engine[u] = "again" => Slipped(u, {"again"})
CanceledIsGone(u) ==
    <<u, "canceled">> \in ended =>
        \/ Slipped(u, {"late", "again"})
        \/ /\ parks[u] > 0 /\ row[u] = 0 /\ outbound[u] = 0 /\ attempt[u] = "none"
           /\ \A q \in Procs : pc[q] \in {"gate", "publish"} => work[q].got[u] = 0
OptedOutIsHeld(u) ==
    optedOut[u] =>
        \/ Slipped(u, {"passed", "again"})
        \/ /\ outbound[u] = 0 /\ attempt[u] = "none"
           /\ \A q \in Procs : u \notin work[q].send

\* While delivery is parking a task again it still has an entry to acknowledge:
\* only a second one would outlast it.
Reparked(u) == attempt[u] \in {"retryAnnounce", "retryDone", "deferAnnounce", "deferDone"}
CopyLeft(u) == outbound[u] >= (IF Reparked(u) THEN 2 ELSE 1)

\* A send that is owed has its row or a copy on OUTBOUND; a poll past the gate
\* deletes a row, or the members of it, only when there is a copy.
EntryIsThere(u) == Lost(u) \/ (attempt[u] # "none" => outbound[u] > 0)
RowOrCopy(u) == Lost(u) \/ (Owed(u) => row[u] = parks[u] \/ CopyLeft(u))
PublishedIsThere(u, q) ==
    \/ Lost(u)
    \/ /\ Owed(u) /\ pc[q] \in {"publish", "delete", "cleanup"}
       /\ work[q].got[u] = parks[u] /\ u \notin work[q].send
       => CopyLeft(u)
ClaimedIsRead(u, q) ==
    \/ Lost(u)
    \/ /\ pc[q] \in {"gate", "publish", "delete", "cleanup"}
       /\ <<u, parks[u]>> \in work[q].batch
       => work[q].got[u] = parks[u] \/ (work[q].got[u] = 0 /\ row[u] = 0)

\* A row that is owed will be looked at: it has a member, is announced or about
\* to be, or Redis has no sentinel and every rebuild under way has read it.
Coming(u) ==
    \/ zset[u][0] # -1 \/ zset[u][parks[u]] # -1 \/ <<u, parks[u]>> \in scheduled
    \/ CopyLeft(u)
    \/ parks[u] = 1 /\ engine[u] \in {"inserted", "again"}
    \/ attempt[u] \in {"retryAnnounce", "deferAnnounce"}
Waiting(u) == ~Lost(u) /\ Owed(u) /\ row[u] = parks[u]
SealedIsComing(u) == Waiting(u) /\ sentinel => Coming(u)
RebuiltIsComing(u, q) ==
    Waiting(u) =>
        /\ pc[q] = "seal" => Coming(u)
        /\ pc[q] = "queue" => Coming(u) \/ work[q].got[u] # 0

-----------------------------------------------------------------------------
(* Which actions change which part of the state.                           *)

\* The values a member, a park and a score can have.
LEMMA Ranges ==
    /\ 0 \in Members /\ 1 \in Parks /\ Parks \subseteq Members /\ Members \subseteq Nat
    /\ \A g \in Members : g # 0 => g \in Parks
    /\ 0..MaxWait \subseteq -1..(MaxWait + Visibility)
    /\ -1 \in -1..(MaxWait + Visibility) /\ Visibility \in -1..(MaxWait + Visibility)
    /\ \A x \in 0..MaxWait : Less(x) \in 0..MaxWait
    /\ \A x \in -1..(MaxWait + Visibility) : Less(x) \in -1..(MaxWait + Visibility)
    /\ \A x \in 0..LockTtl : Less(x) \in 0..LockTtl
    /\ 0 \in 0..LockTtl /\ 0 \in 0..MaxWait
BY SchedulerAssumption DEF Members, Parks, Less

LEMMA Counts ==
    ASSUME TableTypes, NEW u \in Tasks
    PROVE  parks[u] \in Nat /\ row[u] \in Nat /\ \A g \in Parks : due[u][g] \in Nat
BY SchedulerAssumption DEF TableTypes, Members

\* Where an action leaves the parks of a task ...
LEMMA ParkMoves ==
    ASSUME TableTypes, NEW t \in Tasks, NEW n \in 1..MaxWait, Park(t, n), NEW u \in Tasks
    PROVE  /\ parks[t] + 1 \in Parks
           /\ parks'[u] = IF u = t THEN parks[t] + 1 ELSE parks[u]
           /\ row'[u] = IF u = t THEN parks[t] + 1 ELSE row[u]
           /\ \A g \in Parks :
                 due'[u][g] = IF u = t /\ g = parks[t] + 1 THEN n ELSE due[u][g]
BY SMTT(30), SchedulerAssumption DEF TableTypes, Park, Parks

\* ... a score ...
LEMMA QueueMoves ==
    ASSUME ZsetTypes, NEW t \in Tasks, NEW g \in Parks, Queue(t, g),
           NEW u \in Tasks, NEW m \in Members
    PROVE  zset'[u][m] = IF u = t /\ m = g THEN due[t][g] ELSE zset[u][m]
BY Ranges DEF ZsetTypes, Queue

LEMMA RequeueMoves ==
    ASSUME ZsetTypes, NEW p \in Procs, Requeue(p), NEW u \in Tasks, NEW m \in Members
    PROVE  zset'[u][m] = IF m = 0 /\ work[p].got[u] # 0 /\ zset[u][0] = -1
                         THEN due[u][work[p].got[u]] ELSE zset[u][m]
<1>1. zset[u] \in [Members -> -1..(MaxWait + Visibility)]
  BY DEF ZsetTypes
<1>2. zset'[u] = IF work[p].got[u] # 0 /\ zset[u][0] = -1
                 THEN [zset[u] EXCEPT ![0] = due[u][work[p].got[u]]] ELSE zset[u]
  BY DEF Requeue
<1> QED
  BY <1>1, <1>2, Ranges

LEMMA RequeueFailsMoves ==
    ASSUME ZsetTypes, NEW p \in Procs, RequeueFails(p), NEW u \in Tasks, NEW m \in Members
    PROVE  \/ zset'[u][m] = zset[u][m]
           \/ /\ m = 0 /\ work[p].got[u] # 0 /\ zset[u][0] = -1
              /\ zset'[u][m] = due[u][work[p].got[u]]
<1>1. zset[u] \in [Members -> -1..(MaxWait + Visibility)]
  BY DEF ZsetTypes
<1>2. \/ zset'[u] = zset[u]
      \/ /\ work[p].got[u] # 0 /\ zset[u][0] = -1
         /\ zset'[u] = [zset[u] EXCEPT ![0] = due[u][work[p].got[u]]]
  BY DEF RequeueFails
<1> QED
  BY <1>1, <1>2, Ranges

\* A task the rebuild has read and not queued has something coming, or is on record.
LEMMA RequeueFailsLeaves ==
    ASSUME ZsetTypes, NEW p \in Procs, RequeueFails(p), NEW u \in Tasks,
           work[p].got[u] # 0, <<u, "unqueued">> \notin slips'
    PROVE  \/ zset'[u][0] = zset[u][0] /\ zset[u][0] # -1
           \/ zset'[u][0] = due[u][work[p].got[u]]
           \/ ~Unannounced(u)
<1>1. zset[u] \in [Members -> -1..(MaxWait + Visibility)]
  BY DEF ZsetTypes
<1>2. PICK failed \in SUBSET {t \in Tasks : work[p].got[t] # 0} \ {{}} :
        /\ zset' = [t \in Tasks |->
                     IF t \notin failed /\ work[p].got[t] # 0 /\ zset[t][0] = -1
                     THEN [zset[t] EXCEPT ![0] = due[t][work[p].got[t]]]
                     ELSE zset[t]]
        /\ Slip({<<t, "unqueued">> : t \in {v \in failed : Unannounced(v)}})
  BY DEF RequeueFails
<1>3. CASE u \in failed
  BY <1>2, <1>3 DEF Slip
<1>4. CASE u \notin failed
  <2>1. zset'[u] = IF zset[u][0] = -1
                   THEN [zset[u] EXCEPT ![0] = due[u][work[p].got[u]]] ELSE zset[u]
    BY <1>2, <1>4
  <2> QED
    BY <1>1, <2>1, Ranges
<1> QED
  BY <1>3, <1>4

LEMMA ClaimHides ==
    ASSUME NEW p \in Procs, Claim(p), NEW u \in Tasks, NEW m \in Members
    PROVE  zset'[u][m] = IF zset[u][m] = 0 THEN Visibility ELSE zset[u][m]
<1>1. <<u, m>> \in DueMembers <=> zset[u][m] = 0
  BY DEF DueMembers
<1>2. zset'[u][m] = IF <<u, m>> \in DueMembers THEN Visibility ELSE zset[u][m]
  BY DEF Claim, Hide
<1> QED
  BY <1>1, <1>2

LEMMA CleanupRemoves ==
    ASSUME NEW p \in Procs, Cleanup(p), NEW u \in Tasks, NEW m \in Members
    PROVE  zset'[u][m] = IF <<u, m>> \in work[p].batch THEN -1 ELSE zset[u][m]
BY DEF Cleanup

\* ... and what a poll has read.
LEMMA ClaimTakes ==
    ASSUME PollTypes, NEW p \in Procs, Claim(p), NEW q \in Procs
    PROVE  work'[q] = IF q = p THEN [batch |-> DueMembers, got |-> [t \in Tasks |-> 0], send |-> {}]
                      ELSE work[q]
<1>1. [NoWork EXCEPT !.batch = DueMembers]
        = [batch |-> DueMembers, got |-> [t \in Tasks |-> 0], send |-> {}]
  BY DEF NoWork
<1>2. work' = [work EXCEPT ![p] = [NoWork EXCEPT !.batch = DueMembers]]
  BY DEF Claim
<1> QED
  BY <1>1, <1>2 DEF PollTypes

LEMMA LoadReads ==
    ASSUME PollTypes, NEW p \in Procs, Load(p), NEW q \in Procs
    PROVE  /\ work'[q].batch = work[q].batch
           /\ work'[q].send = work[q].send
           /\ \A u \in Tasks :
                 work'[q].got[u] =
                   IF q # p THEN work[q].got[u]
                   ELSE IF \E m \in Members : <<u, m>> \in work[p].batch THEN row[u] ELSE 0
BY DEF PollTypes, Load

LEMMA RowDueParksMoves ==
    ASSUME [Next]_vars
    PROVE  \/ UNCHANGED <<row, due, parks>>
           \/ \E p \in Procs : Delete(p)
           \/ \E t \in Tasks : EngineInsert(t) \/ EngineAgain(t) \/ Repark(t) \/
                Cancel(t)
           \/ Tick
BY ZenonT(30) DEF Next, EngineSkips, RequeueFails, RebuildStep, PollStep, EngineStep, ConsumeStep,
   DeliveryStep, FaultStep, vars, table, streams, poll, delivery, history, Release,
   LookSentinel, ReadRows, Requeue, Seal, LockPoll, Claim, Load, Gate, Released, Cleanup,
   Unlock, DeleteFails, PollFails, Crash, EngineAnnounce, EngineCrash, Take, Completed,
   SendOk, Mark, MarkFails, SendFails, GiveUp, Throttled, Announce, RetryDone, DeferDone,
   DeliveryCrash, LeaseExpires, OptOut, Consume, ConsumeCrash, Wipe

\* A row, a time and a count of parks keep their ranges.
LEMMA TableTypesStep ==
    ASSUME TableTypes,
           [Next]_vars
    PROVE  TableTypes'
<1>1. CASE UNCHANGED <<row, due, parks>>
  BY <1>1 DEF TableTypes, Members, Parks
<1>2. ASSUME NEW p \in Procs, Delete(p) PROVE TableTypes'
  BY <1>2, SchedulerAssumption DEF Delete, Goto, TableTypes, Members, Parks
<1>3. ASSUME NEW t \in Tasks, EngineInsert(t) PROVE TableTypes'
  BY <1>3, SchedulerAssumption DEF EngineInsert, Park, TableTypes, Members, Parks
<1>4. ASSUME NEW t \in Tasks, EngineAgain(t) PROVE TableTypes'
  BY <1>4, SchedulerAssumption DEF EngineAgain, TableTypes, Members, Parks
<1>5. ASSUME NEW t \in Tasks, Repark(t) PROVE TableTypes'
  BY <1>5, SchedulerAssumption DEF Repark, Step, Park, TableTypes, Members, Parks
<1>6. ASSUME NEW t \in Tasks, Cancel(t) PROVE TableTypes'
  BY <1>6, SchedulerAssumption DEF Cancel, Slip, Loaded, OnItsWay, TableTypes, Members,
     Parks
<1>7. CASE Tick
  BY <1>7, SchedulerAssumption DEF Tick, Less, TableTypes, Members, Parks
<1> QED
  BY <1>1, <1>2, <1>3, <1>4, <1>5, <1>6, <1>7, RowDueParksMoves

LEMMA ZsetMoves ==
    ASSUME [Next]_vars
    PROVE  \/ UNCHANGED zset
           \/ \E p \in Procs : RequeueFails(p) \/ Requeue(p) \/ Claim(p) \/ Cleanup(p)
           \/ \E t \in Tasks, g \in Parks : Consume(t, g) \/ ConsumeCrash(t, g)
           \/ Tick \/ Wipe
BY DEF Next, EngineSkips, RebuildStep, PollStep, EngineStep, ConsumeStep, DeliveryStep,
   FaultStep, vars, table, streams, poll, delivery, history, Release, LookSentinel,
   ReadRows, Seal, LockPoll, Load, Gate, Released, Delete, Unlock, DeleteFails, PollFails,
   Crash, EngineInsert, EngineAgain, EngineAnnounce, EngineCrash, Take, Completed, SendOk,
   Mark, MarkFails, SendFails, GiveUp, Throttled, Repark, Announce, RetryDone, DeferDone,
   DeliveryCrash, LeaseExpires, Cancel, OptOut

\* A score is a time of a park, a visibility timeout, or counts down.
LEMMA ZsetTypesStep ==
    ASSUME ZsetTypes, TableTypes, PollTypes,
           [Next]_vars
    PROVE  ZsetTypes'
<1>1. CASE UNCHANGED zset
  BY <1>1 DEF ZsetTypes, TableTypes, PollTypes, Members, Parks
<1>2. ASSUME NEW p \in Procs, Requeue(p) PROVE ZsetTypes'
  <2>1. ASSUME NEW u \in Tasks, work[p].got[u] # 0
        PROVE  due[u][work[p].got[u]] \in -1..(MaxWait + Visibility)
    <3>1. work[p].got[u] \in Parks
      BY <2>1, Ranges DEF PollTypes
    <3> QED
      BY <3>1, Ranges DEF TableTypes
  <2>2. zset' = [u \in Tasks |->
                   IF work[p].got[u] # 0 /\ zset[u][0] = -1
                   THEN [zset[u] EXCEPT ![0] = due[u][work[p].got[u]]] ELSE zset[u]]
    BY <1>2 DEF Requeue
  <2> QED
    BY <2>1, <2>2 DEF ZsetTypes
<1>3. ASSUME NEW p \in Procs, Claim(p) PROVE ZsetTypes'
  <2>1. zset' = Hide(DueMembers)
    BY <1>3 DEF Claim
  <2> QED
    BY <2>1, Ranges DEF Hide, ZsetTypes
<1>4. ASSUME NEW p \in Procs, Cleanup(p) PROVE ZsetTypes'
  BY <1>4, SchedulerAssumption DEF Cleanup, Goto, Slip, NoWork, TakesAnother, ZsetTypes,
     TableTypes, PollTypes, Members, Parks
<1>5. ASSUME NEW t \in Tasks, NEW g \in Parks, Consume(t, g) PROVE ZsetTypes'
  <2>1. due[t][g] \in -1..(MaxWait + Visibility)
    BY Ranges DEF TableTypes
  <2> QED
    BY <1>5, <2>1 DEF Consume, Queue, ZsetTypes
<1>6. ASSUME NEW t \in Tasks, NEW g \in Parks, ConsumeCrash(t, g) PROVE ZsetTypes'
  <2>1. due[t][g] \in -1..(MaxWait + Visibility)
    BY Ranges DEF TableTypes
  <2> QED
    BY <1>6, <2>1 DEF ConsumeCrash, Queue, ZsetTypes
<1>7. CASE Tick
  <2>1. zset' = [t \in Tasks |-> [g \in Members |-> Less(zset[t][g])]]
    BY <1>7 DEF Tick
  <2> QED
    BY <2>1, Ranges DEF ZsetTypes
<1>8. CASE Wipe
  BY <1>8, SchedulerAssumption DEF Wipe, Slip, Fault, OnItsWay, ZsetTypes, TableTypes,
     PollTypes, Members, Parks
<1>9. ASSUME NEW p \in Procs, RequeueFails(p) PROVE ZsetTypes'
  <2>1. ASSUME NEW u \in Tasks, work[p].got[u] # 0
        PROVE  due[u][work[p].got[u]] \in -1..(MaxWait + Visibility)
    <3>1. work[p].got[u] \in Parks
      BY <2>1, Ranges DEF PollTypes
    <3> QED
      BY <3>1, Ranges DEF TableTypes
  <2>2. PICK failed \in SUBSET Tasks :
          zset' = [u \in Tasks |->
                     IF u \notin failed /\ work[p].got[u] # 0 /\ zset[u][0] = -1
                     THEN [zset[u] EXCEPT ![0] = due[u][work[p].got[u]]] ELSE zset[u]]
    <3>1. PICK failed \in SUBSET {t \in Tasks : work[p].got[t] # 0} \ {{}} :
            zset' = [u \in Tasks |->
                       IF u \notin failed /\ work[p].got[u] # 0 /\ zset[u][0] = -1
                       THEN [zset[u] EXCEPT ![0] = due[u][work[p].got[u]]] ELSE zset[u]]
      BY <1>9 DEF RequeueFails
    <3> QED
      BY <3>1
  <2> QED
    BY <2>1, <2>2 DEF ZsetTypes
<1> QED
  BY <1>9, <1>1, <1>2, <1>3, <1>4, <1>5, <1>6, <1>7, <1>8, ZsetMoves

LEMMA ScheduledMoves ==
    ASSUME [Next]_vars
    PROVE  \/ UNCHANGED scheduled
           \/ \E t \in Tasks : EngineAnnounce(t) \/ Announce(t)
           \/ \E t \in Tasks, g \in Parks : Consume(t, g)
           \/ Wipe
BY DEF Next, EngineSkips, RequeueFails, RebuildStep, PollStep, EngineStep, ConsumeStep,
   DeliveryStep, FaultStep, vars, table, streams, poll, delivery, history, Release,
   LookSentinel, ReadRows, Requeue, Seal, LockPoll, Claim, Load, Gate, Released, Delete,
   Cleanup, Unlock, DeleteFails, PollFails, Crash, EngineInsert, EngineAgain, EngineCrash,
   Take, Completed, SendOk, Mark, MarkFails, SendFails, GiveUp, Throttled, Repark,
   RetryDone, DeferDone, DeliveryCrash, LeaseExpires, Cancel, OptOut, ConsumeCrash, Tick

\* Only a park that was made is announced.
LEMMA ScheduledTypesStep ==
    ASSUME ScheduledTypes, TableTypes, \A u \in Tasks : InPlay(u),
           [Next]_vars
    PROVE  ScheduledTypes'
<1>1. CASE UNCHANGED scheduled
  BY <1>1 DEF ScheduledTypes, TableTypes, Parks, Members
<1>2. ASSUME NEW t \in Tasks, EngineAnnounce(t) PROVE ScheduledTypes'
  BY <1>2, SchedulerAssumption DEF EngineAnnounce, ScheduledTypes, TableTypes, Parks,
     Members
<1>3. ASSUME NEW t \in Tasks, Announce(t) PROVE ScheduledTypes'
  <2>1. attempt[t] # "none"
    BY <1>3 DEF Announce, Step
  <2>2. parks[t] \in Parks
    BY <2>1 DEF InPlay, TableTypes, Parks
  <2> QED
    BY <1>3, <2>2 DEF Announce, ScheduledTypes
<1>4. ASSUME NEW t \in Tasks, NEW g \in Parks, Consume(t, g) PROVE ScheduledTypes'
  BY <1>4, SchedulerAssumption DEF Consume, Queue, ScheduledTypes, TableTypes, Parks,
     Members
<1>5. CASE Wipe
  BY <1>5, SchedulerAssumption DEF Wipe, Slip, Fault, OnItsWay, ScheduledTypes,
     TableTypes, Parks, Members
<1> QED
  BY <1>1, <1>2, <1>3, <1>4, <1>5, ScheduledMoves

LEMMA OutboundMoves ==
    ASSUME [Next]_vars
    PROVE  \/ UNCHANGED outbound
           \/ \E p \in Procs, t \in Tasks : Release(p, t)
           \/ \E t \in Tasks : EngineAgain(t) \/ Completed(t) \/ Mark(t) \/ MarkFails(t)
                \/ GiveUp(t) \/ RetryDone(t) \/ DeferDone(t)
           \/ Wipe
BY DEF Next, EngineSkips, RequeueFails, RebuildStep, PollStep, EngineStep, ConsumeStep,
   DeliveryStep, FaultStep, vars, table, streams, poll, delivery, history, LookSentinel,
   ReadRows, Requeue, Seal, LockPoll, Claim, Load, Gate, Released, Delete, Cleanup,
   Unlock, DeleteFails, PollFails, Crash, EngineInsert, EngineAnnounce, EngineCrash, Take,
   SendOk, SendFails, Throttled, Repark, Announce, DeliveryCrash, LeaseExpires, Cancel,
   OptOut, Consume, ConsumeCrash, Tick

\* At most MaxCopies entries of a task are on OUTBOUND.
LEMMA OutboundTypesStep ==
    ASSUME OutboundTypes,
           [Next]_vars
    PROVE  OutboundTypes'
<1>1. CASE UNCHANGED outbound
  BY <1>1 DEF OutboundTypes
<1>2. ASSUME NEW p \in Procs, NEW t \in Tasks, Release(p, t) PROVE OutboundTypes'
  BY <1>2, SchedulerAssumption DEF Release, OutboundTypes
<1>3. ASSUME NEW t \in Tasks, EngineAgain(t) PROVE OutboundTypes'
  BY <1>3, SchedulerAssumption DEF EngineAgain, OutboundTypes
<1>4. ASSUME NEW t \in Tasks, Completed(t) PROVE OutboundTypes'
  BY <1>4, SchedulerAssumption DEF Completed, Ack, OutboundTypes
<1>5. ASSUME NEW t \in Tasks, Mark(t) PROVE OutboundTypes'
  BY <1>5, SchedulerAssumption DEF Mark, Step, Ack, OutboundTypes
<1>6. ASSUME NEW t \in Tasks, MarkFails(t) PROVE OutboundTypes'
  BY <1>6, SchedulerAssumption DEF MarkFails, Step, Ack, Slip, Fault, OutboundTypes
<1>7. ASSUME NEW t \in Tasks, GiveUp(t) PROVE OutboundTypes'
  BY <1>7, SchedulerAssumption DEF GiveUp, Step, Ack, OutboundTypes
<1>8. ASSUME NEW t \in Tasks, RetryDone(t) PROVE OutboundTypes'
  BY <1>8, SchedulerAssumption DEF RetryDone, Step, Ack, BackInLine, OutboundTypes
<1>9. ASSUME NEW t \in Tasks, DeferDone(t) PROVE OutboundTypes'
  BY <1>9, SchedulerAssumption DEF DeferDone, Step, Ack, BackInLine, OutboundTypes
<1>10. CASE Wipe
  BY <1>10, SchedulerAssumption DEF Wipe, Slip, Fault, OnItsWay, Members, OutboundTypes
<1> QED
  BY <1>1, <1>2, <1>3, <1>4, <1>5, <1>6, <1>7, <1>8, <1>9, <1>10, OutboundMoves

LEMMA SentinelLockLockTtlMoves ==
    ASSUME [Next]_vars
    PROVE  \/ UNCHANGED <<sentinel, lock, lockTtl>>
           \/ \E p \in Procs : Seal(p) \/ LockPoll(p) \/ Unlock(p) \/ Crash(p)
           \/ Tick \/ Wipe
BY ZenonT(30) DEF Next, EngineSkips, RequeueFails, RebuildStep, PollStep, EngineStep, ConsumeStep,
   DeliveryStep, FaultStep, vars, table, streams, poll, delivery, history, Release,
   LookSentinel, ReadRows, Requeue, Claim, Load, Gate, Released, Delete, Cleanup,
   DeleteFails, PollFails, EngineInsert, EngineAgain, EngineAnnounce, EngineCrash, Take,
   Completed, SendOk, Mark, MarkFails, SendFails, GiveUp, Throttled, Repark, Announce,
   RetryDone, DeferDone, DeliveryCrash, LeaseExpires, Cancel, OptOut, Consume,
   ConsumeCrash

\* The poll lock is a process's, a dead one's or free.
LEMMA LockTypesStep ==
    ASSUME LockTypes,
           [Next]_vars
    PROVE  LockTypes'
<1>1. CASE UNCHANGED <<sentinel, lock, lockTtl>>
  BY <1>1 DEF LockTypes
<1>2. ASSUME NEW p \in Procs, Seal(p) PROVE LockTypes'
  BY <1>2, SchedulerAssumption DEF Seal, Goto, LockTypes
<1>3. ASSUME NEW p \in Procs, LockPoll(p) PROVE LockTypes'
  BY <1>3, SchedulerAssumption DEF LockPoll, Goto, LockTypes
<1>4. ASSUME NEW p \in Procs, Unlock(p) PROVE LockTypes'
  BY <1>4, SchedulerAssumption DEF Unlock, Goto, NoWork, LockTypes
<1>5. ASSUME NEW p \in Procs, Crash(p) PROVE LockTypes'
  BY <1>5, SchedulerAssumption DEF Crash, Fault, NoWork, LockTypes
<1>6. CASE Tick
  BY <1>6, SchedulerAssumption DEF Tick, Less, Parks, Members, LockTypes
<1>7. CASE Wipe
  <2>1. sentinel' = FALSE /\ lock' = "none" /\ lockTtl' = 0
    BY <1>7 DEF Wipe
  <2> QED
    BY <2>1, Ranges DEF LockTypes
<1> QED
  BY <1>1, <1>2, <1>3, <1>4, <1>5, <1>6, <1>7, SentinelLockLockTtlMoves

LEMMA PcWorkMoves ==
    ASSUME [Next]_vars
    PROVE  \/ UNCHANGED <<pc, work>>
           \/ \E p \in Procs, t \in Tasks : Release(p, t)
           \/ \E p \in Procs : RequeueFails(p) \/ LookSentinel(p) \/ ReadRows(p) \/ Requeue(p) \/ Seal(p) \/
                LockPoll(p) \/ Claim(p) \/ Load(p) \/ Gate(p) \/ Released(p) \/ Delete(p) \/
                Cleanup(p) \/ Unlock(p) \/ DeleteFails(p) \/ PollFails(p) \/ Crash(p)
BY ZenonT(30) DEF Next, EngineSkips, RebuildStep, PollStep, EngineStep, ConsumeStep, DeliveryStep,
   FaultStep, vars, table, streams, poll, delivery, history, EngineInsert, EngineAgain,
   EngineAnnounce, EngineCrash, Take, Completed, SendOk, Mark, MarkFails, SendFails,
   GiveUp, Throttled, Repark, Announce, RetryDone, DeferDone, DeliveryCrash, LeaseExpires,
   Cancel, OptOut, Consume, ConsumeCrash, Tick, Wipe

\* A poll reads members and parks.
LEMMA PollTypesStep ==
    ASSUME PollTypes, TableTypes,
           [Next]_vars
    PROVE  PollTypes'
<1>1. CASE UNCHANGED <<pc, work>>
  BY <1>1 DEF PollTypes, TableTypes, Members, Parks, PollSteps
<1>2. ASSUME NEW p \in Procs, NEW t \in Tasks, Release(p, t) PROVE PollTypes'
  BY ZenonT(30), <1>2, SchedulerAssumption DEF Release, PollTypes, TableTypes, Members, Parks,
     PollSteps
<1>3. ASSUME NEW p \in Procs, LookSentinel(p) PROVE PollTypes'
  BY <1>3, SchedulerAssumption DEF LookSentinel, Goto, PollTypes, TableTypes, Members,
     Parks, PollSteps
<1>4. ASSUME NEW p \in Procs, ReadRows(p) PROVE PollTypes'
  BY ZenonT(30), <1>4, SchedulerAssumption DEF ReadRows, Goto, PollTypes, TableTypes, Members, Parks,
     PollSteps
<1>5. ASSUME NEW p \in Procs, Requeue(p) PROVE PollTypes'
  BY <1>5, SchedulerAssumption DEF Requeue, Goto, NoWork, PollTypes, TableTypes, Members,
     Parks, PollSteps
<1>6. ASSUME NEW p \in Procs, Seal(p) PROVE PollTypes'
  BY <1>6, SchedulerAssumption DEF Seal, Goto, PollTypes, TableTypes, Members, Parks,
     PollSteps
<1>7. ASSUME NEW p \in Procs, LockPoll(p) PROVE PollTypes'
  BY <1>7, SchedulerAssumption DEF LockPoll, Goto, PollTypes, TableTypes, Members, Parks,
     PollSteps
<1>8. ASSUME NEW p \in Procs, Claim(p) PROVE PollTypes'
  <2>1. ASSUME NEW q \in Procs
        PROVE  work'[q] \in [batch : SUBSET (Tasks \X Members), got : [Tasks -> Members],
                             send : SUBSET Tasks]
    <3>1. [u \in Tasks |-> 0] \in [Tasks -> Members]
      BY Ranges
    <3>2. DueMembers \in SUBSET (Tasks \X Members)
      BY DEF DueMembers
    <3> QED
      BY <1>8, <3>1, <3>2, ClaimTakes DEF PollTypes
  <2>2. work' \in [Procs -> [batch : SUBSET (Tasks \X Members), got : [Tasks -> Members],
                             send : SUBSET Tasks]]
    <3>1. work' = [q \in Procs |-> work'[q]]
      BY <1>8 DEF Claim, PollTypes
    <3> QED
      BY <2>1, <3>1
  <2> QED
    BY <1>8, <2>2 DEF Claim, Goto, PollTypes, PollSteps
<1>9. ASSUME NEW p \in Procs, Load(p) PROVE PollTypes'
  <2> DEFINE read == [u \in Tasks |-> IF \E g \in Members : <<u, g>> \in work[p].batch
                                      THEN row[u] ELSE 0]
  <2>1. read \in [Tasks -> Members]
    BY Ranges DEF TableTypes
  <2>2. work' = [work EXCEPT ![p].got = read] /\ pc' = [pc EXCEPT ![p] = "gate"]
    BY <1>9 DEF Load, Goto
  <2> QED
    BY <2>1, <2>2 DEF PollTypes, PollSteps
<1>10. ASSUME NEW p \in Procs, Gate(p) PROVE PollTypes'
  BY ZenonT(30), <1>10, SchedulerAssumption DEF Gate, Goto, Loaded, PollTypes, TableTypes, Members,
     Parks, PollSteps
<1>11. ASSUME NEW p \in Procs, Released(p) PROVE PollTypes'
  BY <1>11, SchedulerAssumption DEF Released, Goto, PollTypes, TableTypes, Members, Parks,
     PollSteps
<1>12. ASSUME NEW p \in Procs, Delete(p) PROVE PollTypes'
  BY <1>12, SchedulerAssumption DEF Delete, Goto, PollTypes, TableTypes, Members, Parks,
     PollSteps
<1>13. ASSUME NEW p \in Procs, Cleanup(p) PROVE PollTypes'
  BY <1>13, SchedulerAssumption DEF Cleanup, Goto, Slip, NoWork, TakesAnother, PollTypes,
     TableTypes, Members, Parks, PollSteps
<1>14. ASSUME NEW p \in Procs, Unlock(p) PROVE PollTypes'
  BY <1>14, SchedulerAssumption DEF Unlock, Goto, NoWork, PollTypes, TableTypes, Members,
     Parks, PollSteps
<1>15. ASSUME NEW p \in Procs, DeleteFails(p) PROVE PollTypes'
  BY <1>15, SchedulerAssumption DEF DeleteFails, Goto, Fault, PollTypes, TableTypes,
     Members, Parks, PollSteps
<1>16. ASSUME NEW p \in Procs, PollFails(p) PROVE PollTypes'
  BY <1>16, SchedulerAssumption DEF PollFails, Fault, NoWork, PollTypes, TableTypes,
     Members, Parks, PollSteps
<1>17. ASSUME NEW p \in Procs, Crash(p) PROVE PollTypes'
  BY <1>17, SchedulerAssumption DEF Crash, Fault, NoWork, PollTypes, TableTypes, Members,
     Parks, PollSteps
<1>18. ASSUME NEW p \in Procs, RequeueFails(p) PROVE PollTypes'
  BY <1>18, SchedulerAssumption DEF RequeueFails, Slip, Unannounced, Goto, NoWork,
     PollTypes, TableTypes, Members, Parks, PollSteps
<1> QED
  BY <1>18, <1>1, <1>2, <1>3, <1>4, <1>5, <1>6, <1>7, <1>8, <1>9, <1>10, <1>11, <1>12,
     <1>13, <1>14, <1>15, <1>16, <1>17, PcWorkMoves

LEMMA EngineAttemptLeaseOptedOutMoves ==
    ASSUME [Next]_vars
    PROVE  \/ UNCHANGED <<engine, attempt, lease, optedOut>>
           \/ \E t \in Tasks : EngineSkips(t) \/ EngineInsert(t) \/ EngineAgain(t) \/ EngineAnnounce(t) \/
                EngineCrash(t) \/ Take(t) \/ SendOk(t) \/ Mark(t) \/ MarkFails(t) \/
                SendFails(t) \/ GiveUp(t) \/ Throttled(t) \/ Repark(t) \/ Announce(t) \/
                RetryDone(t) \/ DeferDone(t) \/ DeliveryCrash(t) \/ LeaseExpires(t) \/
                OptOut(t)
           \/ Wipe
BY ZenonT(30) DEF Next, RequeueFails, RebuildStep, PollStep, EngineStep, ConsumeStep, DeliveryStep,
   FaultStep, vars, table, streams, poll, delivery, history, Release, LookSentinel,
   ReadRows, Requeue, Seal, LockPoll, Claim, Load, Gate, Released, Delete, Cleanup,
   Unlock, DeleteFails, PollFails, Crash, Completed, Cancel, Consume, ConsumeCrash, Tick

\* The engine, delivery and the recipient.
LEMMA SendTypesStep ==
    ASSUME SendTypes,
           [Next]_vars
    PROVE  SendTypes'
<1>1. CASE UNCHANGED <<engine, attempt, lease, optedOut>>
  BY <1>1 DEF SendTypes
<1>2. ASSUME NEW t \in Tasks, EngineInsert(t) PROVE SendTypes'
  BY <1>2, SchedulerAssumption DEF EngineInsert, Park, delivery, SendTypes
<1>3. ASSUME NEW t \in Tasks, EngineAgain(t) PROVE SendTypes'
  BY <1>3, SchedulerAssumption DEF EngineAgain, delivery, SendTypes
<1>4. ASSUME NEW t \in Tasks, EngineAnnounce(t) PROVE SendTypes'
  BY <1>4, SchedulerAssumption DEF EngineAnnounce, delivery, SendTypes
<1>5. ASSUME NEW t \in Tasks, EngineCrash(t) PROVE SendTypes'
  BY <1>5, SchedulerAssumption DEF EngineCrash, Slip, Fault, delivery, SendTypes
<1>6. ASSUME NEW t \in Tasks, Take(t) PROVE SendTypes'
  BY <1>6, SchedulerAssumption DEF Take, Step, SendTypes
<1>7. ASSUME NEW t \in Tasks, SendOk(t) PROVE SendTypes'
  BY <1>7, SchedulerAssumption DEF SendOk, Step, SendTypes
<1>8. ASSUME NEW t \in Tasks, Mark(t) PROVE SendTypes'
  BY <1>8, SchedulerAssumption DEF Mark, Step, Ack, SendTypes
<1>9. ASSUME NEW t \in Tasks, MarkFails(t) PROVE SendTypes'
  BY <1>9, SchedulerAssumption DEF MarkFails, Step, Ack, Slip, Fault, SendTypes
<1>10. ASSUME NEW t \in Tasks, SendFails(t) PROVE SendTypes'
  BY <1>10, SchedulerAssumption DEF SendFails, Step, SendTypes
<1>11. ASSUME NEW t \in Tasks, GiveUp(t) PROVE SendTypes'
  BY <1>11, SchedulerAssumption DEF GiveUp, Step, Ack, SendTypes
<1>12. ASSUME NEW t \in Tasks, Throttled(t) PROVE SendTypes'
  BY <1>12, SchedulerAssumption DEF Throttled, Step, SendTypes
<1>13. ASSUME NEW t \in Tasks, Repark(t) PROVE SendTypes'
  BY <1>13, SchedulerAssumption DEF Repark, Step, Park, SendTypes
<1>14. ASSUME NEW t \in Tasks, Announce(t) PROVE SendTypes'
  BY <1>14, SchedulerAssumption DEF Announce, Step, SendTypes
<1>15. ASSUME NEW t \in Tasks, RetryDone(t) PROVE SendTypes'
  BY <1>15, SchedulerAssumption DEF RetryDone, Step, Ack, BackInLine, SendTypes
<1>16. ASSUME NEW t \in Tasks, DeferDone(t) PROVE SendTypes'
  BY <1>16, SchedulerAssumption DEF DeferDone, Step, Ack, BackInLine, SendTypes
<1>17. ASSUME NEW t \in Tasks, DeliveryCrash(t) PROVE SendTypes'
  BY <1>17, SchedulerAssumption DEF DeliveryCrash, Slip, Fault, SendTypes
<1>18. ASSUME NEW t \in Tasks, LeaseExpires(t) PROVE SendTypes'
  BY <1>18, SchedulerAssumption DEF LeaseExpires, Holding, SendTypes
<1>19. ASSUME NEW t \in Tasks, OptOut(t) PROVE SendTypes'
  BY <1>19, SchedulerAssumption DEF OptOut, Slip, OnItsWay, delivery, SendTypes
<1>20. CASE Wipe
  BY <1>20, SchedulerAssumption DEF Wipe, Slip, Fault, OnItsWay, Members, SendTypes
<1>21. ASSUME NEW t \in Tasks, EngineSkips(t) PROVE SendTypes'
  BY <1>21, SchedulerAssumption DEF EngineSkips, Slip, Unannounced, Fault, delivery,
     SendTypes
<1> QED
  BY <1>21, <1>1, <1>2, <1>3, <1>4, <1>5, <1>6, <1>7, <1>8, <1>9, <1>10, <1>11, <1>12,
     <1>13, <1>14, <1>15, <1>16, <1>17, <1>18, <1>19, <1>20,
     EngineAttemptLeaseOptedOutMoves

LEMMA FaultsSentEndedSlipsMoves ==
    ASSUME [Next]_vars
    PROVE  \/ UNCHANGED <<faults, sent, ended, slips>>
           \/ \E p \in Procs : RequeueFails(p) \/ Gate(p) \/ Cleanup(p) \/ DeleteFails(p) \/ PollFails(p) \/
                Crash(p)
           \/ \E t \in Tasks : EngineSkips(t) \/ EngineCrash(t) \/ SendOk(t) \/ MarkFails(t) \/ GiveUp(t)
                \/ RetryDone(t) \/ DeferDone(t) \/ DeliveryCrash(t) \/ Cancel(t) \/ OptOut(t)
           \/ \E t \in Tasks, g \in Parks : ConsumeCrash(t, g)
           \/ Wipe
BY ZenonT(30) DEF Next, RebuildStep, PollStep, EngineStep, ConsumeStep, DeliveryStep, FaultStep,
   vars, table, streams, poll, delivery, history, Release, LookSentinel, ReadRows,
   Requeue, Seal, LockPoll, Claim, Load, Released, Delete, Unlock, EngineInsert,
   EngineAgain, EngineAnnounce, Take, Completed, Mark, SendFails, Throttled, Repark,
   Announce, LeaseExpires, Consume, Tick

\* Faults are bounded, and only named races are recorded.
LEMMA HistoryTypesStep ==
    ASSUME HistoryTypes,
           [Next]_vars
    PROVE  HistoryTypes'
<1>1. CASE UNCHANGED <<faults, sent, ended, slips>>
  BY <1>1 DEF HistoryTypes
<1>2. ASSUME NEW p \in Procs, Gate(p) PROVE HistoryTypes'
  BY <1>2, SchedulerAssumption DEF Gate, Goto, Loaded, HistoryTypes
<1>3. ASSUME NEW p \in Procs, Cleanup(p) PROVE HistoryTypes'
  <2>1. slips' \subseteq slips \union (Tasks \X {"removed"})
    BY <1>3 DEF Cleanup, Slip
  <2>2. UNCHANGED <<faults, sent, ended>>
    BY <1>3 DEF Cleanup
  <2> QED
    BY <2>1, <2>2 DEF HistoryTypes
<1>4. ASSUME NEW p \in Procs, DeleteFails(p) PROVE HistoryTypes'
  BY <1>4, SchedulerAssumption DEF DeleteFails, Goto, Fault, history, HistoryTypes
<1>5. ASSUME NEW p \in Procs, PollFails(p) PROVE HistoryTypes'
  BY <1>5, SchedulerAssumption DEF PollFails, Fault, NoWork, history, HistoryTypes
<1>6. ASSUME NEW p \in Procs, Crash(p) PROVE HistoryTypes'
  BY <1>6, SchedulerAssumption DEF Crash, Fault, NoWork, history, HistoryTypes
<1>7. ASSUME NEW t \in Tasks, EngineCrash(t) PROVE HistoryTypes'
  BY <1>7, SchedulerAssumption DEF EngineCrash, Slip, Fault, HistoryTypes
<1>8. ASSUME NEW t \in Tasks, SendOk(t) PROVE HistoryTypes'
  BY <1>8, SchedulerAssumption DEF SendOk, Step, HistoryTypes
<1>9. ASSUME NEW t \in Tasks, MarkFails(t) PROVE HistoryTypes'
  BY <1>9, SchedulerAssumption DEF MarkFails, Step, Ack, Slip, Fault, HistoryTypes
<1>10. ASSUME NEW t \in Tasks, GiveUp(t) PROVE HistoryTypes'
  BY <1>10, SchedulerAssumption DEF GiveUp, Step, Ack, HistoryTypes
<1>11. ASSUME NEW t \in Tasks, RetryDone(t) PROVE HistoryTypes'
  BY <1>11, SchedulerAssumption DEF RetryDone, Step, Ack, BackInLine, HistoryTypes
<1>12. ASSUME NEW t \in Tasks, DeferDone(t) PROVE HistoryTypes'
  BY <1>12, SchedulerAssumption DEF DeferDone, Step, Ack, BackInLine, HistoryTypes
<1>13. ASSUME NEW t \in Tasks, DeliveryCrash(t) PROVE HistoryTypes'
  BY <1>13, SchedulerAssumption DEF DeliveryCrash, Slip, Fault, HistoryTypes
<1>14. ASSUME NEW t \in Tasks, Cancel(t) PROVE HistoryTypes'
  BY <1>14, SchedulerAssumption DEF Cancel, Slip, Loaded, OnItsWay, HistoryTypes
<1>15. ASSUME NEW t \in Tasks, OptOut(t) PROVE HistoryTypes'
  BY <1>15, SchedulerAssumption DEF OptOut, Slip, OnItsWay, HistoryTypes
<1>16. ASSUME NEW t \in Tasks, NEW g \in Parks, ConsumeCrash(t, g) PROVE HistoryTypes'
  BY <1>16, SchedulerAssumption DEF ConsumeCrash, Fault, Queue, history, HistoryTypes
<1>17. CASE Wipe
  BY <1>17, SchedulerAssumption DEF Wipe, Slip, Fault, OnItsWay, Members, HistoryTypes
<1>18. ASSUME NEW t \in Tasks, EngineSkips(t) PROVE HistoryTypes'
  BY <1>18, SchedulerAssumption DEF EngineSkips, Slip, Unannounced, Fault, HistoryTypes
<1>19. ASSUME NEW p \in Procs, RequeueFails(p) PROVE HistoryTypes'
  <2>1. slips' \subseteq slips \union (Tasks \X {"unqueued"})
    BY <1>19 DEF RequeueFails, Slip
  <2>2. UNCHANGED <<faults, sent, ended>>
    BY <1>19 DEF RequeueFails
  <2> QED
    BY <2>1, <2>2 DEF HistoryTypes
<1> QED
  BY <1>18, <1>19, <1>1, <1>2, <1>3, <1>4, <1>5, <1>6, <1>7, <1>8, <1>9, <1>10, <1>11,
     <1>12, <1>13, <1>14, <1>15, <1>16, <1>17, FaultsSentEndedSlipsMoves

\* A poll sends what it loaded and loads what it claimed.
LEMMA WorkStep ==
    ASSUME NEW q \in Procs, PollTypes, WorkFits(q),
           [Next]_vars
    PROVE  WorkFits(q)'
<1>1. CASE UNCHANGED <<pc, work>>
  BY <1>1 DEF PollTypes, WorkFits, Members
<1>2. ASSUME NEW p \in Procs, NEW t \in Tasks, Release(p, t) PROVE WorkFits(q)'
  BY <1>2, SchedulerAssumption DEF Release, PollTypes, WorkFits, Members
<1>3. ASSUME NEW p \in Procs, LookSentinel(p) PROVE WorkFits(q)'
  BY <1>3, SchedulerAssumption DEF LookSentinel, Goto, PollTypes, WorkFits, Members
<1>4. ASSUME NEW p \in Procs, ReadRows(p) PROVE WorkFits(q)'
  BY <1>4, SchedulerAssumption DEF ReadRows, Goto, PollTypes, WorkFits, Members
<1>5. ASSUME NEW p \in Procs, Requeue(p) PROVE WorkFits(q)'
  BY <1>5, SchedulerAssumption DEF Requeue, Goto, NoWork, PollTypes, WorkFits, Members
<1>6. ASSUME NEW p \in Procs, Seal(p) PROVE WorkFits(q)'
  BY <1>6, SchedulerAssumption DEF Seal, Goto, PollTypes, WorkFits, Members
<1>7. ASSUME NEW p \in Procs, LockPoll(p) PROVE WorkFits(q)'
  BY <1>7, SchedulerAssumption DEF LockPoll, Goto, PollTypes, WorkFits, Members
<1>8. ASSUME NEW p \in Procs, Claim(p) PROVE WorkFits(q)'
  BY <1>8, SchedulerAssumption DEF Claim, Goto, Hide, DueMembers, NoWork, PollTypes,
     WorkFits, Members
<1>9. ASSUME NEW p \in Procs, Load(p) PROVE WorkFits(q)'
  BY <1>9, SchedulerAssumption DEF Load, Goto, PollTypes, WorkFits, Members
<1>10. ASSUME NEW p \in Procs, Gate(p) PROVE WorkFits(q)'
  BY <1>10, SchedulerAssumption DEF Gate, Goto, Loaded, PollTypes, WorkFits, Members
<1>11. ASSUME NEW p \in Procs, Released(p) PROVE WorkFits(q)'
  BY <1>11, SchedulerAssumption DEF Released, Goto, PollTypes, WorkFits, Members
<1>12. ASSUME NEW p \in Procs, Delete(p) PROVE WorkFits(q)'
  BY <1>12, SchedulerAssumption DEF Delete, Goto, PollTypes, WorkFits, Members
<1>13. ASSUME NEW p \in Procs, Cleanup(p) PROVE WorkFits(q)'
  BY <1>13, SchedulerAssumption DEF Cleanup, Goto, Slip, NoWork, TakesAnother, PollTypes,
     WorkFits, Members
<1>14. ASSUME NEW p \in Procs, Unlock(p) PROVE WorkFits(q)'
  BY <1>14, SchedulerAssumption DEF Unlock, Goto, NoWork, PollTypes, WorkFits, Members
<1>15. ASSUME NEW p \in Procs, DeleteFails(p) PROVE WorkFits(q)'
  BY <1>15, SchedulerAssumption DEF DeleteFails, Goto, Fault, PollTypes, WorkFits, Members
<1>16. ASSUME NEW p \in Procs, PollFails(p) PROVE WorkFits(q)'
  BY <1>16, SchedulerAssumption DEF PollFails, Fault, NoWork, PollTypes, WorkFits, Members
<1>17. ASSUME NEW p \in Procs, Crash(p) PROVE WorkFits(q)'
  BY <1>17, SchedulerAssumption DEF Crash, Fault, NoWork, PollTypes, WorkFits, Members
<1>18. ASSUME NEW p \in Procs, RequeueFails(p) PROVE WorkFits(q)'
  BY <1>18, SchedulerAssumption DEF RequeueFails, Slip, Unannounced, Goto, NoWork,
     PollTypes, WorkFits, Members
<1> QED
  BY <1>18, <1>1, <1>2, <1>3, <1>4, <1>5, <1>6, <1>7, <1>8, <1>9, <1>10, <1>11, <1>12,
     <1>13, <1>14, <1>15, <1>16, <1>17, PcWorkMoves

LEMMA EngineParksMoves ==
    ASSUME [Next]_vars
    PROVE  \/ UNCHANGED <<engine, parks>>
           \/ \E t \in Tasks : EngineSkips(t) \/ EngineInsert(t) \/ EngineAgain(t) \/ EngineAnnounce(t) \/
                EngineCrash(t) \/ Repark(t)
           \/ Wipe
BY DEF Next, RequeueFails, RebuildStep, PollStep, EngineStep, ConsumeStep, DeliveryStep,
   FaultStep, vars, table, streams, poll, delivery, history, Release, LookSentinel,
   ReadRows, Requeue, Seal, LockPoll, Claim, Load, Gate, Released, Delete, Cleanup,
   Unlock, DeleteFails, PollFails, Crash, Take, Completed, SendOk, Mark, MarkFails,
   SendFails, GiveUp, Throttled, Announce, RetryDone, DeferDone, DeliveryCrash,
   LeaseExpires, Cancel, OptOut, Consume, ConsumeCrash, Tick

\* The engine makes the first park.
LEMMA StartedStep ==
    ASSUME NEW u \in Tasks, TableTypes, SendTypes, InPlay(u), Started(u),
           [Next]_vars
    PROVE  Started(u)'
<1>1. CASE UNCHANGED <<engine, parks>>
  BY <1>1 DEF TableTypes, SendTypes, InPlay, Started, Members, Parks
<1>2. ASSUME NEW t \in Tasks, EngineInsert(t) PROVE Started(u)'
  BY <1>2, SchedulerAssumption DEF EngineInsert, Park, TableTypes, SendTypes, InPlay,
     Started, Members, Parks
<1>3. ASSUME NEW t \in Tasks, EngineAgain(t) PROVE Started(u)'
  BY <1>3, SchedulerAssumption DEF EngineAgain, TableTypes, SendTypes, InPlay, Started,
     Members, Parks
<1>4. ASSUME NEW t \in Tasks, EngineAnnounce(t) PROVE Started(u)'
  BY <1>4, SchedulerAssumption DEF EngineAnnounce, table, TableTypes, SendTypes, InPlay,
     Started, Members, Parks
<1>5. ASSUME NEW t \in Tasks, EngineCrash(t) PROVE Started(u)'
  BY <1>5, SchedulerAssumption DEF EngineCrash, Slip, Fault, table, TableTypes, SendTypes,
     InPlay, Started, Members, Parks
<1>6. ASSUME NEW t \in Tasks, Repark(t) PROVE Started(u)'
  BY <1>6, SchedulerAssumption DEF Repark, Step, Park, TableTypes, SendTypes, InPlay,
     Started, Members, Parks
<1>7. CASE Wipe
  BY <1>7, SchedulerAssumption DEF Wipe, Slip, Fault, OnItsWay, table, TableTypes,
     SendTypes, InPlay, Started, Members, Parks
<1>8. ASSUME NEW t \in Tasks, EngineSkips(t) PROVE Started(u)'
  BY <1>8, SchedulerAssumption DEF EngineSkips, Slip, Unannounced, Fault, table,
     TableTypes, SendTypes, InPlay, Started, Members, Parks
<1> QED
  BY <1>8, <1>1, <1>2, <1>3, <1>4, <1>5, <1>6, <1>7, EngineParksMoves

LEMMA OutboundAttemptParksMoves ==
    ASSUME [Next]_vars
    PROVE  \/ UNCHANGED <<outbound, attempt, parks>>
           \/ \E p \in Procs, t \in Tasks : Release(p, t)
           \/ \E t \in Tasks : EngineInsert(t) \/ EngineAgain(t) \/ Take(t) \/
                Completed(t) \/ SendOk(t) \/ Mark(t) \/ MarkFails(t) \/ SendFails(t) \/
                GiveUp(t) \/ Throttled(t) \/ Repark(t) \/ Announce(t) \/ RetryDone(t) \/
                DeferDone(t) \/ DeliveryCrash(t)
           \/ Wipe
BY ZenonT(30) DEF Next, EngineSkips, RequeueFails, RebuildStep, PollStep, EngineStep, ConsumeStep,
   DeliveryStep, FaultStep, vars, table, streams, poll, delivery, history, LookSentinel,
   ReadRows, Requeue, Seal, LockPoll, Claim, Load, Gate, Released, Delete, Cleanup,
   Unlock, DeleteFails, PollFails, Crash, EngineAnnounce, EngineCrash, LeaseExpires,
   Cancel, OptOut, Consume, ConsumeCrash, Tick

\* Delivery sees parked tasks only.
LEMMA InPlayStep ==
    ASSUME NEW u \in Tasks, TableTypes, OutboundTypes, PollTypes, SendTypes, \A q \in
           Procs : WorkFits(q), \A q \in Procs : ReadIsParked(u, q), Started(u),
           InPlay(u),
           [Next]_vars
    PROVE  InPlay(u)'
<1>1. CASE UNCHANGED <<outbound, attempt, parks>>
  BY <1>1 DEF TableTypes, OutboundTypes, PollTypes, SendTypes, InPlay, Started, WorkFits,
     ReadIsParked, Members, Parks
<1>2. ASSUME NEW p \in Procs, NEW t \in Tasks, Release(p, t) PROVE InPlay(u)'
  BY <1>2, SchedulerAssumption DEF Release, table, delivery, TableTypes, OutboundTypes,
     PollTypes, SendTypes, InPlay, Started, WorkFits, ReadIsParked, Members, Parks
<1>3. ASSUME NEW t \in Tasks, EngineInsert(t) PROVE InPlay(u)'
  BY <1>3, SchedulerAssumption DEF EngineInsert, Park, streams, delivery, TableTypes,
     OutboundTypes, PollTypes, SendTypes, InPlay, Started, WorkFits, ReadIsParked,
     Members, Parks
<1>4. ASSUME NEW t \in Tasks, EngineAgain(t) PROVE InPlay(u)'
  <2>1. engine[t] # "new" /\ parks' = parks /\ attempt' = attempt
    BY <1>4 DEF EngineAgain, delivery
  <2>2. CASE u = t
    BY <2>1, <2>2 DEF InPlay, Started, TableTypes
  <2>3. CASE u # t
    <3>1. outbound'[u] = outbound[u]
      BY <1>4, <2>3 DEF EngineAgain, OutboundTypes
    <3> QED
      BY <2>1, <3>1 DEF InPlay
  <2> QED
    BY <2>2, <2>3
<1>5. ASSUME NEW t \in Tasks, Take(t) PROVE InPlay(u)'
  BY <1>5, SchedulerAssumption DEF Take, Step, table, streams, TableTypes, OutboundTypes,
     PollTypes, SendTypes, InPlay, Started, WorkFits, ReadIsParked, Members, Parks
<1>6. ASSUME NEW t \in Tasks, Completed(t) PROVE InPlay(u)'
  BY <1>6, SchedulerAssumption DEF Completed, Ack, table, delivery, TableTypes,
     OutboundTypes, PollTypes, SendTypes, InPlay, Started, WorkFits, ReadIsParked,
     Members, Parks
<1>7. ASSUME NEW t \in Tasks, SendOk(t) PROVE InPlay(u)'
  BY <1>7, SchedulerAssumption DEF SendOk, Step, table, streams, TableTypes,
     OutboundTypes, PollTypes, SendTypes, InPlay, Started, WorkFits, ReadIsParked,
     Members, Parks
<1>8. ASSUME NEW t \in Tasks, Mark(t) PROVE InPlay(u)'
  BY <1>8, SchedulerAssumption DEF Mark, Step, Ack, table, TableTypes, OutboundTypes,
     PollTypes, SendTypes, InPlay, Started, WorkFits, ReadIsParked, Members, Parks
<1>9. ASSUME NEW t \in Tasks, MarkFails(t) PROVE InPlay(u)'
  BY <1>9, SchedulerAssumption DEF MarkFails, Step, Ack, Slip, Fault, table, TableTypes,
     OutboundTypes, PollTypes, SendTypes, InPlay, Started, WorkFits, ReadIsParked,
     Members, Parks
<1>10. ASSUME NEW t \in Tasks, SendFails(t) PROVE InPlay(u)'
  BY <1>10, SchedulerAssumption DEF SendFails, Step, table, streams, TableTypes,
     OutboundTypes, PollTypes, SendTypes, InPlay, Started, WorkFits, ReadIsParked,
     Members, Parks
<1>11. ASSUME NEW t \in Tasks, GiveUp(t) PROVE InPlay(u)'
  BY <1>11, SchedulerAssumption DEF GiveUp, Step, Ack, table, TableTypes, OutboundTypes,
     PollTypes, SendTypes, InPlay, Started, WorkFits, ReadIsParked, Members, Parks
<1>12. ASSUME NEW t \in Tasks, Throttled(t) PROVE InPlay(u)'
  BY <1>12, SchedulerAssumption DEF Throttled, Step, table, streams, TableTypes,
     OutboundTypes, PollTypes, SendTypes, InPlay, Started, WorkFits, ReadIsParked,
     Members, Parks
<1>13. ASSUME NEW t \in Tasks, Repark(t) PROVE InPlay(u)'
  <2>1. PICK n \in 1..MaxWait : Park(t, n)
    BY <1>13 DEF Repark
  <2>2. parks'[u] \in Nat /\ parks'[u] >= parks[u] /\ (u = t => parks'[u] > 0)
    BY <2>1, ParkMoves, Counts
  <2>3. outbound' = outbound /\ (u # t => attempt'[u] = attempt[u])
    BY <1>13 DEF Repark, Step, streams, SendTypes
  <2> QED
    BY <2>2, <2>3, Counts DEF InPlay
<1>14. ASSUME NEW t \in Tasks, Announce(t) PROVE InPlay(u)'
  BY <1>14, SchedulerAssumption DEF Announce, Step, table, TableTypes, OutboundTypes,
     PollTypes, SendTypes, InPlay, Started, WorkFits, ReadIsParked, Members, Parks
<1>15. ASSUME NEW t \in Tasks, RetryDone(t) PROVE InPlay(u)'
  BY <1>15, SchedulerAssumption DEF RetryDone, Step, Ack, BackInLine, table, TableTypes,
     OutboundTypes, PollTypes, SendTypes, InPlay, Started, WorkFits, ReadIsParked,
     Members, Parks
<1>16. ASSUME NEW t \in Tasks, DeferDone(t) PROVE InPlay(u)'
  BY <1>16, SchedulerAssumption DEF DeferDone, Step, Ack, BackInLine, table, TableTypes,
     OutboundTypes, PollTypes, SendTypes, InPlay, Started, WorkFits, ReadIsParked,
     Members, Parks
<1>17. ASSUME NEW t \in Tasks, DeliveryCrash(t) PROVE InPlay(u)'
  BY <1>17, SchedulerAssumption DEF DeliveryCrash, Slip, Fault, table, streams,
     TableTypes, OutboundTypes, PollTypes, SendTypes, InPlay, Started, WorkFits,
     ReadIsParked, Members, Parks
<1>18. CASE Wipe
  BY <1>18, SchedulerAssumption DEF Wipe, Slip, Fault, OnItsWay, table, TableTypes,
     OutboundTypes, PollTypes, SendTypes, InPlay, Started, WorkFits, ReadIsParked,
     Members, Parks
<1> QED
  BY <1>1, <1>2, <1>3, <1>4, <1>5, <1>6, <1>7, <1>8, <1>9, <1>10, <1>11, <1>12, <1>13,
     <1>14, <1>15, <1>16, <1>17, <1>18, OutboundAttemptParksMoves

LEMMA RowParksMoves ==
    ASSUME [Next]_vars
    PROVE  \/ UNCHANGED <<row, parks>>
           \/ \E p \in Procs : Delete(p)
           \/ \E t \in Tasks : EngineInsert(t) \/ EngineAgain(t) \/ Repark(t) \/
                Cancel(t)
BY ZenonT(30) DEF Next, EngineSkips, RequeueFails, RebuildStep, PollStep, EngineStep, ConsumeStep,
   DeliveryStep, FaultStep, vars, table, streams, poll, delivery, history, Release,
   LookSentinel, ReadRows, Requeue, Seal, LockPoll, Claim, Load, Gate, Released, Cleanup,
   Unlock, DeleteFails, PollFails, Crash, EngineAnnounce, EngineCrash, Take, Completed,
   SendOk, Mark, MarkFails, SendFails, GiveUp, Throttled, Announce, RetryDone, DeferDone,
   DeliveryCrash, LeaseExpires, OptOut, Consume, ConsumeCrash, Tick, Wipe

\* A new park replaces the row; the engine's redelivery brings back the first
\* \* only while there is no other.
LEMMA RowStep ==
    ASSUME NEW u \in Tasks, TableTypes, EarlyIsFirst(u), RowIsLatest(u),
           [Next]_vars
    PROVE  RowIsLatest(u)'
<1>1. CASE UNCHANGED <<row, parks>>
  BY <1>1 DEF TableTypes, EarlyIsFirst, Early, RowIsLatest, Members, Parks
<1>2. ASSUME NEW p \in Procs, Delete(p) PROVE RowIsLatest(u)'
  BY <1>2, SchedulerAssumption DEF Delete, Goto, TableTypes, EarlyIsFirst, Early,
     RowIsLatest, Members, Parks
<1>3. ASSUME NEW t \in Tasks, EngineInsert(t) PROVE RowIsLatest(u)'
  BY <1>3, SchedulerAssumption DEF EngineInsert, Park, TableTypes, EarlyIsFirst, Early,
     RowIsLatest, Members, Parks
<1>4. ASSUME NEW t \in Tasks, EngineAgain(t) PROVE RowIsLatest(u)'
  BY <1>4, SchedulerAssumption DEF EngineAgain, TableTypes, EarlyIsFirst, Early,
     RowIsLatest, Members, Parks
<1>5. ASSUME NEW t \in Tasks, Repark(t) PROVE RowIsLatest(u)'
  BY <1>5, SchedulerAssumption DEF Repark, Step, Park, TableTypes, EarlyIsFirst, Early,
     RowIsLatest, Members, Parks
<1>6. ASSUME NEW t \in Tasks, Cancel(t) PROVE RowIsLatest(u)'
  BY <1>6, SchedulerAssumption DEF Cancel, Slip, Loaded, OnItsWay, TableTypes,
     EarlyIsFirst, Early, RowIsLatest, Members, Parks
<1> QED
  BY <1>1, <1>2, <1>3, <1>4, <1>5, <1>6, RowParksMoves

LEMMA ZsetParksMoves ==
    ASSUME [Next]_vars
    PROVE  \/ UNCHANGED <<zset, parks>>
           \/ \E p \in Procs : RequeueFails(p) \/ Requeue(p) \/ Claim(p) \/ Cleanup(p)
           \/ \E t \in Tasks : EngineInsert(t) \/ Repark(t)
           \/ \E t \in Tasks, g \in Parks : Consume(t, g) \/ ConsumeCrash(t, g)
           \/ Tick \/ Wipe
BY ZenonT(30) DEF Next, EngineSkips, RebuildStep, PollStep, EngineStep, ConsumeStep, DeliveryStep,
   FaultStep, vars, table, streams, poll, delivery, history, Release, LookSentinel,
   ReadRows, Seal, LockPoll, Load, Gate, Released, Delete, Unlock, DeleteFails, PollFails,
   Crash, EngineAgain, EngineAnnounce, EngineCrash, Take, Completed, SendOk, Mark,
   MarkFails, SendFails, GiveUp, Throttled, Announce, RetryDone, DeferDone, DeliveryCrash,
   LeaseExpires, Cancel, OptOut

\* A member is queued from an announcement or a row.
LEMMA QueuedStep ==
    ASSUME NEW u \in Tasks, NEW m \in Members, TableTypes, ZsetTypes, PollTypes, \A h
           \in Parks : AnnouncedIsParked(u, h), \A q \in Procs : ReadIsParked(u, q), \A
           q \in Procs : ClaimedIsParked(u, q, m), QueuedIsParked(u, m),
           [Next]_vars
    PROVE  QueuedIsParked(u, m)'
<1>1. CASE UNCHANGED <<zset, parks>>
  BY <1>1 DEF TableTypes, ZsetTypes, PollTypes, AnnouncedIsParked, ReadIsParked,
     ClaimedIsParked, QueuedIsParked, Members, Parks
<1>2. ASSUME NEW p \in Procs, Requeue(p) PROVE QueuedIsParked(u, m)'
  BY <1>2, SchedulerAssumption DEF Requeue, Goto, NoWork, table, TableTypes, ZsetTypes,
     PollTypes, AnnouncedIsParked, ReadIsParked, ClaimedIsParked, QueuedIsParked, Members,
     Parks
<1>3. ASSUME NEW p \in Procs, Claim(p) PROVE QueuedIsParked(u, m)'
  BY SMTT(30), <1>3, SchedulerAssumption DEF Claim, Goto, Hide, DueMembers, NoWork, table,
     TableTypes, ZsetTypes, PollTypes, AnnouncedIsParked, ReadIsParked, ClaimedIsParked,
     QueuedIsParked, Members, Parks
<1>4. ASSUME NEW p \in Procs, Cleanup(p) PROVE QueuedIsParked(u, m)'
  BY <1>4, SchedulerAssumption DEF Cleanup, Goto, Slip, NoWork, TakesAnother, table,
     TableTypes, ZsetTypes, PollTypes, AnnouncedIsParked, ReadIsParked, ClaimedIsParked,
     QueuedIsParked, Members, Parks
<1>5. ASSUME NEW t \in Tasks, EngineInsert(t) PROVE QueuedIsParked(u, m)'
  <2>1. PICK n \in 1..MaxWait : Park(t, n)
    BY <1>5 DEF EngineInsert
  <2>2. parks'[u] \in Nat /\ parks'[u] >= parks[u]
    BY <2>1, ParkMoves, Counts
  <2>3. UNCHANGED zset
    BY <1>5 DEF EngineInsert
  <2> QED
    BY <2>2, <2>3, Counts, Ranges DEF QueuedIsParked
<1>6. ASSUME NEW t \in Tasks, Repark(t) PROVE QueuedIsParked(u, m)'
  <2>1. PICK n \in 1..MaxWait : Park(t, n)
    BY <1>6 DEF Repark
  <2>2. parks'[u] \in Nat /\ parks'[u] >= parks[u]
    BY <2>1, ParkMoves, Counts
  <2>3. UNCHANGED zset
    BY <1>6 DEF Repark
  <2> QED
    BY <2>2, <2>3, Counts, Ranges DEF QueuedIsParked
<1>7. ASSUME NEW t \in Tasks, NEW g \in Parks, Consume(t, g) PROVE QueuedIsParked(u, m)'
  <2>1. zset'[u][m] = IF u = t /\ m = g THEN due[t][g] ELSE zset[u][m]
    BY <1>7, QueueMoves DEF Consume
  <2>2. parks' = parks /\ <<t, g>> \in scheduled
    BY <1>7 DEF Consume, table
  <2> QED
    BY <2>1, <2>2, Counts, Ranges DEF QueuedIsParked, AnnouncedIsParked, Parks
<1>8. ASSUME NEW t \in Tasks, NEW g \in Parks, ConsumeCrash(t, g) PROVE QueuedIsParked(u, m)'
  <2>1. zset'[u][m] = IF u = t /\ m = g THEN due[t][g] ELSE zset[u][m]
    BY <1>8, QueueMoves DEF ConsumeCrash
  <2>2. parks' = parks /\ <<t, g>> \in scheduled
    BY <1>8 DEF ConsumeCrash, table
  <2> QED
    BY <2>1, <2>2, Counts, Ranges DEF QueuedIsParked, AnnouncedIsParked, Parks
<1>9. CASE Tick
  BY <1>9, SchedulerAssumption DEF Tick, Less, TableTypes, ZsetTypes, PollTypes,
     AnnouncedIsParked, ReadIsParked, ClaimedIsParked, QueuedIsParked, Members, Parks
<1>10. CASE Wipe
  BY <1>10, SchedulerAssumption DEF Wipe, Slip, Fault, OnItsWay, table, TableTypes,
     ZsetTypes, PollTypes, AnnouncedIsParked, ReadIsParked, ClaimedIsParked,
     QueuedIsParked, Members, Parks
<1>11. ASSUME NEW p \in Procs, RequeueFails(p) PROVE QueuedIsParked(u, m)'
  <2>1. zset'[u][m] = zset[u][m] \/ (m = 0 /\ work[p].got[u] # 0)
    BY <1>11, RequeueFailsMoves
  <2>2. work[p].got[u] \in Nat /\ work[p].got[u] <= parks[u]
    BY Ranges DEF PollTypes, ReadIsParked
  <2>3. parks' = parks
    BY <1>11 DEF RequeueFails, table
  <2> QED
    BY <2>1, <2>2, <2>3, Counts DEF QueuedIsParked
<1> QED
  BY <1>11, <1>1, <1>2, <1>3, <1>4, <1>5, <1>6, <1>7, <1>8, <1>9, <1>10, ZsetParksMoves

LEMMA ScheduledParksMoves ==
    ASSUME [Next]_vars
    PROVE  \/ UNCHANGED <<scheduled, parks>>
           \/ \E t \in Tasks : EngineInsert(t) \/ EngineAnnounce(t) \/ Repark(t) \/
                Announce(t)
           \/ \E t \in Tasks, g \in Parks : Consume(t, g)
           \/ Wipe
BY ZenonT(30) DEF Next, EngineSkips, RequeueFails, RebuildStep, PollStep, EngineStep, ConsumeStep,
   DeliveryStep, FaultStep, vars, table, streams, poll, delivery, history, Release,
   LookSentinel, ReadRows, Requeue, Seal, LockPoll, Claim, Load, Gate, Released, Delete,
   Cleanup, Unlock, DeleteFails, PollFails, Crash, EngineAgain, EngineCrash, Take,
   Completed, SendOk, Mark, MarkFails, SendFails, GiveUp, Throttled, RetryDone, DeferDone,
   DeliveryCrash, LeaseExpires, Cancel, OptOut, ConsumeCrash, Tick

\* An announcement follows its park.
LEMMA AnnouncedStep ==
    ASSUME NEW u \in Tasks, NEW h \in Parks, TableTypes, SendTypes, Started(u),
           InPlay(u), AnnouncedIsParked(u, h),
           [Next]_vars
    PROVE  AnnouncedIsParked(u, h)'
<1>1. CASE UNCHANGED <<scheduled, parks>>
  BY <1>1 DEF TableTypes, SendTypes, Started, InPlay, AnnouncedIsParked, Members, Parks
<1>2. ASSUME NEW t \in Tasks, EngineInsert(t) PROVE AnnouncedIsParked(u, h)'
  BY <1>2, SchedulerAssumption DEF EngineInsert, Park, streams, TableTypes, SendTypes,
     Started, InPlay, AnnouncedIsParked, Members, Parks
<1>3. ASSUME NEW t \in Tasks, EngineAnnounce(t) PROVE AnnouncedIsParked(u, h)'
  BY <1>3, SchedulerAssumption DEF EngineAnnounce, table, TableTypes, SendTypes, Started,
     InPlay, AnnouncedIsParked, Members, Parks
<1>4. ASSUME NEW t \in Tasks, Repark(t) PROVE AnnouncedIsParked(u, h)'
  BY <1>4, SchedulerAssumption DEF Repark, Step, Park, streams, TableTypes, SendTypes,
     Started, InPlay, AnnouncedIsParked, Members, Parks
<1>5. ASSUME NEW t \in Tasks, Announce(t) PROVE AnnouncedIsParked(u, h)'
  BY <1>5, SchedulerAssumption DEF Announce, Step, table, TableTypes, SendTypes, Started,
     InPlay, AnnouncedIsParked, Members, Parks
<1>6. ASSUME NEW t \in Tasks, NEW g \in Parks, Consume(t, g) PROVE AnnouncedIsParked(u, h)'
  BY <1>6, SchedulerAssumption DEF Consume, Queue, table, TableTypes, SendTypes, Started,
     InPlay, AnnouncedIsParked, Members, Parks
<1>7. CASE Wipe
  BY <1>7, SchedulerAssumption DEF Wipe, Slip, Fault, OnItsWay, table, TableTypes,
     SendTypes, Started, InPlay, AnnouncedIsParked, Members, Parks
<1> QED
  BY <1>1, <1>2, <1>3, <1>4, <1>5, <1>6, <1>7, ScheduledParksMoves

LEMMA WorkParksMoves ==
    ASSUME [Next]_vars
    PROVE  \/ UNCHANGED <<work, parks>>
           \/ \E p \in Procs, t \in Tasks : Release(p, t)
           \/ \E p \in Procs : RequeueFails(p) \/ ReadRows(p) \/ Requeue(p) \/ Claim(p) \/ Load(p) \/
                Gate(p) \/ Cleanup(p) \/ Unlock(p) \/ PollFails(p) \/ Crash(p)
           \/ \E t \in Tasks : EngineInsert(t) \/ Repark(t)
BY ZenonT(30) DEF Next, EngineSkips, RebuildStep, PollStep, EngineStep, ConsumeStep, DeliveryStep,
   FaultStep, vars, table, streams, poll, delivery, history, LookSentinel, Seal, LockPoll,
   Released, Delete, DeleteFails, EngineAgain, EngineAnnounce, EngineCrash, Take,
   Completed, SendOk, Mark, MarkFails, SendFails, GiveUp, Throttled, Announce, RetryDone,
   DeferDone, DeliveryCrash, LeaseExpires, Cancel, OptOut, Consume, ConsumeCrash, Tick,
   Wipe

\* A poll claims what is queued.
LEMMA ClaimedStep ==
    ASSUME NEW u \in Tasks, NEW q \in Procs, NEW m \in Members, TableTypes, PollTypes,
           QueuedIsParked(u, m), ClaimedIsParked(u, q, m),
           [Next]_vars
    PROVE  ClaimedIsParked(u, q, m)'
<1>1. CASE UNCHANGED <<work, parks>>
  BY <1>1 DEF TableTypes, PollTypes, QueuedIsParked, ClaimedIsParked, Members, Parks
<1>2. ASSUME NEW p \in Procs, NEW t \in Tasks, Release(p, t) PROVE ClaimedIsParked(u, q, m)'
  BY <1>2, SchedulerAssumption DEF Release, table, TableTypes, PollTypes, QueuedIsParked,
     ClaimedIsParked, Members, Parks
<1>3. ASSUME NEW p \in Procs, ReadRows(p) PROVE ClaimedIsParked(u, q, m)'
  BY <1>3, SchedulerAssumption DEF ReadRows, Goto, table, TableTypes, PollTypes,
     QueuedIsParked, ClaimedIsParked, Members, Parks
<1>4. ASSUME NEW p \in Procs, Requeue(p) PROVE ClaimedIsParked(u, q, m)'
  BY <1>4, SchedulerAssumption DEF Requeue, Goto, NoWork, table, TableTypes, PollTypes,
     QueuedIsParked, ClaimedIsParked, Members, Parks
<1>5. ASSUME NEW p \in Procs, Claim(p) PROVE ClaimedIsParked(u, q, m)'
  BY SMTT(30), <1>5, SchedulerAssumption DEF Claim, Goto, Hide, DueMembers, NoWork, table,
     TableTypes, PollTypes, QueuedIsParked, ClaimedIsParked, Members, Parks
<1>6. ASSUME NEW p \in Procs, Load(p) PROVE ClaimedIsParked(u, q, m)'
  BY <1>6, SchedulerAssumption DEF Load, Goto, table, TableTypes, PollTypes,
     QueuedIsParked, ClaimedIsParked, Members, Parks
<1>7. ASSUME NEW p \in Procs, Gate(p) PROVE ClaimedIsParked(u, q, m)'
  BY <1>7, SchedulerAssumption DEF Gate, Goto, Loaded, table, TableTypes, PollTypes,
     QueuedIsParked, ClaimedIsParked, Members, Parks
<1>8. ASSUME NEW p \in Procs, Cleanup(p) PROVE ClaimedIsParked(u, q, m)'
  BY <1>8, SchedulerAssumption DEF Cleanup, Goto, Slip, NoWork, TakesAnother, table,
     TableTypes, PollTypes, QueuedIsParked, ClaimedIsParked, Members, Parks
<1>9. ASSUME NEW p \in Procs, Unlock(p) PROVE ClaimedIsParked(u, q, m)'
  BY <1>9, SchedulerAssumption DEF Unlock, Goto, NoWork, table, TableTypes, PollTypes,
     QueuedIsParked, ClaimedIsParked, Members, Parks
<1>10. ASSUME NEW p \in Procs, PollFails(p) PROVE ClaimedIsParked(u, q, m)'
  BY <1>10, SchedulerAssumption DEF PollFails, Fault, NoWork, table, TableTypes,
     PollTypes, QueuedIsParked, ClaimedIsParked, Members, Parks
<1>11. ASSUME NEW p \in Procs, Crash(p) PROVE ClaimedIsParked(u, q, m)'
  BY <1>11, SchedulerAssumption DEF Crash, Fault, NoWork, table, TableTypes, PollTypes,
     QueuedIsParked, ClaimedIsParked, Members, Parks
<1>12. ASSUME NEW t \in Tasks, EngineInsert(t) PROVE ClaimedIsParked(u, q, m)'
  BY <1>12, SchedulerAssumption DEF EngineInsert, Park, poll, TableTypes, PollTypes,
     QueuedIsParked, ClaimedIsParked, Members, Parks
<1>13. ASSUME NEW t \in Tasks, Repark(t) PROVE ClaimedIsParked(u, q, m)'
  BY <1>13, SchedulerAssumption DEF Repark, Step, Park, poll, TableTypes, PollTypes,
     QueuedIsParked, ClaimedIsParked, Members, Parks
<1>14. ASSUME NEW p \in Procs, RequeueFails(p) PROVE ClaimedIsParked(u, q, m)'
  BY <1>14, SchedulerAssumption DEF RequeueFails, Slip, Unannounced, Goto, NoWork, table,
     TableTypes, PollTypes, QueuedIsParked, ClaimedIsParked, Members, Parks
<1> QED
  BY <1>14, <1>1, <1>2, <1>3, <1>4, <1>5, <1>6, <1>7, <1>8, <1>9, <1>10, <1>11, <1>12,
     <1>13, WorkParksMoves

\* A poll reads a row.
LEMMA ReadStep ==
    ASSUME NEW u \in Tasks, NEW q \in Procs, TableTypes, PollTypes, RowIsLatest(u),
           ReadIsParked(u, q),
           [Next]_vars
    PROVE  ReadIsParked(u, q)'
<1>1. CASE UNCHANGED <<work, parks>>
  BY <1>1 DEF TableTypes, PollTypes, RowIsLatest, ReadIsParked, Members, Parks
<1>2. ASSUME NEW p \in Procs, NEW t \in Tasks, Release(p, t) PROVE ReadIsParked(u, q)'
  BY <1>2, SchedulerAssumption DEF Release, table, TableTypes, PollTypes, RowIsLatest,
     ReadIsParked, Members, Parks
<1>3. ASSUME NEW p \in Procs, ReadRows(p) PROVE ReadIsParked(u, q)'
  BY <1>3, SchedulerAssumption DEF ReadRows, Goto, table, TableTypes, PollTypes,
     RowIsLatest, ReadIsParked, Members, Parks
<1>4. ASSUME NEW p \in Procs, Requeue(p) PROVE ReadIsParked(u, q)'
  BY <1>4, SchedulerAssumption DEF Requeue, Goto, NoWork, table, TableTypes, PollTypes,
     RowIsLatest, ReadIsParked, Members, Parks
<1>5. ASSUME NEW p \in Procs, Claim(p) PROVE ReadIsParked(u, q)'
  BY <1>5, SchedulerAssumption DEF Claim, Goto, Hide, DueMembers, NoWork, table,
     TableTypes, PollTypes, RowIsLatest, ReadIsParked, Members, Parks
<1>6. ASSUME NEW p \in Procs, Load(p) PROVE ReadIsParked(u, q)'
  <2>1. work'[q].got[u] \in {work[q].got[u], row[u], 0} /\ parks' = parks
    BY <1>6, LoadReads DEF Load, table
  <2> QED
    BY <2>1 DEF ReadIsParked, RowIsLatest, TableTypes
<1>7. ASSUME NEW p \in Procs, Gate(p) PROVE ReadIsParked(u, q)'
  BY <1>7, SchedulerAssumption DEF Gate, Goto, Loaded, table, TableTypes, PollTypes,
     RowIsLatest, ReadIsParked, Members, Parks
<1>8. ASSUME NEW p \in Procs, Cleanup(p) PROVE ReadIsParked(u, q)'
  BY <1>8, SchedulerAssumption DEF Cleanup, Goto, Slip, NoWork, TakesAnother, table,
     TableTypes, PollTypes, RowIsLatest, ReadIsParked, Members, Parks
<1>9. ASSUME NEW p \in Procs, Unlock(p) PROVE ReadIsParked(u, q)'
  BY <1>9, SchedulerAssumption DEF Unlock, Goto, NoWork, table, TableTypes, PollTypes,
     RowIsLatest, ReadIsParked, Members, Parks
<1>10. ASSUME NEW p \in Procs, PollFails(p) PROVE ReadIsParked(u, q)'
  BY <1>10, SchedulerAssumption DEF PollFails, Fault, NoWork, table, TableTypes,
     PollTypes, RowIsLatest, ReadIsParked, Members, Parks
<1>11. ASSUME NEW p \in Procs, Crash(p) PROVE ReadIsParked(u, q)'
  BY <1>11, SchedulerAssumption DEF Crash, Fault, NoWork, table, TableTypes, PollTypes,
     RowIsLatest, ReadIsParked, Members, Parks
<1>12. ASSUME NEW t \in Tasks, EngineInsert(t) PROVE ReadIsParked(u, q)'
  BY <1>12, SchedulerAssumption DEF EngineInsert, Park, poll, TableTypes, PollTypes,
     RowIsLatest, ReadIsParked, Members, Parks
<1>13. ASSUME NEW t \in Tasks, Repark(t) PROVE ReadIsParked(u, q)'
  <2>1. PICK n \in 1..MaxWait : Park(t, n)
    BY <1>13 DEF Repark
  <2>2. parks'[u] \in Nat /\ parks'[u] >= parks[u]
    BY <2>1, ParkMoves, Counts
  <2>3. UNCHANGED work
    BY <1>13 DEF Repark, poll
  <2>4. work[q].got[u] \in Nat
    BY Ranges DEF PollTypes
  <2> QED
    BY <2>2, <2>3, <2>4, Counts DEF ReadIsParked
<1>14. ASSUME NEW p \in Procs, RequeueFails(p) PROVE ReadIsParked(u, q)'
  BY <1>14, SchedulerAssumption DEF RequeueFails, Slip, Unannounced, Goto, NoWork, table,
     TableTypes, PollTypes, RowIsLatest, ReadIsParked, Members, Parks
<1> QED
  BY <1>14, <1>1, <1>2, <1>3, <1>4, <1>5, <1>6, <1>7, <1>8, <1>9, <1>10, <1>11, <1>12,
     <1>13, WorkParksMoves

LEMMA DueParksMoves ==
    ASSUME [Next]_vars
    PROVE  \/ UNCHANGED <<due, parks>>
           \/ \E t \in Tasks : EngineInsert(t) \/ Repark(t)
           \/ Tick
BY ZenonT(30) DEF Next, EngineSkips, RequeueFails, RebuildStep, PollStep, EngineStep, ConsumeStep,
   DeliveryStep, FaultStep, vars, table, streams, poll, delivery, history, Release,
   LookSentinel, ReadRows, Requeue, Seal, LockPoll, Claim, Load, Gate, Released, Delete,
   Cleanup, Unlock, DeleteFails, PollFails, Crash, EngineAgain, EngineAnnounce,
   EngineCrash, Take, Completed, SendOk, Mark, MarkFails, SendFails, GiveUp, Throttled,
   Announce, RetryDone, DeferDone, DeliveryCrash, LeaseExpires, Cancel, OptOut, Consume,
   ConsumeCrash, Wipe

\* A task is parked again only after its first release.
LEMMA EarlyFirstStep ==
    ASSUME NEW u \in Tasks, TableTypes, Started(u), InPlay(u), EarlyIsUnsent(u),
           EarlyIsFirst(u),
           [Next]_vars
    PROVE  EarlyIsFirst(u)'
<1>1. CASE UNCHANGED <<due, parks>>
  BY <1>1 DEF TableTypes, Started, InPlay, Early, EarlyIsUnsent, EarlyIsFirst, Members,
     Parks
<1>2. ASSUME NEW t \in Tasks, EngineInsert(t) PROVE EarlyIsFirst(u)'
  BY <1>2, SchedulerAssumption DEF EngineInsert, Park, TableTypes, Started, InPlay, Early,
     EarlyIsUnsent, EarlyIsFirst, Members, Parks
<1>3. ASSUME NEW t \in Tasks, Repark(t) PROVE EarlyIsFirst(u)'
  BY <1>3, SchedulerAssumption DEF Repark, Step, Park, TableTypes, Started, InPlay, Early,
     EarlyIsUnsent, EarlyIsFirst, Members, Parks
<1>4. CASE Tick
  BY <1>4, SchedulerAssumption DEF Tick, Less, TableTypes, Started, InPlay, Early,
     EarlyIsUnsent, EarlyIsFirst, Members, Parks
<1> QED
  BY <1>1, <1>2, <1>3, <1>4, DueParksMoves

LEMMA DueOutboundAttemptMoves ==
    ASSUME [Next]_vars
    PROVE  \/ UNCHANGED <<due, outbound, attempt>>
           \/ \E p \in Procs, t \in Tasks : Release(p, t)
           \/ \E t \in Tasks : EngineInsert(t) \/ EngineAgain(t) \/ Take(t) \/
                Completed(t) \/ SendOk(t) \/ Mark(t) \/ MarkFails(t) \/ SendFails(t) \/
                GiveUp(t) \/ Throttled(t) \/ Repark(t) \/ Announce(t) \/ RetryDone(t) \/
                DeferDone(t) \/ DeliveryCrash(t)
           \/ Tick \/ Wipe
BY ZenonT(30) DEF Next, EngineSkips, RequeueFails, RebuildStep, PollStep, EngineStep, ConsumeStep,
   DeliveryStep, FaultStep, vars, table, streams, poll, delivery, history, LookSentinel,
   ReadRows, Requeue, Seal, LockPoll, Claim, Load, Gate, Released, Delete, Cleanup,
   Unlock, DeleteFails, PollFails, Crash, EngineAnnounce, EngineCrash, LeaseExpires,
   Cancel, OptOut, Consume, ConsumeCrash

\* Before its time a task is not released.
LEMMA EarlyUnsentStep ==
    ASSUME NEW u \in Tasks, TableTypes, OutboundTypes, PollTypes, SendTypes, \A q \in
           Procs : WorkFits(q), Started(u), InPlay(u), \A q \in Procs, m \in Members :
           EarlyIsUnclaimed(u, q, m), EarlyIsUnsent(u),
           [Next]_vars
    PROVE  EarlyIsUnsent(u)'
<1>1. CASE UNCHANGED <<due, outbound, attempt>>
  BY <1>1 DEF TableTypes, OutboundTypes, PollTypes, SendTypes, WorkFits, Started, InPlay,
     Early, EarlyIsUnclaimed, EarlyIsUnsent, Members, Parks
<1>2. ASSUME NEW p \in Procs, NEW t \in Tasks, Release(p, t) PROVE EarlyIsUnsent(u)'
  BY <1>2, SchedulerAssumption DEF Release, table, delivery, TableTypes, OutboundTypes,
     PollTypes, SendTypes, WorkFits, Started, InPlay, Early, EarlyIsUnclaimed,
     EarlyIsUnsent, Members, Parks
<1>3. ASSUME NEW t \in Tasks, EngineInsert(t) PROVE EarlyIsUnsent(u)'
  BY <1>3, SchedulerAssumption DEF EngineInsert, Park, streams, delivery, TableTypes,
     OutboundTypes, PollTypes, SendTypes, WorkFits, Started, InPlay, Early,
     EarlyIsUnclaimed, EarlyIsUnsent, Members, Parks
<1>4. ASSUME NEW t \in Tasks, EngineAgain(t) PROVE EarlyIsUnsent(u)'
  BY <1>4, SchedulerAssumption DEF EngineAgain, delivery, TableTypes, OutboundTypes,
     PollTypes, SendTypes, WorkFits, Started, InPlay, Early, EarlyIsUnclaimed,
     EarlyIsUnsent, Members, Parks
<1>5. ASSUME NEW t \in Tasks, Take(t) PROVE EarlyIsUnsent(u)'
  BY <1>5, SchedulerAssumption DEF Take, Step, table, streams, TableTypes, OutboundTypes,
     PollTypes, SendTypes, WorkFits, Started, InPlay, Early, EarlyIsUnclaimed,
     EarlyIsUnsent, Members, Parks
<1>6. ASSUME NEW t \in Tasks, Completed(t) PROVE EarlyIsUnsent(u)'
  BY <1>6, SchedulerAssumption DEF Completed, Ack, table, delivery, TableTypes,
     OutboundTypes, PollTypes, SendTypes, WorkFits, Started, InPlay, Early,
     EarlyIsUnclaimed, EarlyIsUnsent, Members, Parks
<1>7. ASSUME NEW t \in Tasks, SendOk(t) PROVE EarlyIsUnsent(u)'
  BY <1>7, SchedulerAssumption DEF SendOk, Step, table, streams, TableTypes,
     OutboundTypes, PollTypes, SendTypes, WorkFits, Started, InPlay, Early,
     EarlyIsUnclaimed, EarlyIsUnsent, Members, Parks
<1>8. ASSUME NEW t \in Tasks, Mark(t) PROVE EarlyIsUnsent(u)'
  BY <1>8, SchedulerAssumption DEF Mark, Step, Ack, table, TableTypes, OutboundTypes,
     PollTypes, SendTypes, WorkFits, Started, InPlay, Early, EarlyIsUnclaimed,
     EarlyIsUnsent, Members, Parks
<1>9. ASSUME NEW t \in Tasks, MarkFails(t) PROVE EarlyIsUnsent(u)'
  BY <1>9, SchedulerAssumption DEF MarkFails, Step, Ack, Slip, Fault, table, TableTypes,
     OutboundTypes, PollTypes, SendTypes, WorkFits, Started, InPlay, Early,
     EarlyIsUnclaimed, EarlyIsUnsent, Members, Parks
<1>10. ASSUME NEW t \in Tasks, SendFails(t) PROVE EarlyIsUnsent(u)'
  BY <1>10, SchedulerAssumption DEF SendFails, Step, table, streams, TableTypes,
     OutboundTypes, PollTypes, SendTypes, WorkFits, Started, InPlay, Early,
     EarlyIsUnclaimed, EarlyIsUnsent, Members, Parks
<1>11. ASSUME NEW t \in Tasks, GiveUp(t) PROVE EarlyIsUnsent(u)'
  BY <1>11, SchedulerAssumption DEF GiveUp, Step, Ack, table, TableTypes, OutboundTypes,
     PollTypes, SendTypes, WorkFits, Started, InPlay, Early, EarlyIsUnclaimed,
     EarlyIsUnsent, Members, Parks
<1>12. ASSUME NEW t \in Tasks, Throttled(t) PROVE EarlyIsUnsent(u)'
  BY <1>12, SchedulerAssumption DEF Throttled, Step, table, streams, TableTypes,
     OutboundTypes, PollTypes, SendTypes, WorkFits, Started, InPlay, Early,
     EarlyIsUnclaimed, EarlyIsUnsent, Members, Parks
<1>13. ASSUME NEW t \in Tasks, Repark(t) PROVE EarlyIsUnsent(u)'
  BY SMTT(30), <1>13, SchedulerAssumption DEF Repark, Step, Park, streams, TableTypes,
     OutboundTypes, PollTypes, SendTypes, WorkFits, Started, InPlay, Early,
     EarlyIsUnclaimed, EarlyIsUnsent, Members, Parks
<1>14. ASSUME NEW t \in Tasks, Announce(t) PROVE EarlyIsUnsent(u)'
  BY <1>14, SchedulerAssumption DEF Announce, Step, table, TableTypes, OutboundTypes,
     PollTypes, SendTypes, WorkFits, Started, InPlay, Early, EarlyIsUnclaimed,
     EarlyIsUnsent, Members, Parks
<1>15. ASSUME NEW t \in Tasks, RetryDone(t) PROVE EarlyIsUnsent(u)'
  BY <1>15, SchedulerAssumption DEF RetryDone, Step, Ack, BackInLine, table, TableTypes,
     OutboundTypes, PollTypes, SendTypes, WorkFits, Started, InPlay, Early,
     EarlyIsUnclaimed, EarlyIsUnsent, Members, Parks
<1>16. ASSUME NEW t \in Tasks, DeferDone(t) PROVE EarlyIsUnsent(u)'
  BY <1>16, SchedulerAssumption DEF DeferDone, Step, Ack, BackInLine, table, TableTypes,
     OutboundTypes, PollTypes, SendTypes, WorkFits, Started, InPlay, Early,
     EarlyIsUnclaimed, EarlyIsUnsent, Members, Parks
<1>17. ASSUME NEW t \in Tasks, DeliveryCrash(t) PROVE EarlyIsUnsent(u)'
  BY <1>17, SchedulerAssumption DEF DeliveryCrash, Slip, Fault, table, streams,
     TableTypes, OutboundTypes, PollTypes, SendTypes, WorkFits, Started, InPlay, Early,
     EarlyIsUnclaimed, EarlyIsUnsent, Members, Parks
<1>18. CASE Tick
  BY <1>18, SchedulerAssumption DEF Tick, Less, streams, delivery, TableTypes,
     OutboundTypes, PollTypes, SendTypes, WorkFits, Started, InPlay, Early,
     EarlyIsUnclaimed, EarlyIsUnsent, Members, Parks
<1>19. CASE Wipe
  BY <1>19, SchedulerAssumption DEF Wipe, Slip, Fault, OnItsWay, table, TableTypes,
     OutboundTypes, PollTypes, SendTypes, WorkFits, Started, InPlay, Early,
     EarlyIsUnclaimed, EarlyIsUnsent, Members, Parks
<1> QED
  BY <1>1, <1>2, <1>3, <1>4, <1>5, <1>6, <1>7, <1>8, <1>9, <1>10, <1>11, <1>12, <1>13,
     <1>14, <1>15, <1>16, <1>17, <1>18, <1>19, DueOutboundAttemptMoves

LEMMA DueZsetMoves ==
    ASSUME [Next]_vars
    PROVE  \/ UNCHANGED <<due, zset>>
           \/ \E p \in Procs : RequeueFails(p) \/ Requeue(p) \/ Claim(p) \/ Cleanup(p)
           \/ \E t \in Tasks : EngineInsert(t) \/ Repark(t)
           \/ \E t \in Tasks, g \in Parks : Consume(t, g) \/ ConsumeCrash(t, g)
           \/ Tick \/ Wipe
BY ZenonT(30) DEF Next, EngineSkips, RebuildStep, PollStep, EngineStep, ConsumeStep, DeliveryStep,
   FaultStep, vars, table, streams, poll, delivery, history, Release, LookSentinel,
   ReadRows, Seal, LockPoll, Load, Gate, Released, Delete, Unlock, DeleteFails, PollFails,
   Crash, EngineAgain, EngineAnnounce, EngineCrash, Take, Completed, SendOk, Mark,
   MarkFails, SendFails, GiveUp, Throttled, Announce, RetryDone, DeferDone, DeliveryCrash,
   LeaseExpires, Cancel, OptOut

\* Announced or rebuilt, a member has the time of its payload.
LEMMA EarlyHiddenStep ==
    ASSUME NEW u \in Tasks, NEW m \in Members, TableTypes, ZsetTypes, PollTypes,
           Started(u), InPlay(u), EarlyIsFirst(u), EarlyIsUnsent(u), QueuedIsParked(u,
           m), \A q \in Procs : ReadIsParked(u, q), \A h \in Parks :
           AnnouncedIsParked(u, h), EarlyIsHidden(u, m),
           [Next]_vars
    PROVE  EarlyIsHidden(u, m)'
<1>1. CASE UNCHANGED <<due, zset>>
  BY <1>1 DEF TableTypes, ZsetTypes, PollTypes, Started, QueuedIsParked, ReadIsParked,
     AnnouncedIsParked, Early, EarlyIsFirst, EarlyIsUnsent, EarlyIsHidden, Members, Parks
<1>2. ASSUME NEW p \in Procs, Requeue(p) PROVE EarlyIsHidden(u, m)'
  BY <1>2, SchedulerAssumption DEF Requeue, Goto, NoWork, table, TableTypes, ZsetTypes,
     PollTypes, Started, QueuedIsParked, ReadIsParked, AnnouncedIsParked, Early,
     EarlyIsFirst, EarlyIsUnsent, EarlyIsHidden, Members, Parks
<1>3. ASSUME NEW p \in Procs, Claim(p) PROVE EarlyIsHidden(u, m)'
  <2>1. zset'[u][m] = IF zset[u][m] = 0 THEN Visibility ELSE zset[u][m]
    BY <1>3, ClaimHides
  <2>2. due' = due /\ due[u][1] \in Nat
    BY <1>3, Ranges DEF Claim, table, TableTypes
  <2> QED
    BY <2>1, <2>2 DEF EarlyIsHidden, Early
<1>4. ASSUME NEW p \in Procs, Cleanup(p) PROVE EarlyIsHidden(u, m)'
  BY <1>4, SchedulerAssumption DEF Cleanup, Goto, Slip, NoWork, TakesAnother, table,
     TableTypes, ZsetTypes, PollTypes, Started, QueuedIsParked, ReadIsParked,
     AnnouncedIsParked, Early, EarlyIsFirst, EarlyIsUnsent, EarlyIsHidden, Members, Parks
<1>5. ASSUME NEW t \in Tasks, EngineInsert(t) PROVE EarlyIsHidden(u, m)'
  <2>1. PICK n \in 1..MaxWait : Park(t, n)
    BY <1>5 DEF EngineInsert
  <2>2. u = t => parks[t] = 0
    BY <1>5 DEF EngineInsert, Started
  <2>3. zset' = zset /\ parks[t] \in Nat
    BY <1>5 DEF EngineInsert, TableTypes
  <2>4. due'[u][1] = IF u = t /\ 1 = parks[t] + 1 THEN n ELSE due[u][1]
    BY <2>1, ParkMoves, Ranges
  <2> QED
    BY <2>2, <2>3, <2>4 DEF QueuedIsParked, EarlyIsHidden, Early
<1>6. ASSUME NEW t \in Tasks, Repark(t) PROVE EarlyIsHidden(u, m)'
  <2>1. PICK n \in 1..MaxWait : Park(t, n)
    BY <1>6 DEF Repark
  <2>2. u = t => parks[t] > 0
    BY <1>6 DEF Repark, Step, InPlay
  <2>3. zset' = zset /\ parks[t] \in Nat
    BY <1>6 DEF Repark, TableTypes
  <2>4. due'[u][1] = IF u = t /\ 1 = parks[t] + 1 THEN n ELSE due[u][1]
    BY <2>1, ParkMoves, Ranges
  <2> QED
    BY <2>2, <2>3, <2>4 DEF QueuedIsParked, EarlyIsHidden, Early
<1>7. ASSUME NEW t \in Tasks, NEW g \in Parks, Consume(t, g) PROVE EarlyIsHidden(u, m)'
  <2>1. zset'[u][m] = IF u = t /\ m = g THEN due[t][g] ELSE zset[u][m]
    BY <1>7, QueueMoves DEF Consume
  <2>2. UNCHANGED <<due, parks>> /\ <<t, g>> \in scheduled
    BY <1>7 DEF Consume, table
  <2>3. due[u][1] \in Nat /\ (u = t /\ Early(u) => g = 1)
    BY <2>2, Ranges, Counts DEF AnnouncedIsParked, EarlyIsFirst, Parks
  <2> QED
    BY <2>1, <2>2, <2>3 DEF EarlyIsHidden, Early
<1>8. ASSUME NEW t \in Tasks, NEW g \in Parks, ConsumeCrash(t, g) PROVE EarlyIsHidden(u, m)'
  <2>1. zset'[u][m] = IF u = t /\ m = g THEN due[t][g] ELSE zset[u][m]
    BY <1>8, QueueMoves DEF ConsumeCrash
  <2>2. UNCHANGED <<due, parks>> /\ <<t, g>> \in scheduled
    BY <1>8 DEF ConsumeCrash, table
  <2>3. due[u][1] \in Nat /\ (u = t /\ Early(u) => g = 1)
    BY <2>2, Ranges, Counts DEF AnnouncedIsParked, EarlyIsFirst, Parks
  <2> QED
    BY <2>1, <2>2, <2>3 DEF EarlyIsHidden, Early
<1>9. CASE Tick
  <2>1. due'[u][1] = Less(due[u][1]) /\ due[u][1] \in Nat
    BY <1>9, Ranges, Counts DEF Tick
  <2>2. zset'[u][m] = Less(zset[u][m]) /\ zset[u][m] \in Int
    BY <1>9, SchedulerAssumption DEF Tick, ZsetTypes
  <2> QED
    BY <2>1, <2>2 DEF EarlyIsHidden, Early, Less
<1>10. CASE Wipe
  BY <1>10, SchedulerAssumption DEF Wipe, Slip, Fault, OnItsWay, table, TableTypes,
     ZsetTypes, PollTypes, Started, QueuedIsParked, ReadIsParked, AnnouncedIsParked,
     Early, EarlyIsFirst, EarlyIsUnsent, EarlyIsHidden, Members, Parks
<1>11. ASSUME NEW p \in Procs, RequeueFails(p) PROVE EarlyIsHidden(u, m)'
  BY <1>11, SchedulerAssumption DEF RequeueFails, Slip, Unannounced, Goto, NoWork, table,
     TableTypes, ZsetTypes, PollTypes, Started, QueuedIsParked, ReadIsParked,
     AnnouncedIsParked, Early, EarlyIsFirst, EarlyIsUnsent, EarlyIsHidden, Members, Parks
<1> QED
  BY <1>11, <1>1, <1>2, <1>3, <1>4, <1>5, <1>6, <1>7, <1>8, <1>9, <1>10, DueZsetMoves

LEMMA DueWorkMoves ==
    ASSUME [Next]_vars
    PROVE  \/ UNCHANGED <<due, work>>
           \/ \E p \in Procs, t \in Tasks : Release(p, t)
           \/ \E p \in Procs : RequeueFails(p) \/ ReadRows(p) \/ Requeue(p) \/ Claim(p) \/ Load(p) \/
                Gate(p) \/ Cleanup(p) \/ Unlock(p) \/ PollFails(p) \/ Crash(p)
           \/ \E t \in Tasks : EngineInsert(t) \/ Repark(t)
           \/ Tick
BY ZenonT(30) DEF Next, EngineSkips, RebuildStep, PollStep, EngineStep, ConsumeStep, DeliveryStep,
   FaultStep, vars, table, streams, poll, delivery, history, LookSentinel, Seal, LockPoll,
   Released, Delete, DeleteFails, EngineAgain, EngineAnnounce, EngineCrash, Take,
   Completed, SendOk, Mark, MarkFails, SendFails, GiveUp, Throttled, Announce, RetryDone,
   DeferDone, DeliveryCrash, LeaseExpires, Cancel, OptOut, Consume, ConsumeCrash, Wipe

\* A poll claims what is due.
LEMMA EarlyUnclaimedStep ==
    ASSUME NEW u \in Tasks, NEW q \in Procs, NEW m \in Members, TableTypes, PollTypes,
           Started(u), EarlyIsUnsent(u), ClaimedIsParked(u, q, m), EarlyIsHidden(u, m),
           EarlyIsUnclaimed(u, q, m),
           [Next]_vars
    PROVE  EarlyIsUnclaimed(u, q, m)'
<1>1. CASE UNCHANGED <<due, work>>
  BY <1>1 DEF TableTypes, PollTypes, Started, ClaimedIsParked, Early, EarlyIsUnsent,
     EarlyIsHidden, EarlyIsUnclaimed, Members, Parks
<1>2. ASSUME NEW p \in Procs, NEW t \in Tasks, Release(p, t) PROVE EarlyIsUnclaimed(u, q, m)'
  BY <1>2, SchedulerAssumption DEF Release, table, TableTypes, PollTypes, Started,
     ClaimedIsParked, Early, EarlyIsUnsent, EarlyIsHidden, EarlyIsUnclaimed, Members,
     Parks
<1>3. ASSUME NEW p \in Procs, ReadRows(p) PROVE EarlyIsUnclaimed(u, q, m)'
  BY <1>3, SchedulerAssumption DEF ReadRows, Goto, table, TableTypes, PollTypes, Started,
     ClaimedIsParked, Early, EarlyIsUnsent, EarlyIsHidden, EarlyIsUnclaimed, Members,
     Parks
<1>4. ASSUME NEW p \in Procs, Requeue(p) PROVE EarlyIsUnclaimed(u, q, m)'
  BY <1>4, SchedulerAssumption DEF Requeue, Goto, NoWork, table, TableTypes, PollTypes,
     Started, ClaimedIsParked, Early, EarlyIsUnsent, EarlyIsHidden, EarlyIsUnclaimed,
     Members, Parks
<1>5. ASSUME NEW p \in Procs, Claim(p) PROVE EarlyIsUnclaimed(u, q, m)'
  <2>1. work'[q].batch = IF q = p THEN DueMembers ELSE work[q].batch
    BY <1>5, ClaimTakes
  <2>2. <<u, m>> \in DueMembers => zset[u][m] = 0
    BY DEF DueMembers
  <2>3. due' = due /\ due[u][1] \in Nat
    BY <1>5, Ranges DEF Claim, table, TableTypes
  <2> QED
    BY <2>1, <2>2, <2>3 DEF EarlyIsUnclaimed, EarlyIsHidden, Early
<1>6. ASSUME NEW p \in Procs, Load(p) PROVE EarlyIsUnclaimed(u, q, m)'
  BY <1>6, SchedulerAssumption DEF Load, Goto, table, TableTypes, PollTypes, Started,
     ClaimedIsParked, Early, EarlyIsUnsent, EarlyIsHidden, EarlyIsUnclaimed, Members,
     Parks
<1>7. ASSUME NEW p \in Procs, Gate(p) PROVE EarlyIsUnclaimed(u, q, m)'
  BY <1>7, SchedulerAssumption DEF Gate, Goto, Loaded, table, TableTypes, PollTypes,
     Started, ClaimedIsParked, Early, EarlyIsUnsent, EarlyIsHidden, EarlyIsUnclaimed,
     Members, Parks
<1>8. ASSUME NEW p \in Procs, Cleanup(p) PROVE EarlyIsUnclaimed(u, q, m)'
  BY <1>8, SchedulerAssumption DEF Cleanup, Goto, Slip, NoWork, TakesAnother, table,
     TableTypes, PollTypes, Started, ClaimedIsParked, Early, EarlyIsUnsent, EarlyIsHidden,
     EarlyIsUnclaimed, Members, Parks
<1>9. ASSUME NEW p \in Procs, Unlock(p) PROVE EarlyIsUnclaimed(u, q, m)'
  BY <1>9, SchedulerAssumption DEF Unlock, Goto, NoWork, table, TableTypes, PollTypes,
     Started, ClaimedIsParked, Early, EarlyIsUnsent, EarlyIsHidden, EarlyIsUnclaimed,
     Members, Parks
<1>10. ASSUME NEW p \in Procs, PollFails(p) PROVE EarlyIsUnclaimed(u, q, m)'
  BY <1>10, SchedulerAssumption DEF PollFails, Fault, NoWork, table, TableTypes,
     PollTypes, Started, ClaimedIsParked, Early, EarlyIsUnsent, EarlyIsHidden,
     EarlyIsUnclaimed, Members, Parks
<1>11. ASSUME NEW p \in Procs, Crash(p) PROVE EarlyIsUnclaimed(u, q, m)'
  BY <1>11, SchedulerAssumption DEF Crash, Fault, NoWork, table, TableTypes, PollTypes,
     Started, ClaimedIsParked, Early, EarlyIsUnsent, EarlyIsHidden, EarlyIsUnclaimed,
     Members, Parks
<1>12. ASSUME NEW t \in Tasks, EngineInsert(t) PROVE EarlyIsUnclaimed(u, q, m)'
  BY <1>12, SchedulerAssumption DEF EngineInsert, Park, poll, TableTypes, PollTypes,
     Started, ClaimedIsParked, Early, EarlyIsUnsent, EarlyIsHidden, EarlyIsUnclaimed,
     Members, Parks
<1>13. ASSUME NEW t \in Tasks, Repark(t) PROVE EarlyIsUnclaimed(u, q, m)'
  BY <1>13, SchedulerAssumption DEF Repark, Step, Park, poll, TableTypes, PollTypes,
     Started, ClaimedIsParked, Early, EarlyIsUnsent, EarlyIsHidden, EarlyIsUnclaimed,
     Members, Parks
<1>14. CASE Tick
  BY <1>14, SchedulerAssumption DEF Tick, Less, TableTypes, PollTypes, Started,
     ClaimedIsParked, Early, EarlyIsUnsent, EarlyIsHidden, EarlyIsUnclaimed, Members,
     Parks
<1>15. ASSUME NEW p \in Procs, RequeueFails(p) PROVE EarlyIsUnclaimed(u, q, m)'
  BY <1>15, SchedulerAssumption DEF RequeueFails, Slip, Unannounced, Goto, NoWork, table,
     TableTypes, PollTypes, Started, ClaimedIsParked, Early, EarlyIsUnsent, EarlyIsHidden,
     EarlyIsUnclaimed, Members, Parks
<1> QED
  BY <1>15, <1>1, <1>2, <1>3, <1>4, <1>5, <1>6, <1>7, <1>8, <1>9, <1>10, <1>11, <1>12,
     <1>13, <1>14, DueWorkMoves

LEMMA BaseInit == Init => Base
<1> SUFFICES ASSUME Init PROVE Base
  OBVIOUS
<1>1. Types
  <2>1. TableTypes
    BY SchedulerAssumption, Ranges DEF Init, TableTypes
  <2>2. ZsetTypes
    BY Ranges DEF Init, ZsetTypes
  <2>3. PollTypes
    BY Ranges DEF Init, PollTypes, NoWork, PollSteps
  <2>4. ScheduledTypes /\ OutboundTypes
    BY SchedulerAssumption DEF Init, ScheduledTypes, OutboundTypes
  <2>5. LockTypes
    BY Ranges DEF Init, LockTypes
  <2>6. SendTypes /\ HistoryTypes
    BY SchedulerAssumption DEF Init, SendTypes, HistoryTypes
  <2> QED
    BY <2>1, <2>2, <2>3, <2>4, <2>5, <2>6 DEF Types
<1>3. ASSUME NEW q \in Procs PROVE WorkFits(q)
  BY DEF Init, WorkFits, NoWork
<1>4. ASSUME NEW u \in Tasks
      PROVE  /\ Started(u) /\ InPlay(u) /\ RowIsLatest(u) /\ EarlyIsFirst(u) /\ EarlyIsUnsent(u)
             /\ \A g \in Members : QueuedIsParked(u, g) /\ EarlyIsHidden(u, g)
             /\ \A g \in Parks : AnnouncedIsParked(u, g)
             /\ \A q \in Procs : ReadIsParked(u, q)
             /\ \A q \in Procs, g \in Members :
                   ClaimedIsParked(u, q, g) /\ EarlyIsUnclaimed(u, q, g)
  BY Ranges DEF Init, NoWork, Started, InPlay, RowIsLatest, Early, EarlyIsFirst,
     EarlyIsUnsent, QueuedIsParked, EarlyIsHidden, AnnouncedIsParked, ReadIsParked,
     ClaimedIsParked, EarlyIsUnclaimed
<1> QED
  BY <1>1, <1>3, <1>4 DEF Base

LEMMA BaseStep == Base /\ [Next]_vars => Base'
<1> SUFFICES ASSUME Base, [Next]_vars PROVE Base'
  OBVIOUS
<1>1. Types'
  BY TableTypesStep, ZsetTypesStep, ScheduledTypesStep, OutboundTypesStep, LockTypesStep,
     PollTypesStep, SendTypesStep, HistoryTypesStep DEF Base, Types
<1>2. ASSUME NEW q \in Procs PROVE WorkFits(q)'
  BY WorkStep DEF Base, Types
<1>3. ASSUME NEW u \in Tasks
      PROVE  /\ Started(u)' /\ InPlay(u)' /\ RowIsLatest(u)' /\ EarlyIsFirst(u)'
             /\ EarlyIsUnsent(u)'
  BY StartedStep, InPlayStep, RowStep, EarlyFirstStep, EarlyUnsentStep DEF Base, Types
<1>4. ASSUME NEW u \in Tasks, NEW g \in Members PROVE QueuedIsParked(u, g)' /\ EarlyIsHidden(u, g)'
  BY QueuedStep, EarlyHiddenStep DEF Base, Types
<1>5. ASSUME NEW u \in Tasks, NEW g \in Parks PROVE AnnouncedIsParked(u, g)'
  BY AnnouncedStep DEF Base, Types
<1>6. ASSUME NEW u \in Tasks, NEW q \in Procs PROVE ReadIsParked(u, q)'
  BY ReadStep DEF Base, Types
<1>7. ASSUME NEW u \in Tasks, NEW q \in Procs, NEW g \in Members
      PROVE  ClaimedIsParked(u, q, g)' /\ EarlyIsUnclaimed(u, q, g)'
  BY ClaimedStep, EarlyUnclaimedStep DEF Base, Types
<1> QED
  BY <1>1, <1>2, <1>3, <1>4, <1>5, <1>6, <1>7 DEF Base

LEMMA BaseHolds == Spec => []Base
<1> QED
  BY BaseInit, BaseStep, PTL DEF Spec

\* The type invariant of Scheduler: a park that is announced, queued, claimed or
\* read has been made, and every score and count keeps its range.
THEOREM ParksTyped == Spec => []TypeOK
<1>1. Base => TypeOK
  BY DEF Base, Types, TableTypes, ZsetTypes, ScheduledTypes, OutboundTypes, LockTypes,
     PollTypes, SendTypes, HistoryTypes, TypeOK
<1> QED
  BY <1>1, BaseHolds, PTL

\* The first park of a task is released when it is due and not before, from an
\* announcement or from a rebuild (scheduler/main.ts:297): what a poll sends it
\* has claimed, and what it claimed was due.
THEOREM NeverEarly == Spec => NotEarly
<1>1. ASSUME Base, NEW p \in Procs, NEW t \in Tasks, t \in work[p].send PROVE due[t][1] = 0
  <2>1. PICK g \in Members : <<t, g>> \in work[p].batch
    BY <1>1 DEF Base, WorkFits
  <2>2. ~Early(t)
    BY <1>1, <2>1 DEF Base, EarlyIsUnclaimed
  <2> QED
    BY <1>1, <2>2, Counts, Ranges DEF Base, Types, Early
<1>2. Base => \A p \in Procs, t \in Tasks :
                ((t \in work[p].send /\ outbound'[t] > outbound[t] /\ work[p].got[t] = 1)
                   => due[t][1] = 0)
  BY <1>1
<1> QED
  BY <1>2, BaseHolds, PTL DEF NotEarly

-----------------------------------------------------------------------------
(* A send is accepted once.                                                *)

LEMMA AttemptLeaseSentMoves ==
    ASSUME [Next]_vars
    PROVE  \/ UNCHANGED <<attempt, lease, sent>>
           \/ \E t \in Tasks : Take(t) \/ SendOk(t) \/ Mark(t) \/ MarkFails(t) \/
                SendFails(t) \/ GiveUp(t) \/ Throttled(t) \/ Repark(t) \/ Announce(t) \/
                RetryDone(t) \/ DeferDone(t) \/ DeliveryCrash(t) \/ LeaseExpires(t)
           \/ Wipe
BY ZenonT(30) DEF Next, EngineSkips, RequeueFails, RebuildStep, PollStep, EngineStep, ConsumeStep,
   DeliveryStep, FaultStep, vars, table, streams, poll, delivery, history, Release,
   LookSentinel, ReadRows, Requeue, Seal, LockPoll, Claim, Load, Gate, Released, Delete,
   Cleanup, Unlock, DeleteFails, PollFails, Crash, EngineInsert, EngineAgain,
   EngineAnnounce, EngineCrash, Completed, Cancel, OptOut, Consume, ConsumeCrash, Tick

\* A mark follows an acceptance.
LEMMA SentKnownStep ==
    ASSUME NEW u \in Tasks, SendTypes, HistoryTypes, SentIsKnown(u),
           [Next]_vars
    PROVE  SentIsKnown(u)'
<1>1. CASE UNCHANGED <<attempt, lease, sent>>
  BY <1>1 DEF SendTypes, HistoryTypes, SentIsKnown
<1>2. ASSUME NEW t \in Tasks, Take(t) PROVE SentIsKnown(u)'
  BY <1>2, SchedulerAssumption DEF Take, Step, history, SendTypes, HistoryTypes,
     SentIsKnown
<1>3. ASSUME NEW t \in Tasks, SendOk(t) PROVE SentIsKnown(u)'
  BY <1>3, SchedulerAssumption DEF SendOk, Step, SendTypes, HistoryTypes, SentIsKnown
<1>4. ASSUME NEW t \in Tasks, Mark(t) PROVE SentIsKnown(u)'
  BY <1>4, SchedulerAssumption DEF Mark, Step, Ack, history, SendTypes, HistoryTypes,
     SentIsKnown
<1>5. ASSUME NEW t \in Tasks, MarkFails(t) PROVE SentIsKnown(u)'
  BY <1>5, SchedulerAssumption DEF MarkFails, Step, Ack, Slip, Fault, SendTypes,
     HistoryTypes, SentIsKnown
<1>6. ASSUME NEW t \in Tasks, SendFails(t) PROVE SentIsKnown(u)'
  BY <1>6, SchedulerAssumption DEF SendFails, Step, history, SendTypes, HistoryTypes,
     SentIsKnown
<1>7. ASSUME NEW t \in Tasks, GiveUp(t) PROVE SentIsKnown(u)'
  BY <1>7, SchedulerAssumption DEF GiveUp, Step, Ack, SendTypes, HistoryTypes, SentIsKnown
<1>8. ASSUME NEW t \in Tasks, Throttled(t) PROVE SentIsKnown(u)'
  BY <1>8, SchedulerAssumption DEF Throttled, Step, history, SendTypes, HistoryTypes,
     SentIsKnown
<1>9. ASSUME NEW t \in Tasks, Repark(t) PROVE SentIsKnown(u)'
  BY <1>9, SchedulerAssumption DEF Repark, Step, Park, history, SendTypes, HistoryTypes,
     SentIsKnown
<1>10. ASSUME NEW t \in Tasks, Announce(t) PROVE SentIsKnown(u)'
  BY <1>10, SchedulerAssumption DEF Announce, Step, history, SendTypes, HistoryTypes,
     SentIsKnown
<1>11. ASSUME NEW t \in Tasks, RetryDone(t) PROVE SentIsKnown(u)'
  BY <1>11, SchedulerAssumption DEF RetryDone, Step, Ack, BackInLine, SendTypes,
     HistoryTypes, SentIsKnown
<1>12. ASSUME NEW t \in Tasks, DeferDone(t) PROVE SentIsKnown(u)'
  BY <1>12, SchedulerAssumption DEF DeferDone, Step, Ack, BackInLine, SendTypes,
     HistoryTypes, SentIsKnown
<1>13. ASSUME NEW t \in Tasks, DeliveryCrash(t) PROVE SentIsKnown(u)'
  BY <1>13, SchedulerAssumption DEF DeliveryCrash, Slip, Fault, SendTypes, HistoryTypes,
     SentIsKnown
<1>14. ASSUME NEW t \in Tasks, LeaseExpires(t) PROVE SentIsKnown(u)'
  BY <1>14, SchedulerAssumption DEF LeaseExpires, Holding, history, SendTypes,
     HistoryTypes, SentIsKnown
<1>15. CASE Wipe
  BY <1>15, SchedulerAssumption DEF Wipe, Slip, Fault, OnItsWay, Members, SendTypes,
     HistoryTypes, SentIsKnown
<1> QED
  BY <1>1, <1>2, <1>3, <1>4, <1>5, <1>6, <1>7, <1>8, <1>9, <1>10, <1>11, <1>12, <1>13,
     <1>14, <1>15, AttemptLeaseSentMoves

LEMMA AttemptLeaseSentSlipsMoves ==
    ASSUME [Next]_vars
    PROVE  \/ UNCHANGED <<attempt, lease, sent, slips>>
           \/ \E p \in Procs : RequeueFails(p) \/ Cleanup(p)
           \/ \E t \in Tasks : EngineSkips(t) \/ EngineCrash(t) \/ Take(t) \/ SendOk(t) \/ Mark(t) \/
                MarkFails(t) \/ SendFails(t) \/ GiveUp(t) \/ Throttled(t) \/ Repark(t) \/
                Announce(t) \/ RetryDone(t) \/ DeferDone(t) \/ DeliveryCrash(t) \/
                LeaseExpires(t) \/ Cancel(t) \/ OptOut(t)
           \/ Wipe
BY ZenonT(30) DEF Next, RebuildStep, PollStep, EngineStep, ConsumeStep, DeliveryStep, FaultStep,
   vars, table, streams, poll, delivery, history, Release, LookSentinel, ReadRows,
   Requeue, Seal, LockPoll, Claim, Load, Gate, Released, Delete, Unlock, DeleteFails,
   PollFails, Crash, EngineInsert, EngineAgain, EngineAnnounce, Completed, Consume,
   ConsumeCrash, Tick

\* Only who holds the lease sends, and a completed key is never taken again.
LEMMA LeaseStep ==
    ASSUME NEW u \in Tasks, SendTypes, HistoryTypes, SentIsKnown(u), LeaseHeld(u),
           [Next]_vars
    PROVE  LeaseHeld(u)'
<1>1. CASE UNCHANGED <<attempt, lease, sent, slips>>
  BY <1>1 DEF SendTypes, HistoryTypes, SentIsKnown, LeaseHeld, Holding, Slipped
<1>2. ASSUME NEW p \in Procs, Cleanup(p) PROVE LeaseHeld(u)'
  BY <1>2, SchedulerAssumption DEF Cleanup, Goto, Slip, NoWork, TakesAnother, Members,
     delivery, SendTypes, HistoryTypes, SentIsKnown, LeaseHeld, Holding, Slipped
<1>3. ASSUME NEW t \in Tasks, EngineCrash(t) PROVE LeaseHeld(u)'
  BY <1>3, SchedulerAssumption DEF EngineCrash, Slip, Fault, delivery, SendTypes,
     HistoryTypes, SentIsKnown, LeaseHeld, Holding, Slipped
<1>4. ASSUME NEW t \in Tasks, Take(t) PROVE LeaseHeld(u)'
  BY <1>4, SchedulerAssumption DEF Take, Step, history, SendTypes, HistoryTypes,
     SentIsKnown, LeaseHeld, Holding, Slipped
<1>5. ASSUME NEW t \in Tasks, SendOk(t) PROVE LeaseHeld(u)'
  BY <1>5, SchedulerAssumption DEF SendOk, Step, SendTypes, HistoryTypes, SentIsKnown,
     LeaseHeld, Holding, Slipped
<1>6. ASSUME NEW t \in Tasks, Mark(t) PROVE LeaseHeld(u)'
  BY <1>6, SchedulerAssumption DEF Mark, Step, Ack, history, SendTypes, HistoryTypes,
     SentIsKnown, LeaseHeld, Holding, Slipped
<1>7. ASSUME NEW t \in Tasks, MarkFails(t) PROVE LeaseHeld(u)'
  BY <1>7, SchedulerAssumption DEF MarkFails, Step, Ack, Slip, Fault, SendTypes,
     HistoryTypes, SentIsKnown, LeaseHeld, Holding, Slipped
<1>8. ASSUME NEW t \in Tasks, SendFails(t) PROVE LeaseHeld(u)'
  BY <1>8, SchedulerAssumption DEF SendFails, Step, history, SendTypes, HistoryTypes,
     SentIsKnown, LeaseHeld, Holding, Slipped
<1>9. ASSUME NEW t \in Tasks, GiveUp(t) PROVE LeaseHeld(u)'
  BY <1>9, SchedulerAssumption DEF GiveUp, Step, Ack, SendTypes, HistoryTypes,
     SentIsKnown, LeaseHeld, Holding, Slipped
<1>10. ASSUME NEW t \in Tasks, Throttled(t) PROVE LeaseHeld(u)'
  BY <1>10, SchedulerAssumption DEF Throttled, Step, history, SendTypes, HistoryTypes,
     SentIsKnown, LeaseHeld, Holding, Slipped
<1>11. ASSUME NEW t \in Tasks, Repark(t) PROVE LeaseHeld(u)'
  BY <1>11, SchedulerAssumption DEF Repark, Step, Park, history, SendTypes, HistoryTypes,
     SentIsKnown, LeaseHeld, Holding, Slipped
<1>12. ASSUME NEW t \in Tasks, Announce(t) PROVE LeaseHeld(u)'
  BY <1>12, SchedulerAssumption DEF Announce, Step, history, SendTypes, HistoryTypes,
     SentIsKnown, LeaseHeld, Holding, Slipped
<1>13. ASSUME NEW t \in Tasks, RetryDone(t) PROVE LeaseHeld(u)'
  BY <1>13, SchedulerAssumption DEF RetryDone, Step, Ack, BackInLine, SendTypes,
     HistoryTypes, SentIsKnown, LeaseHeld, Holding, Slipped
<1>14. ASSUME NEW t \in Tasks, DeferDone(t) PROVE LeaseHeld(u)'
  BY <1>14, SchedulerAssumption DEF DeferDone, Step, Ack, BackInLine, SendTypes,
     HistoryTypes, SentIsKnown, LeaseHeld, Holding, Slipped
<1>15. ASSUME NEW t \in Tasks, DeliveryCrash(t) PROVE LeaseHeld(u)'
  BY <1>15, SchedulerAssumption DEF DeliveryCrash, Slip, Fault, SendTypes, HistoryTypes,
     SentIsKnown, LeaseHeld, Holding, Slipped
<1>16. ASSUME NEW t \in Tasks, LeaseExpires(t) PROVE LeaseHeld(u)'
  BY <1>16, SchedulerAssumption DEF LeaseExpires, history, SendTypes, HistoryTypes,
     SentIsKnown, LeaseHeld, Holding, Slipped
<1>17. ASSUME NEW t \in Tasks, Cancel(t) PROVE LeaseHeld(u)'
  BY <1>17, SchedulerAssumption DEF Cancel, Slip, Loaded, OnItsWay, delivery, SendTypes,
     HistoryTypes, SentIsKnown, LeaseHeld, Holding, Slipped
<1>18. ASSUME NEW t \in Tasks, OptOut(t) PROVE LeaseHeld(u)'
  BY <1>18, SchedulerAssumption DEF OptOut, Slip, OnItsWay, delivery, SendTypes,
     HistoryTypes, SentIsKnown, LeaseHeld, Holding, Slipped
<1>19. CASE Wipe
  BY <1>19, SchedulerAssumption DEF Wipe, Slip, Fault, OnItsWay, Members, SendTypes,
     HistoryTypes, SentIsKnown, LeaseHeld, Holding, Slipped
<1>20. ASSUME NEW t \in Tasks, EngineSkips(t) PROVE LeaseHeld(u)'
  BY <1>20, SchedulerAssumption DEF EngineSkips, Slip, Unannounced, Fault, delivery,
     SendTypes, HistoryTypes, SentIsKnown, LeaseHeld, Holding, Slipped
<1>21. ASSUME NEW p \in Procs, RequeueFails(p) PROVE LeaseHeld(u)'
  BY <1>21, SchedulerAssumption DEF RequeueFails, Slip, Unannounced, Goto, NoWork,
     TakesAnother, Members, delivery, SendTypes, HistoryTypes, SentIsKnown, LeaseHeld,
     Holding, Slipped
<1> QED
  BY <1>20, <1>21, <1>1, <1>2, <1>3, <1>4, <1>5, <1>6, <1>7, <1>8, <1>9, <1>10, <1>11,
     <1>12, <1>13, <1>14, <1>15, <1>16, <1>17, <1>18, <1>19, AttemptLeaseSentSlipsMoves

\* The provider accepts a send once, however often two polls, a rebuild or the
\* engine release it, unless its mark was not set or was lost with Redis.
THEOREM SentJustOnce == Spec => []SentOnce
<1> DEFINE Inv == Base /\ \A u \in Tasks : SentIsKnown(u) /\ LeaseHeld(u)
<1>1. Init => Inv
  BY BaseInit DEF Init, SentIsKnown, LeaseHeld, Holding
<1>2. Inv /\ [Next]_vars => Inv'
  BY BaseStep, SentKnownStep, LeaseStep DEF Base, Types
<1>3. Inv => SentOnce
  <2> SUFFICES ASSUME Inv, NEW t \in Tasks PROVE sent[t] <= 1 \/ Slipped(t, {"unmarked", "wiped"})
    BY DEF SentOnce
  <2>1. sent[t] \in Nat
    BY DEF Base, Types, HistoryTypes
  <2> QED
    BY <2>1 DEF LeaseHeld
<1> QED
  BY <1>1, <1>2, <1>3, PTL DEF Spec

-----------------------------------------------------------------------------
(* A cancel and an opt-out hold.                                           *)

LEMMA EngineSlipsMoves ==
    ASSUME [Next]_vars
    PROVE  \/ UNCHANGED <<engine, slips>>
           \/ \E p \in Procs : RequeueFails(p) \/ Cleanup(p)
           \/ \E t \in Tasks : EngineSkips(t) \/ EngineInsert(t) \/ EngineAgain(t) \/ EngineAnnounce(t) \/
                EngineCrash(t) \/ MarkFails(t) \/ RetryDone(t) \/ DeferDone(t) \/
                DeliveryCrash(t) \/ Cancel(t) \/ OptOut(t)
           \/ Wipe
BY ZenonT(30) DEF Next, RebuildStep, PollStep, EngineStep, ConsumeStep, DeliveryStep, FaultStep,
   vars, table, streams, poll, delivery, history, Release, LookSentinel, ReadRows,
   Requeue, Seal, LockPoll, Claim, Load, Gate, Released, Delete, Unlock, DeleteFails,
   PollFails, Crash, Take, Completed, SendOk, Mark, SendFails, GiveUp, Throttled, Repark,
   Announce, LeaseExpires, Consume, ConsumeCrash, Tick

\* The engine's event is redelivered after a crash of its process only.
LEMMA AgainStep ==
    ASSUME NEW u \in Tasks, SendTypes, HistoryTypes, AgainIsKnown(u),
           [Next]_vars
    PROVE  AgainIsKnown(u)'
<1>1. CASE UNCHANGED <<engine, slips>>
  BY <1>1 DEF SendTypes, HistoryTypes, AgainIsKnown, Slipped
<1>2. ASSUME NEW p \in Procs, Cleanup(p) PROVE AgainIsKnown(u)'
  BY <1>2, SchedulerAssumption DEF Cleanup, Goto, Slip, NoWork, TakesAnother, Members,
     SendTypes, HistoryTypes, AgainIsKnown, Slipped
<1>3. ASSUME NEW t \in Tasks, EngineInsert(t) PROVE AgainIsKnown(u)'
  BY <1>3, SchedulerAssumption DEF EngineInsert, Park, history, SendTypes, HistoryTypes,
     AgainIsKnown, Slipped
<1>4. ASSUME NEW t \in Tasks, EngineAgain(t) PROVE AgainIsKnown(u)'
  BY <1>4, SchedulerAssumption DEF EngineAgain, history, SendTypes, HistoryTypes,
     AgainIsKnown, Slipped
<1>5. ASSUME NEW t \in Tasks, EngineAnnounce(t) PROVE AgainIsKnown(u)'
  BY <1>5, SchedulerAssumption DEF EngineAnnounce, history, SendTypes, HistoryTypes,
     AgainIsKnown, Slipped
<1>6. ASSUME NEW t \in Tasks, EngineCrash(t) PROVE AgainIsKnown(u)'
  BY <1>6, SchedulerAssumption DEF EngineCrash, Slip, Fault, SendTypes, HistoryTypes,
     AgainIsKnown, Slipped
<1>7. ASSUME NEW t \in Tasks, MarkFails(t) PROVE AgainIsKnown(u)'
  BY <1>7, SchedulerAssumption DEF MarkFails, Step, Ack, Slip, Fault, SendTypes,
     HistoryTypes, AgainIsKnown, Slipped
<1>8. ASSUME NEW t \in Tasks, RetryDone(t) PROVE AgainIsKnown(u)'
  BY <1>8, SchedulerAssumption DEF RetryDone, Step, Ack, BackInLine, SendTypes,
     HistoryTypes, AgainIsKnown, Slipped
<1>9. ASSUME NEW t \in Tasks, DeferDone(t) PROVE AgainIsKnown(u)'
  BY <1>9, SchedulerAssumption DEF DeferDone, Step, Ack, BackInLine, SendTypes,
     HistoryTypes, AgainIsKnown, Slipped
<1>10. ASSUME NEW t \in Tasks, DeliveryCrash(t) PROVE AgainIsKnown(u)'
  BY <1>10, SchedulerAssumption DEF DeliveryCrash, Slip, Fault, SendTypes, HistoryTypes,
     AgainIsKnown, Slipped
<1>11. ASSUME NEW t \in Tasks, Cancel(t) PROVE AgainIsKnown(u)'
  BY <1>11, SchedulerAssumption DEF Cancel, Slip, Loaded, OnItsWay, SendTypes,
     HistoryTypes, AgainIsKnown, Slipped
<1>12. ASSUME NEW t \in Tasks, OptOut(t) PROVE AgainIsKnown(u)'
  BY <1>12, SchedulerAssumption DEF OptOut, Slip, OnItsWay, SendTypes, HistoryTypes,
     AgainIsKnown, Slipped
<1>13. CASE Wipe
  BY <1>13, SchedulerAssumption DEF Wipe, Slip, Fault, OnItsWay, Members, SendTypes,
     HistoryTypes, AgainIsKnown, Slipped
<1>14. ASSUME NEW t \in Tasks, EngineSkips(t) PROVE AgainIsKnown(u)'
  BY <1>14, SchedulerAssumption DEF EngineSkips, Slip, Unannounced, Fault, SendTypes,
     HistoryTypes, AgainIsKnown, Slipped
<1>15. ASSUME NEW p \in Procs, RequeueFails(p) PROVE AgainIsKnown(u)'
  BY <1>15, SchedulerAssumption DEF RequeueFails, Slip, Unannounced, Goto, NoWork,
     TakesAnother, Members, SendTypes, HistoryTypes, AgainIsKnown, Slipped
<1> QED
  BY <1>14, <1>15, <1>1, <1>2, <1>3, <1>4, <1>5, <1>6, <1>7, <1>8, <1>9, <1>10, <1>11,
     <1>12, <1>13, EngineSlipsMoves

LEMMA ParksRowOutboundAttemptPcWorkEndedSlipsMoves ==
    ASSUME [Next]_vars
    PROVE  \/ UNCHANGED <<parks, row, outbound, attempt, pc, work, ended, slips>>
           \/ \E p \in Procs, t \in Tasks : Release(p, t)
           \/ \E p \in Procs : RequeueFails(p) \/ LookSentinel(p) \/ ReadRows(p) \/ Requeue(p) \/ Seal(p) \/
                LockPoll(p) \/ Claim(p) \/ Load(p) \/ Gate(p) \/ Released(p) \/ Delete(p) \/
                Cleanup(p) \/ Unlock(p) \/ DeleteFails(p) \/ PollFails(p) \/ Crash(p)
           \/ \E t \in Tasks : EngineSkips(t) \/ EngineInsert(t) \/ EngineAgain(t) \/ EngineCrash(t) \/
                Take(t) \/ Completed(t) \/ SendOk(t) \/ Mark(t) \/ MarkFails(t) \/
                SendFails(t) \/ GiveUp(t) \/ Throttled(t) \/ Repark(t) \/ Announce(t) \/
                RetryDone(t) \/ DeferDone(t) \/ DeliveryCrash(t) \/ Cancel(t) \/ OptOut(t)
           \/ Wipe
BY DEF Next, RebuildStep, PollStep, EngineStep, ConsumeStep, DeliveryStep, FaultStep,
   vars, table, streams, poll, delivery, history, EngineAnnounce, LeaseExpires, Consume,
   ConsumeCrash, Tick

\* What a cancel finds in the table only is gone with it.
LEMMA CanceledStep ==
    ASSUME NEW u \in Tasks, TableTypes, OutboundTypes, PollTypes, SendTypes,
           HistoryTypes, \A q \in Procs : WorkFits(q), Started(u), InPlay(u),
           RowIsLatest(u), AgainIsKnown(u), CanceledIsGone(u),
           [Next]_vars
    PROVE  CanceledIsGone(u)'
<1>1. CASE UNCHANGED <<parks, row, outbound, attempt, pc, work, ended, slips>>
  BY <1>1 DEF TableTypes, OutboundTypes, PollTypes, SendTypes, HistoryTypes, WorkFits,
     Started, InPlay, RowIsLatest, AgainIsKnown, CanceledIsGone, Slipped, Members, Parks
<1>2. ASSUME NEW p \in Procs, NEW t \in Tasks, Release(p, t) PROVE CanceledIsGone(u)'
  BY SMTT(30), <1>2, SchedulerAssumption DEF Release, table, delivery, history, TableTypes,
     OutboundTypes, PollTypes, SendTypes, HistoryTypes, WorkFits, Started, InPlay,
     RowIsLatest, AgainIsKnown, CanceledIsGone, Slipped, Members, Parks
<1>3. ASSUME NEW p \in Procs, LookSentinel(p) PROVE CanceledIsGone(u)'
  BY <1>3, SchedulerAssumption DEF LookSentinel, Goto, table, streams, delivery, history,
     TableTypes, OutboundTypes, PollTypes, SendTypes, HistoryTypes, WorkFits, Started,
     InPlay, RowIsLatest, AgainIsKnown, CanceledIsGone, Slipped, Members, Parks
<1>4. ASSUME NEW p \in Procs, ReadRows(p) PROVE CanceledIsGone(u)'
  BY <1>4, SchedulerAssumption DEF ReadRows, Goto, table, streams, delivery, history,
     TableTypes, OutboundTypes, PollTypes, SendTypes, HistoryTypes, WorkFits, Started,
     InPlay, RowIsLatest, AgainIsKnown, CanceledIsGone, Slipped, Members, Parks
<1>5. ASSUME NEW p \in Procs, Requeue(p) PROVE CanceledIsGone(u)'
  BY <1>5, SchedulerAssumption DEF Requeue, Goto, NoWork, table, streams, delivery,
     history, TableTypes, OutboundTypes, PollTypes, SendTypes, HistoryTypes, WorkFits,
     Started, InPlay, RowIsLatest, AgainIsKnown, CanceledIsGone, Slipped, Members, Parks
<1>6. ASSUME NEW p \in Procs, Seal(p) PROVE CanceledIsGone(u)'
  BY <1>6, SchedulerAssumption DEF Seal, Goto, table, streams, delivery, history,
     TableTypes, OutboundTypes, PollTypes, SendTypes, HistoryTypes, WorkFits, Started,
     InPlay, RowIsLatest, AgainIsKnown, CanceledIsGone, Slipped, Members, Parks
<1>7. ASSUME NEW p \in Procs, LockPoll(p) PROVE CanceledIsGone(u)'
  BY <1>7, SchedulerAssumption DEF LockPoll, Goto, table, streams, delivery, history,
     TableTypes, OutboundTypes, PollTypes, SendTypes, HistoryTypes, WorkFits, Started,
     InPlay, RowIsLatest, AgainIsKnown, CanceledIsGone, Slipped, Members, Parks
<1>8. ASSUME NEW p \in Procs, Claim(p) PROVE CanceledIsGone(u)'
  BY <1>8, SchedulerAssumption DEF Claim, Goto, Hide, DueMembers, NoWork, table, streams,
     delivery, history, TableTypes, OutboundTypes, PollTypes, SendTypes, HistoryTypes,
     WorkFits, Started, InPlay, RowIsLatest, AgainIsKnown, CanceledIsGone, Slipped,
     Members, Parks
<1>9. ASSUME NEW p \in Procs, Load(p) PROVE CanceledIsGone(u)'
  BY <1>9, SchedulerAssumption DEF Load, Goto, table, streams, delivery, history,
     TableTypes, OutboundTypes, PollTypes, SendTypes, HistoryTypes, WorkFits, Started,
     InPlay, RowIsLatest, AgainIsKnown, CanceledIsGone, Slipped, Members, Parks
<1>10. ASSUME NEW p \in Procs, Gate(p) PROVE CanceledIsGone(u)'
  BY <1>10, SchedulerAssumption DEF Gate, Goto, Loaded, table, streams, delivery,
     TableTypes, OutboundTypes, PollTypes, SendTypes, HistoryTypes, WorkFits, Started,
     InPlay, RowIsLatest, AgainIsKnown, CanceledIsGone, Slipped, Members, Parks
<1>11. ASSUME NEW p \in Procs, Released(p) PROVE CanceledIsGone(u)'
  BY <1>11, SchedulerAssumption DEF Released, Goto, table, streams, delivery, history,
     TableTypes, OutboundTypes, PollTypes, SendTypes, HistoryTypes, WorkFits, Started,
     InPlay, RowIsLatest, AgainIsKnown, CanceledIsGone, Slipped, Members, Parks
<1>12. ASSUME NEW p \in Procs, Delete(p) PROVE CanceledIsGone(u)'
  BY <1>12, SchedulerAssumption DEF Delete, Goto, streams, delivery, history, TableTypes,
     OutboundTypes, PollTypes, SendTypes, HistoryTypes, WorkFits, Started, InPlay,
     RowIsLatest, AgainIsKnown, CanceledIsGone, Slipped, Members, Parks
<1>13. ASSUME NEW p \in Procs, Cleanup(p) PROVE CanceledIsGone(u)'
  BY <1>13, SchedulerAssumption DEF Cleanup, Goto, Slip, NoWork, TakesAnother, table,
     streams, delivery, TableTypes, OutboundTypes, PollTypes, SendTypes, HistoryTypes,
     WorkFits, Started, InPlay, RowIsLatest, AgainIsKnown, CanceledIsGone, Slipped,
     Members, Parks
<1>14. ASSUME NEW p \in Procs, Unlock(p) PROVE CanceledIsGone(u)'
  BY <1>14, SchedulerAssumption DEF Unlock, Goto, NoWork, table, streams, delivery,
     history, TableTypes, OutboundTypes, PollTypes, SendTypes, HistoryTypes, WorkFits,
     Started, InPlay, RowIsLatest, AgainIsKnown, CanceledIsGone, Slipped, Members, Parks
<1>15. ASSUME NEW p \in Procs, DeleteFails(p) PROVE CanceledIsGone(u)'
  BY <1>15, SchedulerAssumption DEF DeleteFails, Goto, Fault, table, streams, delivery,
     history, TableTypes, OutboundTypes, PollTypes, SendTypes, HistoryTypes, WorkFits,
     Started, InPlay, RowIsLatest, AgainIsKnown, CanceledIsGone, Slipped, Members, Parks
<1>16. ASSUME NEW p \in Procs, PollFails(p) PROVE CanceledIsGone(u)'
  BY <1>16, SchedulerAssumption DEF PollFails, Fault, NoWork, table, streams, delivery,
     history, TableTypes, OutboundTypes, PollTypes, SendTypes, HistoryTypes, WorkFits,
     Started, InPlay, RowIsLatest, AgainIsKnown, CanceledIsGone, Slipped, Members, Parks
<1>17. ASSUME NEW p \in Procs, Crash(p) PROVE CanceledIsGone(u)'
  BY <1>17, SchedulerAssumption DEF Crash, Fault, NoWork, table, streams, delivery,
     history, TableTypes, OutboundTypes, PollTypes, SendTypes, HistoryTypes, WorkFits,
     Started, InPlay, RowIsLatest, AgainIsKnown, CanceledIsGone, Slipped, Members, Parks
<1>18. ASSUME NEW t \in Tasks, EngineInsert(t) PROVE CanceledIsGone(u)'
  BY <1>18, SchedulerAssumption DEF EngineInsert, Park, streams, poll, delivery, history,
     TableTypes, OutboundTypes, PollTypes, SendTypes, HistoryTypes, WorkFits, Started,
     InPlay, RowIsLatest, AgainIsKnown, CanceledIsGone, Slipped, Members, Parks
<1>19. ASSUME NEW t \in Tasks, EngineAgain(t) PROVE CanceledIsGone(u)'
  BY <1>19, SchedulerAssumption DEF EngineAgain, poll, delivery, history, TableTypes,
     OutboundTypes, PollTypes, SendTypes, HistoryTypes, WorkFits, Started, InPlay,
     RowIsLatest, AgainIsKnown, CanceledIsGone, Slipped, Members, Parks
<1>20. ASSUME NEW t \in Tasks, EngineCrash(t) PROVE CanceledIsGone(u)'
  BY <1>20, SchedulerAssumption DEF EngineCrash, Slip, Fault, table, streams, poll,
     delivery, TableTypes, OutboundTypes, PollTypes, SendTypes, HistoryTypes, WorkFits,
     Started, InPlay, RowIsLatest, AgainIsKnown, CanceledIsGone, Slipped, Members, Parks
<1>21. ASSUME NEW t \in Tasks, Take(t) PROVE CanceledIsGone(u)'
  BY <1>21, SchedulerAssumption DEF Take, Step, table, streams, poll, history, TableTypes,
     OutboundTypes, PollTypes, SendTypes, HistoryTypes, WorkFits, Started, InPlay,
     RowIsLatest, AgainIsKnown, CanceledIsGone, Slipped, Members, Parks
<1>22. ASSUME NEW t \in Tasks, Completed(t) PROVE CanceledIsGone(u)'
  BY <1>22, SchedulerAssumption DEF Completed, Ack, table, poll, delivery, history,
     TableTypes, OutboundTypes, PollTypes, SendTypes, HistoryTypes, WorkFits, Started,
     InPlay, RowIsLatest, AgainIsKnown, CanceledIsGone, Slipped, Members, Parks
<1>23. ASSUME NEW t \in Tasks, SendOk(t) PROVE CanceledIsGone(u)'
  BY <1>23, SchedulerAssumption DEF SendOk, Step, table, streams, poll, TableTypes,
     OutboundTypes, PollTypes, SendTypes, HistoryTypes, WorkFits, Started, InPlay,
     RowIsLatest, AgainIsKnown, CanceledIsGone, Slipped, Members, Parks
<1>24. ASSUME NEW t \in Tasks, Mark(t) PROVE CanceledIsGone(u)'
  BY <1>24, SchedulerAssumption DEF Mark, Step, Ack, table, poll, history, TableTypes,
     OutboundTypes, PollTypes, SendTypes, HistoryTypes, WorkFits, Started, InPlay,
     RowIsLatest, AgainIsKnown, CanceledIsGone, Slipped, Members, Parks
<1>25. ASSUME NEW t \in Tasks, MarkFails(t) PROVE CanceledIsGone(u)'
  BY <1>25, SchedulerAssumption DEF MarkFails, Step, Ack, Slip, Fault, table, poll,
     TableTypes, OutboundTypes, PollTypes, SendTypes, HistoryTypes, WorkFits, Started,
     InPlay, RowIsLatest, AgainIsKnown, CanceledIsGone, Slipped, Members, Parks
<1>26. ASSUME NEW t \in Tasks, SendFails(t) PROVE CanceledIsGone(u)'
  BY <1>26, SchedulerAssumption DEF SendFails, Step, table, streams, poll, history,
     TableTypes, OutboundTypes, PollTypes, SendTypes, HistoryTypes, WorkFits, Started,
     InPlay, RowIsLatest, AgainIsKnown, CanceledIsGone, Slipped, Members, Parks
<1>27. ASSUME NEW t \in Tasks, GiveUp(t) PROVE CanceledIsGone(u)'
  BY <1>27, SchedulerAssumption DEF GiveUp, Step, Ack, table, poll, TableTypes,
     OutboundTypes, PollTypes, SendTypes, HistoryTypes, WorkFits, Started, InPlay,
     RowIsLatest, AgainIsKnown, CanceledIsGone, Slipped, Members, Parks
<1>28. ASSUME NEW t \in Tasks, Throttled(t) PROVE CanceledIsGone(u)'
  BY <1>28, SchedulerAssumption DEF Throttled, Step, table, streams, poll, history,
     TableTypes, OutboundTypes, PollTypes, SendTypes, HistoryTypes, WorkFits, Started,
     InPlay, RowIsLatest, AgainIsKnown, CanceledIsGone, Slipped, Members, Parks
<1>29. ASSUME NEW t \in Tasks, Repark(t) PROVE CanceledIsGone(u)'
  BY <1>29, SchedulerAssumption DEF Repark, Step, Park, streams, poll, history,
     TableTypes, OutboundTypes, PollTypes, SendTypes, HistoryTypes, WorkFits, Started,
     InPlay, RowIsLatest, AgainIsKnown, CanceledIsGone, Slipped, Members, Parks
<1>30. ASSUME NEW t \in Tasks, Announce(t) PROVE CanceledIsGone(u)'
  BY <1>30, SchedulerAssumption DEF Announce, Step, table, poll, history, TableTypes,
     OutboundTypes, PollTypes, SendTypes, HistoryTypes, WorkFits, Started, InPlay,
     RowIsLatest, AgainIsKnown, CanceledIsGone, Slipped, Members, Parks
<1>31. ASSUME NEW t \in Tasks, RetryDone(t) PROVE CanceledIsGone(u)'
  BY <1>31, SchedulerAssumption DEF RetryDone, Step, Ack, BackInLine, table, poll,
     TableTypes, OutboundTypes, PollTypes, SendTypes, HistoryTypes, WorkFits, Started,
     InPlay, RowIsLatest, AgainIsKnown, CanceledIsGone, Slipped, Members, Parks
<1>32. ASSUME NEW t \in Tasks, DeferDone(t) PROVE CanceledIsGone(u)'
  BY <1>32, SchedulerAssumption DEF DeferDone, Step, Ack, BackInLine, table, poll,
     TableTypes, OutboundTypes, PollTypes, SendTypes, HistoryTypes, WorkFits, Started,
     InPlay, RowIsLatest, AgainIsKnown, CanceledIsGone, Slipped, Members, Parks
<1>33. ASSUME NEW t \in Tasks, DeliveryCrash(t) PROVE CanceledIsGone(u)'
  BY <1>33, SchedulerAssumption DEF DeliveryCrash, Slip, Fault, table, streams, poll,
     TableTypes, OutboundTypes, PollTypes, SendTypes, HistoryTypes, WorkFits, Started,
     InPlay, RowIsLatest, AgainIsKnown, CanceledIsGone, Slipped, Members, Parks
<1>34. ASSUME NEW t \in Tasks, Cancel(t) PROVE CanceledIsGone(u)'
  BY SMTT(30), <1>34, SchedulerAssumption DEF Cancel, Slip, Loaded, OnItsWay, streams, poll,
     delivery, TableTypes, OutboundTypes, PollTypes, SendTypes, HistoryTypes, WorkFits,
     Started, InPlay, RowIsLatest, AgainIsKnown, CanceledIsGone, Slipped, Members, Parks
<1>35. ASSUME NEW t \in Tasks, OptOut(t) PROVE CanceledIsGone(u)'
  BY <1>35, SchedulerAssumption DEF OptOut, Slip, OnItsWay, table, streams, poll,
     delivery, TableTypes, OutboundTypes, PollTypes, SendTypes, HistoryTypes, WorkFits,
     Started, InPlay, RowIsLatest, AgainIsKnown, CanceledIsGone, Slipped, Members, Parks
<1>36. CASE Wipe
  BY <1>36, SchedulerAssumption DEF Wipe, Slip, Fault, OnItsWay, table, TableTypes,
     OutboundTypes, PollTypes, SendTypes, HistoryTypes, WorkFits, Started, InPlay,
     RowIsLatest, AgainIsKnown, CanceledIsGone, Slipped, Members, Parks
<1>37. ASSUME NEW t \in Tasks, EngineSkips(t) PROVE CanceledIsGone(u)'
  BY <1>37, SchedulerAssumption DEF EngineSkips, Slip, Unannounced, Fault, table, streams,
     poll, delivery, TableTypes, OutboundTypes, PollTypes, SendTypes, HistoryTypes,
     WorkFits, Started, InPlay, RowIsLatest, AgainIsKnown, CanceledIsGone, Slipped,
     Members, Parks
<1>38. ASSUME NEW p \in Procs, RequeueFails(p) PROVE CanceledIsGone(u)'
  BY <1>38, SchedulerAssumption DEF RequeueFails, Slip, Unannounced, Goto, NoWork, table,
     streams, delivery, history, TableTypes, OutboundTypes, PollTypes, SendTypes,
     HistoryTypes, WorkFits, Started, InPlay, RowIsLatest, AgainIsKnown, CanceledIsGone,
     Slipped, Members, Parks
<1> QED
  BY <1>37, <1>38, <1>1, <1>2, <1>3, <1>4, <1>5, <1>6, <1>7, <1>8, <1>9, <1>10, <1>11,
     <1>12, <1>13, <1>14, <1>15, <1>16, <1>17, <1>18, <1>19, <1>20, <1>21, <1>22, <1>23,
     <1>24, <1>25, <1>26, <1>27, <1>28, <1>29, <1>30, <1>31, <1>32, <1>33, <1>34, <1>35,
     <1>36, ParksRowOutboundAttemptPcWorkEndedSlipsMoves

LEMMA OptedOutOutboundAttemptPcWorkSlipsMoves ==
    ASSUME [Next]_vars
    PROVE  \/ UNCHANGED <<optedOut, outbound, attempt, pc, work, slips>>
           \/ \E p \in Procs, t \in Tasks : Release(p, t)
           \/ \E p \in Procs : RequeueFails(p) \/ LookSentinel(p) \/ ReadRows(p) \/ Requeue(p) \/ Seal(p) \/
                LockPoll(p) \/ Claim(p) \/ Load(p) \/ Gate(p) \/ Released(p) \/ Delete(p) \/
                Cleanup(p) \/ Unlock(p) \/ DeleteFails(p) \/ PollFails(p) \/ Crash(p)
           \/ \E t \in Tasks : EngineSkips(t) \/ EngineAgain(t) \/ EngineCrash(t) \/ Take(t) \/
                Completed(t) \/ SendOk(t) \/ Mark(t) \/ MarkFails(t) \/ SendFails(t) \/
                GiveUp(t) \/ Throttled(t) \/ Repark(t) \/ Announce(t) \/ RetryDone(t) \/
                DeferDone(t) \/ DeliveryCrash(t) \/ Cancel(t) \/ OptOut(t)
           \/ Wipe
BY DEF Next, RebuildStep, PollStep, EngineStep, ConsumeStep, DeliveryStep, FaultStep,
   vars, table, streams, poll, delivery, history, EngineInsert, EngineAnnounce,
   LeaseExpires, Consume, ConsumeCrash, Tick

\* The gate lets nothing through that was opted out before.
LEMMA OptedOutStep ==
    ASSUME NEW u \in Tasks, TableTypes, OutboundTypes, PollTypes, SendTypes,
           HistoryTypes, \A q \in Procs : WorkFits(q), AgainIsKnown(u),
           OptedOutIsHeld(u),
           [Next]_vars
    PROVE  OptedOutIsHeld(u)'
<1>1. CASE UNCHANGED <<optedOut, outbound, attempt, pc, work, slips>>
  BY <1>1 DEF TableTypes, OutboundTypes, PollTypes, SendTypes, HistoryTypes, WorkFits,
     AgainIsKnown, OptedOutIsHeld, Slipped, Members, Parks
<1>2. ASSUME NEW p \in Procs, NEW t \in Tasks, Release(p, t) PROVE OptedOutIsHeld(u)'
  BY SMTT(30), <1>2, SchedulerAssumption DEF Release, delivery, history, TableTypes, OutboundTypes,
     PollTypes, SendTypes, HistoryTypes, WorkFits, AgainIsKnown, OptedOutIsHeld, Slipped,
     Members, Parks
<1>3. ASSUME NEW p \in Procs, LookSentinel(p) PROVE OptedOutIsHeld(u)'
  BY <1>3, SchedulerAssumption DEF LookSentinel, Goto, streams, delivery, history,
     TableTypes, OutboundTypes, PollTypes, SendTypes, HistoryTypes, WorkFits,
     AgainIsKnown, OptedOutIsHeld, Slipped, Members, Parks
<1>4. ASSUME NEW p \in Procs, ReadRows(p) PROVE OptedOutIsHeld(u)'
  BY <1>4, SchedulerAssumption DEF ReadRows, Goto, streams, delivery, history, TableTypes,
     OutboundTypes, PollTypes, SendTypes, HistoryTypes, WorkFits, AgainIsKnown,
     OptedOutIsHeld, Slipped, Members, Parks
<1>5. ASSUME NEW p \in Procs, Requeue(p) PROVE OptedOutIsHeld(u)'
  BY <1>5, SchedulerAssumption DEF Requeue, Goto, NoWork, streams, delivery, history,
     TableTypes, OutboundTypes, PollTypes, SendTypes, HistoryTypes, WorkFits,
     AgainIsKnown, OptedOutIsHeld, Slipped, Members, Parks
<1>6. ASSUME NEW p \in Procs, Seal(p) PROVE OptedOutIsHeld(u)'
  BY <1>6, SchedulerAssumption DEF Seal, Goto, streams, delivery, history, TableTypes,
     OutboundTypes, PollTypes, SendTypes, HistoryTypes, WorkFits, AgainIsKnown,
     OptedOutIsHeld, Slipped, Members, Parks
<1>7. ASSUME NEW p \in Procs, LockPoll(p) PROVE OptedOutIsHeld(u)'
  BY <1>7, SchedulerAssumption DEF LockPoll, Goto, streams, delivery, history, TableTypes,
     OutboundTypes, PollTypes, SendTypes, HistoryTypes, WorkFits, AgainIsKnown,
     OptedOutIsHeld, Slipped, Members, Parks
<1>8. ASSUME NEW p \in Procs, Claim(p) PROVE OptedOutIsHeld(u)'
  BY <1>8, SchedulerAssumption DEF Claim, Goto, Hide, DueMembers, NoWork, streams,
     delivery, history, TableTypes, OutboundTypes, PollTypes, SendTypes, HistoryTypes,
     WorkFits, AgainIsKnown, OptedOutIsHeld, Slipped, Members, Parks
<1>9. ASSUME NEW p \in Procs, Load(p) PROVE OptedOutIsHeld(u)'
  BY <1>9, SchedulerAssumption DEF Load, Goto, streams, delivery, history, TableTypes,
     OutboundTypes, PollTypes, SendTypes, HistoryTypes, WorkFits, AgainIsKnown,
     OptedOutIsHeld, Slipped, Members, Parks
<1>10. ASSUME NEW p \in Procs, Gate(p) PROVE OptedOutIsHeld(u)'
  BY <1>10, SchedulerAssumption DEF Gate, Goto, Loaded, streams, delivery, TableTypes,
     OutboundTypes, PollTypes, SendTypes, HistoryTypes, WorkFits, AgainIsKnown,
     OptedOutIsHeld, Slipped, Members, Parks
<1>11. ASSUME NEW p \in Procs, Released(p) PROVE OptedOutIsHeld(u)'
  BY <1>11, SchedulerAssumption DEF Released, Goto, streams, delivery, history,
     TableTypes, OutboundTypes, PollTypes, SendTypes, HistoryTypes, WorkFits,
     AgainIsKnown, OptedOutIsHeld, Slipped, Members, Parks
<1>12. ASSUME NEW p \in Procs, Delete(p) PROVE OptedOutIsHeld(u)'
  BY <1>12, SchedulerAssumption DEF Delete, Goto, streams, delivery, history, TableTypes,
     OutboundTypes, PollTypes, SendTypes, HistoryTypes, WorkFits, AgainIsKnown,
     OptedOutIsHeld, Slipped, Members, Parks
<1>13. ASSUME NEW p \in Procs, Cleanup(p) PROVE OptedOutIsHeld(u)'
  BY <1>13, SchedulerAssumption DEF Cleanup, Goto, Slip, NoWork, TakesAnother, streams,
     delivery, TableTypes, OutboundTypes, PollTypes, SendTypes, HistoryTypes, WorkFits,
     AgainIsKnown, OptedOutIsHeld, Slipped, Members, Parks
<1>14. ASSUME NEW p \in Procs, Unlock(p) PROVE OptedOutIsHeld(u)'
  BY <1>14, SchedulerAssumption DEF Unlock, Goto, NoWork, streams, delivery, history,
     TableTypes, OutboundTypes, PollTypes, SendTypes, HistoryTypes, WorkFits,
     AgainIsKnown, OptedOutIsHeld, Slipped, Members, Parks
<1>15. ASSUME NEW p \in Procs, DeleteFails(p) PROVE OptedOutIsHeld(u)'
  BY <1>15, SchedulerAssumption DEF DeleteFails, Goto, Fault, streams, delivery, history,
     TableTypes, OutboundTypes, PollTypes, SendTypes, HistoryTypes, WorkFits,
     AgainIsKnown, OptedOutIsHeld, Slipped, Members, Parks
<1>16. ASSUME NEW p \in Procs, PollFails(p) PROVE OptedOutIsHeld(u)'
  BY <1>16, SchedulerAssumption DEF PollFails, Fault, NoWork, streams, delivery, history,
     TableTypes, OutboundTypes, PollTypes, SendTypes, HistoryTypes, WorkFits,
     AgainIsKnown, OptedOutIsHeld, Slipped, Members, Parks
<1>17. ASSUME NEW p \in Procs, Crash(p) PROVE OptedOutIsHeld(u)'
  BY <1>17, SchedulerAssumption DEF Crash, Fault, NoWork, streams, delivery, history,
     TableTypes, OutboundTypes, PollTypes, SendTypes, HistoryTypes, WorkFits,
     AgainIsKnown, OptedOutIsHeld, Slipped, Members, Parks
<1>18. ASSUME NEW t \in Tasks, EngineAgain(t) PROVE OptedOutIsHeld(u)'
  BY <1>18, SchedulerAssumption DEF EngineAgain, poll, delivery, history, TableTypes,
     OutboundTypes, PollTypes, SendTypes, HistoryTypes, WorkFits, AgainIsKnown,
     OptedOutIsHeld, Slipped, Members, Parks
<1>19. ASSUME NEW t \in Tasks, EngineCrash(t) PROVE OptedOutIsHeld(u)'
  BY <1>19, SchedulerAssumption DEF EngineCrash, Slip, Fault, streams, poll, delivery,
     TableTypes, OutboundTypes, PollTypes, SendTypes, HistoryTypes, WorkFits,
     AgainIsKnown, OptedOutIsHeld, Slipped, Members, Parks
<1>20. ASSUME NEW t \in Tasks, Take(t) PROVE OptedOutIsHeld(u)'
  BY <1>20, SchedulerAssumption DEF Take, Step, streams, poll, history, TableTypes,
     OutboundTypes, PollTypes, SendTypes, HistoryTypes, WorkFits, AgainIsKnown,
     OptedOutIsHeld, Slipped, Members, Parks
<1>21. ASSUME NEW t \in Tasks, Completed(t) PROVE OptedOutIsHeld(u)'
  BY <1>21, SchedulerAssumption DEF Completed, Ack, poll, delivery, history, TableTypes,
     OutboundTypes, PollTypes, SendTypes, HistoryTypes, WorkFits, AgainIsKnown,
     OptedOutIsHeld, Slipped, Members, Parks
<1>22. ASSUME NEW t \in Tasks, SendOk(t) PROVE OptedOutIsHeld(u)'
  BY <1>22, SchedulerAssumption DEF SendOk, Step, streams, poll, TableTypes,
     OutboundTypes, PollTypes, SendTypes, HistoryTypes, WorkFits, AgainIsKnown,
     OptedOutIsHeld, Slipped, Members, Parks
<1>23. ASSUME NEW t \in Tasks, Mark(t) PROVE OptedOutIsHeld(u)'
  BY <1>23, SchedulerAssumption DEF Mark, Step, Ack, poll, history, TableTypes,
     OutboundTypes, PollTypes, SendTypes, HistoryTypes, WorkFits, AgainIsKnown,
     OptedOutIsHeld, Slipped, Members, Parks
<1>24. ASSUME NEW t \in Tasks, MarkFails(t) PROVE OptedOutIsHeld(u)'
  BY <1>24, SchedulerAssumption DEF MarkFails, Step, Ack, Slip, Fault, poll, TableTypes,
     OutboundTypes, PollTypes, SendTypes, HistoryTypes, WorkFits, AgainIsKnown,
     OptedOutIsHeld, Slipped, Members, Parks
<1>25. ASSUME NEW t \in Tasks, SendFails(t) PROVE OptedOutIsHeld(u)'
  BY <1>25, SchedulerAssumption DEF SendFails, Step, streams, poll, history, TableTypes,
     OutboundTypes, PollTypes, SendTypes, HistoryTypes, WorkFits, AgainIsKnown,
     OptedOutIsHeld, Slipped, Members, Parks
<1>26. ASSUME NEW t \in Tasks, GiveUp(t) PROVE OptedOutIsHeld(u)'
  BY <1>26, SchedulerAssumption DEF GiveUp, Step, Ack, poll, TableTypes, OutboundTypes,
     PollTypes, SendTypes, HistoryTypes, WorkFits, AgainIsKnown, OptedOutIsHeld, Slipped,
     Members, Parks
<1>27. ASSUME NEW t \in Tasks, Throttled(t) PROVE OptedOutIsHeld(u)'
  BY <1>27, SchedulerAssumption DEF Throttled, Step, streams, poll, history, TableTypes,
     OutboundTypes, PollTypes, SendTypes, HistoryTypes, WorkFits, AgainIsKnown,
     OptedOutIsHeld, Slipped, Members, Parks
<1>28. ASSUME NEW t \in Tasks, Repark(t) PROVE OptedOutIsHeld(u)'
  BY <1>28, SchedulerAssumption DEF Repark, Step, Park, streams, poll, history,
     TableTypes, OutboundTypes, PollTypes, SendTypes, HistoryTypes, WorkFits,
     AgainIsKnown, OptedOutIsHeld, Slipped, Members, Parks
<1>29. ASSUME NEW t \in Tasks, Announce(t) PROVE OptedOutIsHeld(u)'
  BY <1>29, SchedulerAssumption DEF Announce, Step, poll, history, TableTypes,
     OutboundTypes, PollTypes, SendTypes, HistoryTypes, WorkFits, AgainIsKnown,
     OptedOutIsHeld, Slipped, Members, Parks
<1>30. ASSUME NEW t \in Tasks, RetryDone(t) PROVE OptedOutIsHeld(u)'
  BY SMTT(30), <1>30, SchedulerAssumption DEF RetryDone, Step, Ack, BackInLine, poll, TableTypes,
     OutboundTypes, PollTypes, SendTypes, HistoryTypes, WorkFits, AgainIsKnown,
     OptedOutIsHeld, Slipped, Members, Parks
<1>31. ASSUME NEW t \in Tasks, DeferDone(t) PROVE OptedOutIsHeld(u)'
  BY <1>31, SMTT(30), SchedulerAssumption DEF DeferDone, Step, Ack, BackInLine, poll,
     TableTypes, OutboundTypes, PollTypes, SendTypes, HistoryTypes, WorkFits,
     AgainIsKnown, OptedOutIsHeld, Slipped, Members, Parks
<1>32. ASSUME NEW t \in Tasks, DeliveryCrash(t) PROVE OptedOutIsHeld(u)'
  BY <1>32, SchedulerAssumption DEF DeliveryCrash, Slip, Fault, streams, poll, TableTypes,
     OutboundTypes, PollTypes, SendTypes, HistoryTypes, WorkFits, AgainIsKnown,
     OptedOutIsHeld, Slipped, Members, Parks
<1>33. ASSUME NEW t \in Tasks, Cancel(t) PROVE OptedOutIsHeld(u)'
  BY <1>33, SchedulerAssumption DEF Cancel, Slip, Loaded, OnItsWay, streams, poll,
     delivery, TableTypes, OutboundTypes, PollTypes, SendTypes, HistoryTypes, WorkFits,
     AgainIsKnown, OptedOutIsHeld, Slipped, Members, Parks
<1>34. ASSUME NEW t \in Tasks, OptOut(t) PROVE OptedOutIsHeld(u)'
  BY <1>34, SchedulerAssumption DEF OptOut, Slip, OnItsWay, streams, poll, delivery,
     TableTypes, OutboundTypes, PollTypes, SendTypes, HistoryTypes, WorkFits,
     AgainIsKnown, OptedOutIsHeld, Slipped, Members, Parks
<1>35. CASE Wipe
  BY <1>35, SchedulerAssumption DEF Wipe, Slip, Fault, OnItsWay, TableTypes,
     OutboundTypes, PollTypes, SendTypes, HistoryTypes, WorkFits, AgainIsKnown,
     OptedOutIsHeld, Slipped, Members, Parks
<1>36. ASSUME NEW t \in Tasks, EngineSkips(t) PROVE OptedOutIsHeld(u)'
  BY <1>36, SchedulerAssumption DEF EngineSkips, Slip, Unannounced, Fault, streams, poll,
     delivery, TableTypes, OutboundTypes, PollTypes, SendTypes, HistoryTypes, WorkFits,
     AgainIsKnown, OptedOutIsHeld, Slipped, Members, Parks
<1>37. ASSUME NEW p \in Procs, RequeueFails(p) PROVE OptedOutIsHeld(u)'
  BY <1>37, SchedulerAssumption DEF RequeueFails, Slip, Unannounced, Goto, NoWork,
     streams, delivery, history, TableTypes, OutboundTypes, PollTypes, SendTypes,
     HistoryTypes, WorkFits, AgainIsKnown, OptedOutIsHeld, Slipped, Members, Parks
<1> QED
  BY <1>36, <1>37, <1>1, <1>2, <1>3, <1>4, <1>5, <1>6, <1>7, <1>8, <1>9, <1>10, <1>11,
     <1>12, <1>13, <1>14, <1>15, <1>16, <1>17, <1>18, <1>19, <1>20, <1>21, <1>22, <1>23,
     <1>24, <1>25, <1>26, <1>27, <1>28, <1>29, <1>30, <1>31, <1>32, <1>33, <1>34, <1>35,
     OptedOutOutboundAttemptPcWorkSlipsMoves

LEMMA SentMoves ==
    ASSUME [Next]_vars
    PROVE  \/ UNCHANGED sent
           \/ \E t \in Tasks : SendOk(t)
BY DEF Next, EngineSkips, RequeueFails, RebuildStep, PollStep, EngineStep, ConsumeStep,
   DeliveryStep, FaultStep, vars, table, streams, poll, delivery, history, Release,
   LookSentinel, ReadRows, Requeue, Seal, LockPoll, Claim, Load, Gate, Released, Delete,
   Cleanup, Unlock, DeleteFails, PollFails, Crash, EngineInsert, EngineAgain,
   EngineAnnounce, EngineCrash, Take, Completed, Mark, MarkFails, SendFails, GiveUp,
   Throttled, Repark, Announce, RetryDone, DeferDone, DeliveryCrash, LeaseExpires, Cancel,
   OptOut, Consume, ConsumeCrash, Tick, Wipe

\* A cancel that was answered with success holds unless a poll had loaded the
\* payload or the send was under way, and an opt-out unless the send had passed
\* the gate (handlers/notifications.ts, send-gate.ts), over retries too.
THEOREM StopsHold == Spec => StopHolds
<1> DEFINE Inv ==
      Base /\ \A u \in Tasks : AgainIsKnown(u) /\ CanceledIsGone(u) /\ OptedOutIsHeld(u)
<1>1. Init => Inv
  BY BaseInit DEF Init, AgainIsKnown, CanceledIsGone, OptedOutIsHeld
<1>2. Inv /\ [Next]_vars => Inv'
  BY BaseStep, AgainStep, CanceledStep, OptedOutStep DEF Base, Types
<1>3. ASSUME Inv, [Next]_vars, NEW t \in Tasks, sent'[t] > sent[t]
      PROVE  /\ <<t, "canceled">> \in ended => Slipped(t, {"late", "again"})
             /\ optedOut[t] => Slipped(t, {"passed", "again"})
  <2>1. PICK u \in Tasks : SendOk(u)
    BY <1>3, SentMoves DEF Base, Types, HistoryTypes
  <2>2. u = t
    BY <1>3, <2>1 DEF SendOk, Base, Types, HistoryTypes
  <2>3. attempt[t] = "sending"
    BY <2>1, <2>2 DEF SendOk, Step
  <2> QED
    BY <1>3, <2>3 DEF CanceledIsGone, OptedOutIsHeld
<1>4. Inv /\ [Next]_vars =>
        [\A t \in Tasks :
           sent'[t] > sent[t] =>
             /\ (<<t, "canceled">> \in ended => Slipped(t, {"late", "again"}))
             /\ (optedOut[t] => Slipped(t, {"passed", "again"}))]_vars
  BY <1>3
<1> QED
  BY <1>1, <1>2, <1>4, PTL DEF Spec, StopHolds

-----------------------------------------------------------------------------
(* Nothing parked is forgotten.                                            *)

LEMMA SlipsMoves ==
    ASSUME [Next]_vars
    PROVE  \/ UNCHANGED slips
           \/ \E p \in Procs : RequeueFails(p) \/ Cleanup(p)
           \/ \E t \in Tasks : EngineSkips(t) \/ EngineCrash(t) \/ MarkFails(t) \/ RetryDone(t) \/
                DeferDone(t) \/ DeliveryCrash(t) \/ Cancel(t) \/ OptOut(t)
           \/ Wipe
BY DEF Next, RebuildStep, PollStep, EngineStep, ConsumeStep, DeliveryStep, FaultStep,
   vars, table, streams, poll, delivery, history, Release, LookSentinel, ReadRows,
   Requeue, Seal, LockPoll, Claim, Load, Gate, Released, Delete, Unlock, DeleteFails,
   PollFails, Crash, EngineInsert, EngineAgain, EngineAnnounce, Take, Completed, SendOk,
   Mark, SendFails, GiveUp, Throttled, Repark, Announce, LeaseExpires, Consume,
   ConsumeCrash, Tick

\* What a race has lost stays on record.
LEMMA LostStays ==
    ASSUME NEW u \in Tasks, Lost(u),
           [Next]_vars
    PROVE  Lost(u)'
<1>1. CASE UNCHANGED slips
  BY <1>1 DEF Lost, Slipped
<1>2. ASSUME NEW p \in Procs, Cleanup(p) PROVE Lost(u)'
  BY <1>2, SchedulerAssumption DEF Cleanup, Goto, Slip, NoWork, TakesAnother, Members,
     Lost, Slipped
<1>3. ASSUME NEW t \in Tasks, EngineCrash(t) PROVE Lost(u)'
  BY <1>3, SchedulerAssumption DEF EngineCrash, Slip, Fault, Lost, Slipped
<1>4. ASSUME NEW t \in Tasks, MarkFails(t) PROVE Lost(u)'
  BY <1>4, SchedulerAssumption DEF MarkFails, Step, Ack, Slip, Fault, Lost, Slipped
<1>5. ASSUME NEW t \in Tasks, RetryDone(t) PROVE Lost(u)'
  BY <1>5, SchedulerAssumption DEF RetryDone, Step, Ack, BackInLine, Lost, Slipped
<1>6. ASSUME NEW t \in Tasks, DeferDone(t) PROVE Lost(u)'
  BY <1>6, SchedulerAssumption DEF DeferDone, Step, Ack, BackInLine, Lost, Slipped
<1>7. ASSUME NEW t \in Tasks, DeliveryCrash(t) PROVE Lost(u)'
  BY <1>7, SchedulerAssumption DEF DeliveryCrash, Slip, Fault, Lost, Slipped
<1>8. ASSUME NEW t \in Tasks, Cancel(t) PROVE Lost(u)'
  BY <1>8, SchedulerAssumption DEF Cancel, Slip, Loaded, OnItsWay, Lost, Slipped
<1>9. ASSUME NEW t \in Tasks, OptOut(t) PROVE Lost(u)'
  BY <1>9, SchedulerAssumption DEF OptOut, Slip, OnItsWay, Lost, Slipped
<1>10. CASE Wipe
  BY <1>10, SchedulerAssumption DEF Wipe, Slip, Fault, OnItsWay, Members, Lost, Slipped
<1>11. ASSUME NEW t \in Tasks, EngineSkips(t) PROVE Lost(u)'
  BY <1>11, SchedulerAssumption DEF EngineSkips, Slip, Unannounced, Fault, Lost, Slipped
<1>12. ASSUME NEW p \in Procs, RequeueFails(p) PROVE Lost(u)'
  BY <1>12, SchedulerAssumption DEF RequeueFails, Slip, Unannounced, Goto, NoWork,
     TakesAnother, Members, Lost, Slipped
<1> QED
  BY <1>11, <1>12, <1>1, <1>2, <1>3, <1>4, <1>5, <1>6, <1>7, <1>8, <1>9, <1>10, SlipsMoves

LEMMA OutboundAttemptSlipsMoves ==
    ASSUME [Next]_vars
    PROVE  \/ UNCHANGED <<outbound, attempt, slips>>
           \/ \E p \in Procs, t \in Tasks : Release(p, t)
           \/ \E p \in Procs : RequeueFails(p) \/ Cleanup(p)
           \/ \E t \in Tasks : EngineSkips(t) \/ EngineAgain(t) \/ EngineCrash(t) \/ Take(t) \/
                Completed(t) \/ SendOk(t) \/ Mark(t) \/ MarkFails(t) \/ SendFails(t) \/
                GiveUp(t) \/ Throttled(t) \/ Repark(t) \/ Announce(t) \/ RetryDone(t) \/
                DeferDone(t) \/ DeliveryCrash(t) \/ Cancel(t) \/ OptOut(t)
           \/ Wipe
BY DEF Next, RebuildStep, PollStep, EngineStep, ConsumeStep, DeliveryStep, FaultStep,
   vars, table, streams, poll, delivery, history, LookSentinel, ReadRows, Requeue, Seal,
   LockPoll, Claim, Load, Gate, Released, Delete, Unlock, DeleteFails, PollFails, Crash,
   EngineInsert, EngineAnnounce, LeaseExpires, Consume, ConsumeCrash, Tick

\* Delivery works on an entry that it acknowledges at the end.
LEMMA EntryStep ==
    ASSUME NEW u \in Tasks, OutboundTypes, PollTypes, SendTypes, HistoryTypes,
           EntryIsThere(u),
           [Next]_vars
    PROVE  EntryIsThere(u)'
<1>1. CASE UNCHANGED <<outbound, attempt, slips>>
  BY <1>1 DEF OutboundTypes, PollTypes, SendTypes, HistoryTypes, EntryIsThere, Lost,
     Slipped, Members
<1>2. ASSUME NEW p \in Procs, NEW t \in Tasks, Release(p, t) PROVE EntryIsThere(u)'
  BY <1>2, SchedulerAssumption DEF Release, delivery, history, OutboundTypes, PollTypes,
     SendTypes, HistoryTypes, EntryIsThere, Lost, Slipped, Members
<1>3. ASSUME NEW p \in Procs, Cleanup(p) PROVE EntryIsThere(u)'
  BY <1>3, SchedulerAssumption DEF Cleanup, Goto, Slip, NoWork, TakesAnother, streams,
     delivery, OutboundTypes, PollTypes, SendTypes, HistoryTypes, EntryIsThere, Lost,
     Slipped, Members
<1>4. ASSUME NEW t \in Tasks, EngineAgain(t) PROVE EntryIsThere(u)'
  BY <1>4, SchedulerAssumption DEF EngineAgain, delivery, history, OutboundTypes,
     PollTypes, SendTypes, HistoryTypes, EntryIsThere, Lost, Slipped, Members
<1>5. ASSUME NEW t \in Tasks, EngineCrash(t) PROVE EntryIsThere(u)'
  BY <1>5, SchedulerAssumption DEF EngineCrash, Slip, Fault, streams, delivery,
     OutboundTypes, PollTypes, SendTypes, HistoryTypes, EntryIsThere, Lost, Slipped,
     Members
<1>6. ASSUME NEW t \in Tasks, Take(t) PROVE EntryIsThere(u)'
  BY <1>6, SchedulerAssumption DEF Take, Step, streams, history, OutboundTypes, PollTypes,
     SendTypes, HistoryTypes, EntryIsThere, Lost, Slipped, Members
<1>7. ASSUME NEW t \in Tasks, Completed(t) PROVE EntryIsThere(u)'
  BY <1>7, SchedulerAssumption DEF Completed, Ack, delivery, history, OutboundTypes,
     PollTypes, SendTypes, HistoryTypes, EntryIsThere, Lost, Slipped, Members
<1>8. ASSUME NEW t \in Tasks, SendOk(t) PROVE EntryIsThere(u)'
  BY <1>8, SchedulerAssumption DEF SendOk, Step, streams, OutboundTypes, PollTypes,
     SendTypes, HistoryTypes, EntryIsThere, Lost, Slipped, Members
<1>9. ASSUME NEW t \in Tasks, Mark(t) PROVE EntryIsThere(u)'
  BY <1>9, SchedulerAssumption DEF Mark, Step, Ack, history, OutboundTypes, PollTypes,
     SendTypes, HistoryTypes, EntryIsThere, Lost, Slipped, Members
<1>10. ASSUME NEW t \in Tasks, MarkFails(t) PROVE EntryIsThere(u)'
  BY <1>10, SchedulerAssumption DEF MarkFails, Step, Ack, Slip, Fault, OutboundTypes,
     PollTypes, SendTypes, HistoryTypes, EntryIsThere, Lost, Slipped, Members
<1>11. ASSUME NEW t \in Tasks, SendFails(t) PROVE EntryIsThere(u)'
  BY <1>11, SchedulerAssumption DEF SendFails, Step, streams, history, OutboundTypes,
     PollTypes, SendTypes, HistoryTypes, EntryIsThere, Lost, Slipped, Members
<1>12. ASSUME NEW t \in Tasks, GiveUp(t) PROVE EntryIsThere(u)'
  BY <1>12, SchedulerAssumption DEF GiveUp, Step, Ack, OutboundTypes, PollTypes,
     SendTypes, HistoryTypes, EntryIsThere, Lost, Slipped, Members
<1>13. ASSUME NEW t \in Tasks, Throttled(t) PROVE EntryIsThere(u)'
  BY <1>13, SchedulerAssumption DEF Throttled, Step, streams, history, OutboundTypes,
     PollTypes, SendTypes, HistoryTypes, EntryIsThere, Lost, Slipped, Members
<1>14. ASSUME NEW t \in Tasks, Repark(t) PROVE EntryIsThere(u)'
  BY <1>14, SchedulerAssumption DEF Repark, Step, Park, streams, history, OutboundTypes,
     PollTypes, SendTypes, HistoryTypes, EntryIsThere, Lost, Slipped, Members
<1>15. ASSUME NEW t \in Tasks, Announce(t) PROVE EntryIsThere(u)'
  BY <1>15, SchedulerAssumption DEF Announce, Step, history, OutboundTypes, PollTypes,
     SendTypes, HistoryTypes, EntryIsThere, Lost, Slipped, Members
<1>16. ASSUME NEW t \in Tasks, RetryDone(t) PROVE EntryIsThere(u)'
  BY <1>16, SchedulerAssumption DEF RetryDone, Step, Ack, BackInLine, OutboundTypes,
     PollTypes, SendTypes, HistoryTypes, EntryIsThere, Lost, Slipped, Members
<1>17. ASSUME NEW t \in Tasks, DeferDone(t) PROVE EntryIsThere(u)'
  BY <1>17, SchedulerAssumption DEF DeferDone, Step, Ack, BackInLine, OutboundTypes,
     PollTypes, SendTypes, HistoryTypes, EntryIsThere, Lost, Slipped, Members
<1>18. ASSUME NEW t \in Tasks, DeliveryCrash(t) PROVE EntryIsThere(u)'
  BY <1>18, SchedulerAssumption DEF DeliveryCrash, Slip, Fault, streams, OutboundTypes,
     PollTypes, SendTypes, HistoryTypes, EntryIsThere, Lost, Slipped, Members
<1>19. ASSUME NEW t \in Tasks, Cancel(t) PROVE EntryIsThere(u)'
  BY <1>19, SchedulerAssumption DEF Cancel, Slip, Loaded, OnItsWay, streams, delivery,
     OutboundTypes, PollTypes, SendTypes, HistoryTypes, EntryIsThere, Lost, Slipped,
     Members
<1>20. ASSUME NEW t \in Tasks, OptOut(t) PROVE EntryIsThere(u)'
  BY <1>20, SchedulerAssumption DEF OptOut, Slip, OnItsWay, streams, delivery,
     OutboundTypes, PollTypes, SendTypes, HistoryTypes, EntryIsThere, Lost, Slipped,
     Members
<1>21. CASE Wipe
  BY <1>21, SchedulerAssumption DEF Wipe, Slip, Fault, OnItsWay, OutboundTypes, PollTypes,
     SendTypes, HistoryTypes, EntryIsThere, Lost, Slipped, Members
<1>22. ASSUME NEW t \in Tasks, EngineSkips(t) PROVE EntryIsThere(u)'
  BY <1>22, SchedulerAssumption DEF EngineSkips, Slip, Unannounced, Fault, streams,
     delivery, OutboundTypes, PollTypes, SendTypes, HistoryTypes, EntryIsThere, Lost,
     Slipped, Members
<1>23. ASSUME NEW p \in Procs, RequeueFails(p) PROVE EntryIsThere(u)'
  BY <1>23, SchedulerAssumption DEF RequeueFails, Slip, Unannounced, Goto, NoWork,
     TakesAnother, streams, delivery, OutboundTypes, PollTypes, SendTypes, HistoryTypes,
     EntryIsThere, Lost, Slipped, Members
<1> QED
  BY <1>22, <1>23, <1>1, <1>2, <1>3, <1>4, <1>5, <1>6, <1>7, <1>8, <1>9, <1>10, <1>11,
     <1>12, <1>13, <1>14, <1>15, <1>16, <1>17, <1>18, <1>19, <1>20, <1>21,
     OutboundAttemptSlipsMoves

LEMMA ParksSentEndedMoves ==
    ASSUME [Next]_vars
    PROVE  \/ UNCHANGED <<parks, sent, ended>>
           \/ \E p \in Procs : Gate(p)
           \/ \E t \in Tasks : EngineInsert(t) \/ SendOk(t) \/ GiveUp(t) \/ Repark(t) \/
                Cancel(t)
BY ZenonT(30) DEF Next, EngineSkips, RequeueFails, RebuildStep, PollStep, EngineStep, ConsumeStep,
   DeliveryStep, FaultStep, vars, table, streams, poll, delivery, history, Release,
   LookSentinel, ReadRows, Requeue, Seal, LockPoll, Claim, Load, Released, Delete,
   Cleanup, Unlock, DeleteFails, PollFails, Crash, EngineAgain, EngineAnnounce,
   EngineCrash, Take, Completed, Mark, MarkFails, SendFails, Throttled, Announce,
   RetryDone, DeferDone, DeliveryCrash, LeaseExpires, OptOut, Consume, ConsumeCrash, Tick,
   Wipe

\* A send that is owed was owed since it was parked.
LEMMA StaysOwed ==
    ASSUME NEW u \in Tasks, TableTypes, HistoryTypes, parks[u] > 0, Owed(u)',
           [Next]_vars
    PROVE  Owed(u)
<1>1. CASE UNCHANGED <<parks, sent, ended>>
  BY <1>1 DEF TableTypes, HistoryTypes, Owed, Members, Parks
<1>2. ASSUME NEW p \in Procs, Gate(p) PROVE Owed(u)
  BY <1>2, SchedulerAssumption DEF Gate, Goto, Loaded, table, TableTypes, HistoryTypes,
     Owed, Members, Parks
<1>3. ASSUME NEW t \in Tasks, EngineInsert(t) PROVE Owed(u)
  BY <1>3, SchedulerAssumption DEF EngineInsert, Park, history, TableTypes, HistoryTypes,
     Owed, Members, Parks
<1>4. ASSUME NEW t \in Tasks, SendOk(t) PROVE Owed(u)
  BY <1>4, SchedulerAssumption DEF SendOk, Step, table, TableTypes, HistoryTypes, Owed,
     Members, Parks
<1>5. ASSUME NEW t \in Tasks, GiveUp(t) PROVE Owed(u)
  BY <1>5, SchedulerAssumption DEF GiveUp, Step, Ack, table, TableTypes, HistoryTypes,
     Owed, Members, Parks
<1>6. ASSUME NEW t \in Tasks, Repark(t) PROVE Owed(u)
  BY <1>6, SchedulerAssumption DEF Repark, Step, Park, history, TableTypes, HistoryTypes,
     Owed, Members, Parks
<1>7. ASSUME NEW t \in Tasks, Cancel(t) PROVE Owed(u)
  BY <1>7, SchedulerAssumption DEF Cancel, Slip, Loaded, OnItsWay, TableTypes,
     HistoryTypes, Owed, Members, Parks
<1> QED
  BY <1>1, <1>2, <1>3, <1>4, <1>5, <1>6, <1>7, ParksSentEndedMoves

\* What is canceled, blocked or given up is owed no more.
LEMMA EndedIsOver ==
    ASSUME NEW u \in Tasks, NEW how, <<u, how>> \in ended' PROVE ~Owed(u)'
BY DEF Owed

LEMMA OutboundAttemptMoves ==
    ASSUME [Next]_vars
    PROVE  \/ UNCHANGED <<outbound, attempt>>
           \/ \E p \in Procs, t \in Tasks : Release(p, t)
           \/ \E t \in Tasks : EngineAgain(t) \/ Take(t) \/ Completed(t) \/ SendOk(t) \/
                Mark(t) \/ MarkFails(t) \/ SendFails(t) \/ GiveUp(t) \/ Throttled(t) \/
                Repark(t) \/ Announce(t) \/ RetryDone(t) \/ DeferDone(t) \/ DeliveryCrash(t)
           \/ Wipe
BY DEF Next, EngineSkips, RequeueFails, RebuildStep, PollStep, EngineStep, ConsumeStep,
   DeliveryStep, FaultStep, vars, table, streams, poll, delivery, history, LookSentinel,
   ReadRows, Requeue, Seal, LockPoll, Claim, Load, Gate, Released, Delete, Cleanup,
   Unlock, DeleteFails, PollFails, Crash, EngineInsert, EngineAnnounce, EngineCrash,
   LeaseExpires, Cancel, OptOut, Consume, ConsumeCrash, Tick

\* A copy stays on OUTBOUND until its send is settled, lost or parked again.
LEMMA CopyStays ==
    ASSUME NEW u \in Tasks, OutboundTypes, PollTypes, SendTypes, HistoryTypes,
           SentIsKnown(u), EntryIsThere(u), ~Lost(u), CopyLeft(u),
           [Next]_vars
    PROVE  CopyLeft(u)' \/ ~Owed(u)' \/ Lost(u)' \/ Repark(u)
<1>1. CASE UNCHANGED <<outbound, attempt>>
  BY <1>1 DEF OutboundTypes, PollTypes, SendTypes, HistoryTypes, SentIsKnown,
     EntryIsThere, Owed, CopyLeft, Reparked, Lost, Slipped, Members
<1>2. ASSUME NEW p \in Procs, NEW t \in Tasks, Release(p, t)
      PROVE  CopyLeft(u)' \/ ~Owed(u)' \/ Lost(u)' \/ Repark(u)
  BY <1>2, SchedulerAssumption DEF Release, delivery, history, OutboundTypes, PollTypes,
     SendTypes, HistoryTypes, SentIsKnown, EntryIsThere, Owed, CopyLeft, Reparked, Lost,
     Slipped, Members
<1>3. ASSUME NEW t \in Tasks, EngineAgain(t)
      PROVE  CopyLeft(u)' \/ ~Owed(u)' \/ Lost(u)' \/ Repark(u)
  BY <1>3, SchedulerAssumption DEF EngineAgain, delivery, history, OutboundTypes,
     PollTypes, SendTypes, HistoryTypes, SentIsKnown, EntryIsThere, Owed, CopyLeft,
     Reparked, Lost, Slipped, Members
<1>4. ASSUME NEW t \in Tasks, Take(t) PROVE CopyLeft(u)' \/ ~Owed(u)' \/ Lost(u)' \/ Repark(u)
  BY <1>4, SchedulerAssumption DEF Take, Step, streams, history, OutboundTypes, PollTypes,
     SendTypes, HistoryTypes, SentIsKnown, EntryIsThere, Owed, CopyLeft, Reparked, Lost,
     Slipped, Members
<1>5. ASSUME NEW t \in Tasks, Completed(t)
      PROVE  CopyLeft(u)' \/ ~Owed(u)' \/ Lost(u)' \/ Repark(u)
  BY <1>5, SchedulerAssumption DEF Completed, Ack, delivery, history, OutboundTypes,
     PollTypes, SendTypes, HistoryTypes, SentIsKnown, EntryIsThere, Owed, CopyLeft,
     Reparked, Lost, Slipped, Members
<1>6. ASSUME NEW t \in Tasks, SendOk(t) PROVE CopyLeft(u)' \/ ~Owed(u)' \/ Lost(u)' \/ Repark(u)
  BY <1>6, SchedulerAssumption DEF SendOk, Step, streams, OutboundTypes, PollTypes,
     SendTypes, HistoryTypes, SentIsKnown, EntryIsThere, Owed, CopyLeft, Reparked, Lost,
     Slipped, Members
<1>7. ASSUME NEW t \in Tasks, Mark(t) PROVE CopyLeft(u)' \/ ~Owed(u)' \/ Lost(u)' \/ Repark(u)
  BY <1>7, SchedulerAssumption DEF Mark, Step, Ack, history, OutboundTypes, PollTypes,
     SendTypes, HistoryTypes, SentIsKnown, EntryIsThere, Owed, CopyLeft, Reparked, Lost,
     Slipped, Members
<1>8. ASSUME NEW t \in Tasks, MarkFails(t)
      PROVE  CopyLeft(u)' \/ ~Owed(u)' \/ Lost(u)' \/ Repark(u)
  BY <1>8, SchedulerAssumption DEF MarkFails, Step, Ack, Slip, Fault, OutboundTypes,
     PollTypes, SendTypes, HistoryTypes, SentIsKnown, EntryIsThere, Owed, CopyLeft,
     Reparked, Lost, Slipped, Members
<1>9. ASSUME NEW t \in Tasks, SendFails(t)
      PROVE  CopyLeft(u)' \/ ~Owed(u)' \/ Lost(u)' \/ Repark(u)
  BY <1>9, SchedulerAssumption DEF SendFails, Step, streams, history, OutboundTypes,
     PollTypes, SendTypes, HistoryTypes, SentIsKnown, EntryIsThere, Owed, CopyLeft,
     Reparked, Lost, Slipped, Members
<1>10. ASSUME NEW t \in Tasks, GiveUp(t) PROVE CopyLeft(u)' \/ ~Owed(u)' \/ Lost(u)' \/ Repark(u)
  <2>1. CASE u = t
    <3>1. <<u, "failed">> \in ended'
      BY <1>10, <2>1 DEF GiveUp
    <3> QED
      BY <3>1, EndedIsOver
  <2>2. CASE u # t
    BY <1>10, <2>2 DEF GiveUp, Step, Ack, OutboundTypes, SendTypes, CopyLeft, Reparked
  <2> QED
    BY <2>1, <2>2
<1>11. ASSUME NEW t \in Tasks, Throttled(t)
      PROVE  CopyLeft(u)' \/ ~Owed(u)' \/ Lost(u)' \/ Repark(u)
  BY <1>11, SchedulerAssumption DEF Throttled, Step, streams, history, OutboundTypes,
     PollTypes, SendTypes, HistoryTypes, SentIsKnown, EntryIsThere, Owed, CopyLeft,
     Reparked, Lost, Slipped, Members
<1>12. ASSUME NEW t \in Tasks, Repark(t) PROVE CopyLeft(u)' \/ ~Owed(u)' \/ Lost(u)' \/ Repark(u)
  BY <1>12, SchedulerAssumption DEF Repark, Step, Park, streams, history, OutboundTypes,
     PollTypes, SendTypes, HistoryTypes, SentIsKnown, EntryIsThere, Owed, CopyLeft,
     Reparked, Lost, Slipped, Members
<1>13. ASSUME NEW t \in Tasks, Announce(t)
      PROVE  CopyLeft(u)' \/ ~Owed(u)' \/ Lost(u)' \/ Repark(u)
  BY <1>13, SchedulerAssumption DEF Announce, Step, history, OutboundTypes, PollTypes,
     SendTypes, HistoryTypes, SentIsKnown, EntryIsThere, Owed, CopyLeft, Reparked, Lost,
     Slipped, Members
<1>14. ASSUME NEW t \in Tasks, RetryDone(t)
      PROVE  CopyLeft(u)' \/ ~Owed(u)' \/ Lost(u)' \/ Repark(u)
  BY <1>14, SchedulerAssumption DEF RetryDone, Step, Ack, BackInLine, OutboundTypes,
     PollTypes, SendTypes, HistoryTypes, SentIsKnown, EntryIsThere, Owed, CopyLeft,
     Reparked, Lost, Slipped, Members
<1>15. ASSUME NEW t \in Tasks, DeferDone(t)
      PROVE  CopyLeft(u)' \/ ~Owed(u)' \/ Lost(u)' \/ Repark(u)
  BY <1>15, SchedulerAssumption DEF DeferDone, Step, Ack, BackInLine, OutboundTypes,
     PollTypes, SendTypes, HistoryTypes, SentIsKnown, EntryIsThere, Owed, CopyLeft,
     Reparked, Lost, Slipped, Members
<1>16. ASSUME NEW t \in Tasks, DeliveryCrash(t)
      PROVE  CopyLeft(u)' \/ ~Owed(u)' \/ Lost(u)' \/ Repark(u)
  BY <1>16, SchedulerAssumption DEF DeliveryCrash, Slip, Fault, streams, OutboundTypes,
     PollTypes, SendTypes, HistoryTypes, SentIsKnown, EntryIsThere, Owed, CopyLeft,
     Reparked, Lost, Slipped, Members
<1>17. CASE Wipe
  BY <1>17, SchedulerAssumption DEF Wipe, Slip, Fault, OnItsWay, OutboundTypes, PollTypes,
     SendTypes, HistoryTypes, SentIsKnown, EntryIsThere, Owed, CopyLeft, Reparked, Lost,
     Slipped, Members
<1> QED
  BY <1>1, <1>2, <1>3, <1>4, <1>5, <1>6, <1>7, <1>8, <1>9, <1>10, <1>11, <1>12, <1>13,
     <1>14, <1>15, <1>16, <1>17, OutboundAttemptMoves

LEMMA ParksMoves ==
    ASSUME [Next]_vars
    PROVE  \/ UNCHANGED parks
           \/ \E t \in Tasks : EngineInsert(t) \/ Repark(t)
BY DEF Next, EngineSkips, RequeueFails, RebuildStep, PollStep, EngineStep, ConsumeStep,
   DeliveryStep, FaultStep, vars, table, streams, poll, delivery, history, Release,
   LookSentinel, ReadRows, Requeue, Seal, LockPoll, Claim, Load, Gate, Released, Delete,
   Cleanup, Unlock, DeleteFails, PollFails, Crash, EngineAgain, EngineAnnounce,
   EngineCrash, Take, Completed, SendOk, Mark, MarkFails, SendFails, GiveUp, Throttled,
   Announce, RetryDone, DeferDone, DeliveryCrash, LeaseExpires, Cancel, OptOut, Consume,
   ConsumeCrash, Tick, Wipe

LEMMA ParksChange ==
    ASSUME TableTypes, NEW u \in Tasks, [Next]_vars
    PROVE  parks'[u] = parks[u] \/ EngineInsert(u) \/ Repark(u)
<1>1. ASSUME NEW t \in Tasks, EngineInsert(t) \/ Repark(t), t # u PROVE parks'[u] = parks[u]
  <2>1. PICK n \in 1..MaxWait : Park(t, n)
    BY <1>1 DEF EngineInsert, Repark
  <2> QED
    BY <1>1, <2>1, ParkMoves
<1> QED
  BY <1>1, ParksMoves

LEMMA NewPark ==
    ASSUME TableTypes, NEW u \in Tasks, EngineInsert(u) \/ Repark(u)
    PROVE  /\ parks'[u] = parks[u] + 1 /\ row'[u] = parks[u] + 1
           /\ UNCHANGED <<zset, scheduled, outbound, sentinel, pc, work, sent, ended, slips>>
<1>1. PICK n \in 1..MaxWait : Park(u, n)
  BY DEF EngineInsert, Repark
<1>2. UNCHANGED <<zset, scheduled, outbound, sentinel, pc, work, sent, ended, slips>>
  BY DEF EngineInsert, Repark, streams, poll, history
<1> QED
  BY <1>1, <1>2, ParkMoves

\* The row goes only when its payload is on OUTBOUND, replaced or canceled.
LEMMA RowOrCopyStep ==
    ASSUME NEW u \in Tasks, Types, \A q \in Procs : WorkFits(q), SentIsKnown(u),
           EntryIsThere(u), \A q \in Procs : PublishedIsThere(u, q), RowOrCopy(u), [Next]_vars
    PROVE  RowOrCopy(u)'
<1> SUFFICES ASSUME ~Lost(u)', Owed(u)' PROVE row'[u] = parks'[u] \/ CopyLeft(u)'
  BY DEF RowOrCopy
<1>1. ~Lost(u)
  BY LostStays
<1>2. CASE EngineInsert(u) \/ Repark(u)
  BY <1>2, NewPark DEF Types
<1>3. CASE ~(EngineInsert(u) \/ Repark(u))
  <2>1. parks'[u] = parks[u]
    BY <1>3, ParksChange DEF Types
  <2>2. parks[u] > 0 /\ Owed(u)
    BY <2>1, StaysOwed DEF Owed, Types
  <2>3. CASE CopyLeft(u)
    BY <1>1, <1>3, <2>3, CopyStays DEF Types
  <2>4. CASE row[u] = parks[u] /\ ~CopyLeft(u)
    <3>1. ASSUME NEW p \in Procs, Delete(p) PROVE row'[u] = row[u]
      <4>1. row[u] # work[p].got[u]
        BY <1>1, <2>2, <2>4, <3>1 DEF Delete, Goto, WorkFits, PublishedIsThere
      <4> QED
        BY <3>1, <4>1 DEF Delete
    <3>2. ASSUME NEW t \in Tasks, EngineInsert(t) \/ Repark(t) PROVE row'[u] = row[u]
      <4>1. PICK n \in 1..MaxWait : Park(t, n)
        BY <3>2 DEF EngineInsert, Repark
      <4> QED
        BY <3>2, <4>1, <1>3, ParkMoves DEF Types
    <3>3. ASSUME NEW t \in Tasks, EngineAgain(t) PROVE row'[u] = row[u]
      BY <3>3, <2>2, <2>4 DEF EngineAgain, Types, TableTypes
    <3>4. ASSUME NEW t \in Tasks, Cancel(t) PROVE row'[u] = row[u]
      <4>1. u # t
        BY <3>4, EndedIsOver DEF Cancel
      <4> QED
        BY <3>4, <4>1 DEF Cancel, Types, TableTypes
    <3> QED
      BY <2>1, <2>4, <3>1, <3>2, <3>3, <3>4, RowParksMoves
  <2> QED
    BY <1>1, <2>2, <2>3, <2>4 DEF RowOrCopy
<1> QED
  BY <1>2, <1>3

\* What a poll has published is on OUTBOUND until delivery parks it anew.
LEMMA PublishedStep ==
    ASSUME NEW u \in Tasks, NEW q \in Procs, Types, WorkFits(q), ReadIsParked(u, q),
           SentIsKnown(u), EntryIsThere(u), PublishedIsThere(u, q), [Next]_vars
    PROVE  PublishedIsThere(u, q)'
<1> DEFINE Past == {"publish", "delete", "cleanup"}
<1> SUFFICES ASSUME ~Lost(u)', Owed(u)', pc'[q] \in Past, work'[q].got[u] = parks'[u],
                    u \notin work'[q].send
             PROVE  CopyLeft(u)'
  BY DEF PublishedIsThere
<1>1. ~Lost(u)
  BY LostStays
<1>2. work[q].got[u] \in Nat /\ parks[u] \in Nat
  BY Counts, Ranges DEF Types, PollTypes
<1>3. ~(EngineInsert(u) \/ Repark(u))
  BY <1>2, NewPark DEF Types, ReadIsParked
<1>4. parks'[u] = parks[u] /\ parks[u] > 0 /\ Owed(u)
  BY <1>3, ParksChange, StaysOwed DEF Types, Owed
<1>5. CASE pc[q] \in Past /\ work[q].got[u] = parks[u] /\ u \notin work[q].send
  BY <1>1, <1>3, <1>4, <1>5, CopyStays DEF PublishedIsThere, Types
<1>6. ASSUME Gate(q) PROVE FALSE
  <2>1. u \in Loaded(q) /\ optedOut[u]
    BY <1>4, <1>6 DEF Gate, Loaded, Types, PollTypes, SendTypes
  <2>2. <<u, "blocked">> \in ended'
    BY <1>6, <2>1 DEF Gate
  <2> QED
    BY <2>2, EndedIsOver
<1>7. ASSUME NEW t \in Tasks, Release(q, t), t = u PROVE CopyLeft(u)'
  BY <1>1, <1>7 DEF Release, delivery, Types, OutboundTypes, SendTypes, EntryIsThere,
     CopyLeft, Reparked
<1>8. ASSUME ~(pc[q] \in Past /\ work[q].got[u] = parks[u] /\ u \notin work[q].send)
      PROVE  Gate(q) \/ Release(q, u)
  <2>1. ASSUME NEW p \in Procs, NEW t \in Tasks, Release(p, t) PROVE p = q /\ t = u
    BY <1>4, <1>8, <2>1 DEF Release, Types, PollTypes
  <2>2. ASSUME NEW p \in Procs, p # q,
               \/ LookSentinel(p) \/ ReadRows(p) \/ Requeue(p) \/ RequeueFails(p) \/ Seal(p) \/ LockPoll(p)
               \/ Claim(p) \/ Load(p) \/ Gate(p) \/ Released(p) \/ Delete(p) \/ Cleanup(p)
               \/ Unlock(p) \/ DeleteFails(p) \/ PollFails(p) \/ Crash(p)
        PROVE  FALSE
    BY <1>4, <1>8, <2>2 DEF LookSentinel, ReadRows, Requeue, RequeueFails, Seal, LockPoll,
       Claim, Load, Gate, Released, Delete, Cleanup, Unlock, DeleteFails, PollFails,
       Crash, Goto, Types, PollTypes
  <2>3. ASSUME \/ LookSentinel(q) \/ ReadRows(q) \/ Requeue(q) \/ RequeueFails(q) \/ Seal(q) \/ LockPoll(q)
               \/ Claim(q) \/ Load(q) \/ Unlock(q) \/ PollFails(q) \/ Crash(q)
        PROVE  FALSE
    BY <2>3 DEF LookSentinel, ReadRows, Requeue, RequeueFails, Seal, LockPoll, Claim,
       Load, Unlock, PollFails, Crash, Goto, Types, PollTypes
  <2>4. ASSUME Released(q) \/ Delete(q) \/ DeleteFails(q) PROVE FALSE
    BY <1>4, <1>8, <2>4 DEF Released, Delete, DeleteFails, Goto, Types, PollTypes
  <2>5. ~Cleanup(q)
    BY DEF Cleanup, Goto, Types, PollTypes
  <2>6. ~UNCHANGED <<pc, work>>
    BY <1>4, <1>8
  <2> QED
    BY <2>1, <2>2, <2>3, <2>4, <2>5, <2>6, PcWorkMoves
<1> QED
  BY <1>5, <1>6, <1>7, <1>8

\* Who claims the member of the latest park reads its row, or finds it gone for
\* good.
LEMMA ClaimedReadStep ==
    ASSUME NEW u \in Tasks, NEW q \in Procs, Types, WorkFits(q), RowIsLatest(u),
           \A m \in Members : ClaimedIsParked(u, q, m) /\ EarlyIsUnclaimed(u, q, m),
           ClaimedIsRead(u, q), [Next]_vars
    PROVE  ClaimedIsRead(u, q)'
<1> DEFINE Read == {"gate", "publish", "delete", "cleanup"}
<1> SUFFICES ASSUME ~Lost(u)', pc'[q] \in Read, <<u, parks'[u]>> \in work'[q].batch
             PROVE  work'[q].got[u] = parks'[u] \/ (work'[q].got[u] = 0 /\ row'[u] = 0)
  BY DEF ClaimedIsRead
<1>1. ~Lost(u)
  BY LostStays
<1>2. parks[u] \in Nat /\ parks[u] \in Members /\ parks'[u] \in Members
  BY Counts, Ranges, TableTypesStep DEF Types, TableTypes, Members
<1>3. ~(EngineInsert(u) \/ Repark(u))
  BY <1>2, NewPark DEF Types, ClaimedIsParked
<1>4. parks'[u] = parks[u]
  BY <1>3, ParksChange DEF Types
<1>5. ASSUME NEW p \in Procs, Load(p), p = q
      PROVE  work'[q].got[u] = row[u] /\ row'[u] = row[u]
  BY <1>2, <1>4, <1>5, LoadReads DEF Load, table, Types
<1>6. CASE pc[q] \in Read /\ <<u, parks[u]>> \in work[q].batch /\ work'[q].got[u] = work[q].got[u]
  <2>1. ~Early(u)
    BY <1>2, <1>6 DEF EarlyIsUnclaimed
  <2>2. row[u] = 0 => row'[u] = 0
    <3>1. ASSUME NEW t \in Tasks, EngineInsert(t) \/ Repark(t), row[u] = 0 PROVE row'[u] = 0
      <4>1. PICK n \in 1..MaxWait : Park(t, n)
        BY <3>1 DEF EngineInsert, Repark
      <4> QED
        BY <3>1, <4>1, <1>3, ParkMoves DEF Types
    <3>2. ASSUME NEW t \in Tasks, EngineAgain(t) \/ Cancel(t), row[u] = 0 PROVE row'[u] = 0
      BY <2>1, <3>2 DEF EngineAgain, Cancel, Early, Types, TableTypes
    <3>3. ASSUME NEW p \in Procs, Delete(p), row[u] = 0 PROVE row'[u] = 0
      BY <3>3 DEF Delete
    <3> QED
      BY <3>1, <3>2, <3>3, RowParksMoves
  <2> QED
    BY <1>1, <1>4, <1>6, <2>2 DEF ClaimedIsRead
<1>7. ASSUME ~(pc[q] \in Read /\ <<u, parks[u]>> \in work[q].batch
               /\ work'[q].got[u] = work[q].got[u])
      PROVE  Load(q)
  <2>1. ASSUME NEW p \in Procs, NEW t \in Tasks, Release(p, t) PROVE FALSE
    BY <1>4, <1>7, <2>1 DEF Release, Types, PollTypes
  <2>2. ASSUME NEW p \in Procs, p # q,
               \/ LookSentinel(p) \/ ReadRows(p) \/ Requeue(p) \/ RequeueFails(p) \/ Seal(p) \/ LockPoll(p)
               \/ Claim(p) \/ Load(p) \/ Gate(p) \/ Released(p) \/ Delete(p) \/ Cleanup(p)
               \/ Unlock(p) \/ DeleteFails(p) \/ PollFails(p) \/ Crash(p)
        PROVE  FALSE
    BY <1>4, <1>7, <2>2 DEF LookSentinel, ReadRows, Requeue, RequeueFails, Seal, LockPoll,
       Claim, Load, Gate, Released, Delete, Cleanup, Unlock, DeleteFails, PollFails,
       Crash, Goto, Types, PollTypes
  <2>3. ASSUME \/ LookSentinel(q) \/ ReadRows(q) \/ Requeue(q) \/ RequeueFails(q) \/ Seal(q) \/ LockPoll(q)
               \/ Claim(q) \/ Cleanup(q) \/ Unlock(q) \/ PollFails(q) \/ Crash(q)
        PROVE  FALSE
    BY <2>3 DEF LookSentinel, ReadRows, Requeue, RequeueFails, Seal, LockPoll, Claim,
       Cleanup, Unlock, PollFails, Crash, Goto, Types, PollTypes
  <2>4. ASSUME Gate(q) PROVE FALSE
    <3>1. work'[q].batch = work[q].batch /\ work'[q].got = work[q].got
      BY <2>4 DEF Gate, Types, PollTypes
    <3>2. pc[q] = "gate"
      BY <2>4 DEF Gate, Goto
    <3> QED
      BY <1>4, <1>7, <3>1, <3>2
  <2>5. ASSUME Released(q) \/ Delete(q) \/ DeleteFails(q) PROVE FALSE
    BY <1>4, <1>7, <2>5 DEF Released, Delete, DeleteFails, Goto, Types, PollTypes
  <2>6. ~UNCHANGED <<pc, work>>
    BY <1>4, <1>7
  <2> QED
    BY <2>1, <2>2, <2>3, <2>4, <2>5, <2>6, PcWorkMoves
<1> QED
  BY <1>2, <1>4, <1>5, <1>6, <1>7 DEF RowIsLatest

LEMMA EngineMoves ==
    ASSUME [Next]_vars
    PROVE  \/ UNCHANGED engine
           \/ \E t \in Tasks : EngineSkips(t) \/ EngineInsert(t) \/ EngineAgain(t) \/ EngineAnnounce(t) \/
                EngineCrash(t)
           \/ Wipe
BY DEF Next, RequeueFails, RebuildStep, PollStep, EngineStep, ConsumeStep, DeliveryStep,
   FaultStep, vars, table, streams, poll, delivery, history, Release, LookSentinel,
   ReadRows, Requeue, Seal, LockPoll, Claim, Load, Gate, Released, Delete, Cleanup,
   Unlock, DeleteFails, PollFails, Crash, Take, Completed, SendOk, Mark, MarkFails,
   SendFails, GiveUp, Throttled, Repark, Announce, RetryDone, DeferDone, DeliveryCrash,
   LeaseExpires, Cancel, OptOut, Consume, ConsumeCrash, Tick

LEMMA AttemptMoves ==
    ASSUME [Next]_vars
    PROVE  \/ UNCHANGED attempt
           \/ \E t \in Tasks : Take(t) \/ SendOk(t) \/ Mark(t) \/ MarkFails(t) \/
                SendFails(t) \/ GiveUp(t) \/ Throttled(t) \/ Repark(t) \/ Announce(t) \/
                RetryDone(t) \/ DeferDone(t) \/ DeliveryCrash(t)
BY DEF Next, EngineSkips, RequeueFails, RebuildStep, PollStep, EngineStep, ConsumeStep,
   DeliveryStep, FaultStep, vars, table, streams, poll, delivery, history, Release,
   LookSentinel, ReadRows, Requeue, Seal, LockPoll, Claim, Load, Gate, Released, Delete,
   Cleanup, Unlock, DeleteFails, PollFails, Crash, EngineInsert, EngineAgain,
   EngineAnnounce, EngineCrash, Completed, LeaseExpires, Cancel, OptOut, Consume,
   ConsumeCrash, Tick, Wipe

LEMMA SentinelMoves ==
    ASSUME [Next]_vars
    PROVE  \/ UNCHANGED sentinel
           \/ \E p \in Procs : Seal(p)
           \/ Wipe
BY DEF Next, EngineSkips, RequeueFails, RebuildStep, PollStep, EngineStep, ConsumeStep,
   DeliveryStep, FaultStep, vars, table, streams, poll, delivery, history, Release,
   LookSentinel, ReadRows, Requeue, LockPoll, Claim, Load, Gate, Released, Delete,
   Cleanup, Unlock, DeleteFails, PollFails, Crash, EngineInsert, EngineAgain,
   EngineAnnounce, EngineCrash, Take, Completed, SendOk, Mark, MarkFails, SendFails,
   GiveUp, Throttled, Repark, Announce, RetryDone, DeferDone, DeliveryCrash, LeaseExpires,
   Cancel, OptOut, Consume, ConsumeCrash, Tick

\* A new park is announced by the engine or by delivery.
LEMMA NewParkComing ==
    ASSUME NEW u \in Tasks, TableTypes, SendTypes, Started(u),
           EngineInsert(u) \/ Repark(u)
    PROVE  Coming(u)'
<1>1. CASE EngineInsert(u)
  <2>1. engine'[u] = "inserted" /\ parks[u] = 0
    BY <1>1 DEF EngineInsert, SendTypes, Started
  <2> QED
    BY <2>1, NewPark DEF Coming
<1>2. CASE Repark(u)
  BY <1>2 DEF Repark, Step, SendTypes, Coming
<1> QED
  BY <1>1, <1>2

\* A row begins to wait when its park is new, or when the engine's redelivery
\* fills in the first.
LEMMA WaitingStarts ==
    ASSUME NEW u \in Tasks, Types, Started(u), EarlyIsFirst(u),
           Waiting(u)', ~Waiting(u), [Next]_vars
    PROVE  Coming(u)'
<1>1. CASE EngineInsert(u) \/ Repark(u)
  BY <1>1, NewParkComing DEF Types
<1>2. CASE ~(EngineInsert(u) \/ Repark(u))
  <2>1. parks'[u] = parks[u]
    BY <1>2, ParksChange DEF Types
  <2>2. Owed(u) /\ ~Lost(u)
    BY <2>1, StaysOwed, LostStays DEF Waiting, Owed, Types
  <2>3. parks[u] > 0 /\ row[u] # parks[u] /\ row'[u] = parks[u]
    BY <2>1, <2>2 DEF Waiting, Owed
  <2>4. ASSUME NEW t \in Tasks, EngineInsert(t) \/ Repark(t) PROVE FALSE
    <3>1. PICK n \in 1..MaxWait : Park(t, n)
      BY <2>4 DEF EngineInsert, Repark
    <3> QED
      BY <2>3, <2>4, <3>1, <1>2, ParkMoves DEF Types
  <2>5. ASSUME NEW t \in Tasks, EngineAgain(t) PROVE Coming(u)'
    <3>1. t = u /\ Early(u) /\ engine'[u] = "inserted"
      BY <2>3, <2>5 DEF EngineAgain, Types, TableTypes, SendTypes, Early
    <3> QED
      BY <2>1, <3>1 DEF EarlyIsFirst, Coming
  <2>6. ASSUME NEW p \in Procs, Delete(p) PROVE FALSE
    BY <2>3, <2>6, Counts DEF Delete, Types
  <2>7. ASSUME NEW t \in Tasks, Cancel(t) PROVE FALSE
    BY <2>3, <2>7, Counts DEF Cancel, Types, TableTypes
  <2> QED
    BY <2>1, <2>3, <2>4, <2>5, <2>6, <2>7, RowParksMoves
<1> QED
  BY <1>1, <1>2

\* The redelivery that is taken for a duplicate while a row it left waits for it
\* is on record.
LEMMA SkippedIsLost ==
    ASSUME NEW u \in Tasks, EngineSkips(u), Waiting(u), parks[u] = 1, Unannounced(u), ~Lost(u)',
           sentinel \/ \E p \in Procs : pc[p] \in {"queue", "seal"}
    PROVE  FALSE
<1>1. row[u] = 1
  BY DEF Waiting
<1>2. <<u, "skipped">> \in slips'
  BY <1>1 DEF EngineSkips, Slip
<1> QED
  BY <1>2 DEF Lost, Slipped

\* A poll that removes a member the latest park needs has put a copy on OUTBOUND,
\* or leaves that park another member or its announcement.
LEMMA CleanupLeavesCopy ==
    ASSUME NEW u \in Tasks, NEW p \in Procs, NEW m \in {0, parks[u]}, Types, WorkFits(p),
           PublishedIsThere(u, p), ClaimedIsRead(u, p), Waiting(u), Cleanup(p), ~Lost(u)',
           <<u, m>> \in work[p].batch, zset[u][m] # -1
    PROVE  Coming(u)'
<1>1. /\ parks[u] > 0 /\ parks[u] \in Nat /\ parks[u] \in Members /\ row[u] = parks[u]
      /\ ~Lost(u) /\ Owed(u)
  BY Counts DEF Waiting, Owed, Types, TableTypes, Members
<1>2. UNCHANGED <<parks, scheduled, outbound, attempt>>
  BY DEF Cleanup, table, streams, delivery
<1>3. CASE work[p].got[u] = parks[u]
  <2>1. CopyLeft(u)
    BY <1>1, <1>3 DEF Cleanup, Goto, WorkFits, PublishedIsThere
  <2> QED
    BY <1>2, <2>1 DEF CopyLeft, Reparked, Coming
<1>4. CASE work[p].got[u] # parks[u]
  <2>1. <<u, parks[u]>> \notin work[p].batch
    BY <1>1, <1>4 DEF Cleanup, Goto, ClaimedIsRead
  <2>2. zset'[u][parks[u]] = zset[u][parks[u]]
    BY <1>1, <2>1, CleanupRemoves
  <2>3. m = 0
    BY <2>1
  <2>4. ~TakesAnother(p, u)
    BY DEF Cleanup, Slip, Lost, Slipped
  <2>5. zset[u][parks[u]] # -1 \/ <<u, parks[u]>> \in scheduled
    BY <1>1, <1>4, <2>3, <2>4 DEF TakesAnother
  <2> QED
    BY <1>2, <2>2, <2>5 DEF Coming
<1> QED
  BY <1>3, <1>4

\* What will act on a waiting row is replaced when it goes, but for a wipe.
LEMMA ComingStays ==
    ASSUME NEW u \in Tasks, Types, Started(u), SentIsKnown(u), EntryIsThere(u),
           \A q \in Procs : WorkFits(q) /\ PublishedIsThere(u, q) /\ ClaimedIsRead(u, q),
           sentinel \/ \E q \in Procs : pc[q] \in {"queue", "seal"},
           Waiting(u), Coming(u), Waiting(u)', [Next]_vars
    PROVE  Coming(u)' \/ Wipe
<1> SUFFICES ASSUME ~Wipe PROVE Coming(u)'
  OBVIOUS
<1>1. CASE EngineInsert(u) \/ Repark(u)
  BY <1>1, NewParkComing DEF Types
<1>2. CASE ~(EngineInsert(u) \/ Repark(u))
  <2>1. parks'[u] = parks[u]
    BY <1>2, ParksChange DEF Types
  <2>2. parks[u] \in Members /\ parks[u] \in Parks /\ 0 \in Members /\ parks[u] \in Nat
    BY Counts, Ranges DEF Waiting, Owed, Types, TableTypes, Members, Parks
  <2>3. CASE CopyLeft(u)
    BY <1>2, <2>3, CopyStays DEF Waiting, Types, Coming
  <2>4. ASSUME NEW m \in {0, parks[u]}, zset[u][m] # -1
        PROVE  Coming(u)'
    <3>1. ASSUME NEW p \in Procs, Cleanup(p) PROVE Coming(u)'
      <4>1. CASE <<u, m>> \in work[p].batch
        BY <2>4, <3>1, <4>1, CleanupLeavesCopy DEF Waiting
      <4>2. CASE <<u, m>> \notin work[p].batch
        <5>1. zset'[u][m] = zset[u][m]
          BY <2>2, <3>1, <4>2, CleanupRemoves DEF Types
        <5> QED
          BY <2>1, <2>4, <5>1 DEF Coming
      <4> QED
        BY <4>1, <4>2
    <3>2. ASSUME NEW t \in Tasks, NEW g \in Parks, Consume(t, g) \/ ConsumeCrash(t, g)
          PROVE  zset'[u][m] # -1
      BY <2>2, <2>4, <3>2, QueueMoves, Counts DEF Consume, ConsumeCrash, Types
    <3>3. ASSUME NEW p \in Procs, Requeue(p) \/ RequeueFails(p) PROVE zset'[u][m] # -1
      BY <2>2, <2>4, <3>3, RequeueMoves, RequeueFailsMoves DEF Types
    <3>4. ASSUME NEW p \in Procs, Claim(p) PROVE zset'[u][m] # -1
      BY <2>2, <2>4, <3>4, ClaimHides, SchedulerAssumption DEF Types
    <3>5. ASSUME Tick PROVE zset'[u][m] # -1
      BY <2>2, <2>4, <3>5, Counts DEF Tick, Less, Types
    <3>6. zset'[u][m] # -1 => Coming(u)'
      BY <2>1 DEF Coming
    <3> QED
      BY <2>4, <3>1, <3>2, <3>3, <3>4, <3>5, <3>6, ZsetMoves
  <2>5. CASE <<u, parks[u]>> \in scheduled
    <3>1. ASSUME NEW t \in Tasks, NEW g \in Parks, Consume(t, g), t = u, g = parks[u]
          PROVE  zset'[u][parks[u]] # -1
      BY <2>2, <3>1, QueueMoves, Counts DEF Consume, Types
    <3>2. <<u, parks[u]>> \in scheduled' \/ zset'[u][parks[u]] # -1
      BY <2>5, <3>1, ScheduledMoves DEF EngineAnnounce, Announce, Consume
    <3> QED
      BY <2>1, <3>2 DEF Coming
  <2>6. CASE parks[u] = 1 /\ engine[u] \in {"inserted", "again"}
    <3>1. ASSUME NEW t \in Tasks, EngineInsert(t) \/ EngineCrash(t)
          PROVE  engine'[u] \in {"inserted", "again"}
      BY <2>6, <3>1 DEF EngineInsert, EngineCrash, Types, SendTypes
    <3>2. ASSUME NEW t \in Tasks, EngineAnnounce(t)
          PROVE  engine'[u] = engine[u] \/ <<u, 1>> \in scheduled'
      BY <3>2 DEF EngineAnnounce, Types, SendTypes
    <3>3. ASSUME NEW t \in Tasks, EngineAgain(t)
          PROVE  engine'[u] \in {"inserted", "again"} \/ CopyLeft(u)'
      BY <2>6, <3>3 DEF EngineAgain, delivery, Types, SendTypes, OutboundTypes,
         EntryIsThere, Waiting, CopyLeft, Reparked
    <3>4. ASSUME NEW t \in Tasks, EngineSkips(t)
          PROVE  engine'[u] = engine[u] \/ Coming(u)'
      <4>1. CASE t = u
        <5>1. ~Unannounced(u)
          BY <2>6, <3>4, <4>1, SkippedIsLost DEF Waiting
        <5>2. UNCHANGED <<zset, scheduled>>
          BY <3>4 DEF EngineSkips, streams
        <5> QED
          BY <2>1, <5>1, <5>2 DEF Unannounced, Coming
      <4>2. CASE t # u
        BY <3>4, <4>2 DEF EngineSkips, Types, SendTypes
      <4> QED
        BY <4>1, <4>2
    <3> QED
      BY <2>1, <2>6, <3>1, <3>2, <3>3, <3>4, EngineMoves DEF Coming
  <2>7. CASE attempt[u] \in {"retryAnnounce", "deferAnnounce"}
    <3>1. ASSUME NEW t \in Tasks, Announce(t)
          PROVE  attempt'[u] = attempt[u] \/ <<u, parks[u]>> \in scheduled'
      BY <3>1 DEF Announce, Step, Types, SendTypes
    <3>2. ASSUME NEW t \in Tasks, DeliveryCrash(t)
          PROVE  attempt'[u] = attempt[u] \/ CopyLeft(u)'
      BY <2>7, <3>2 DEF DeliveryCrash, streams, Types, SendTypes, OutboundTypes,
         EntryIsThere, Waiting, CopyLeft, Reparked
    <3>3. ASSUME NEW t \in Tasks,
                 \/ Take(t) \/ SendOk(t) \/ Mark(t) \/ MarkFails(t) \/ SendFails(t)
                 \/ GiveUp(t) \/ Throttled(t) \/ RetryDone(t) \/ DeferDone(t)
          PROVE  attempt'[u] = attempt[u]
      BY <2>7, <3>3 DEF Take, SendOk, Mark, MarkFails, SendFails, GiveUp, Throttled,
         RetryDone, DeferDone, Step, Types, SendTypes
    <3>4. ASSUME NEW t \in Tasks, Repark(t) PROVE attempt'[u] = attempt[u]
      BY <1>2, <3>4 DEF Repark, Step, Types, SendTypes
    <3> QED
      BY <2>1, <2>7, <3>1, <3>2, <3>3, <3>4, AttemptMoves DEF Coming
  <2> QED
    BY <2>3, <2>4, <2>5, <2>6, <2>7 DEF Coming
<1> QED
  BY <1>1, <1>2

\* The sentinel is set by a rebuild that has queued what waits, and goes with
\* the members.
LEMMA SealedStep ==
    ASSUME NEW u \in Tasks, Types, Started(u), EarlyIsFirst(u), SentIsKnown(u),
           EntryIsThere(u),
           \A q \in Procs : WorkFits(q) /\ PublishedIsThere(u, q) /\ ClaimedIsRead(u, q),
           \A q \in Procs : RebuiltIsComing(u, q), SealedIsComing(u), [Next]_vars
    PROVE  SealedIsComing(u)'
<1> SUFFICES ASSUME Waiting(u)', sentinel' PROVE Coming(u)'
  BY DEF SealedIsComing
<1>1. CASE ~Waiting(u)
  BY <1>1, WaitingStarts
<1>2. CASE Waiting(u)
  <2>1. Coming(u)
    <3>1. CASE sentinel
      BY <1>2, <3>1 DEF SealedIsComing
    <3>2. CASE ~sentinel
      <4>1. PICK p \in Procs : Seal(p)
        BY <3>2, SentinelMoves DEF Wipe
      <4> QED
        BY <1>2, <4>1 DEF Seal, Goto, RebuiltIsComing
    <3> QED
      BY <3>1, <3>2
  <2>2. ~Wipe
    BY DEF Wipe
  <2>3. sentinel \/ \E q \in Procs : pc[q] \in {"queue", "seal"}
    BY SentinelMoves DEF Seal, Goto, Wipe
  <2> QED
    BY <1>2, <2>1, <2>2, <2>3, ComingStays
<1> QED
  BY <1>1, <1>2

\* A rebuild under way has read every row that waits and has nothing else
\* coming: what was parked since is announced.
LEMMA RebuiltStep ==
    ASSUME NEW u \in Tasks, NEW q \in Procs, Types, Started(u), EarlyIsFirst(u),
           SentIsKnown(u), EntryIsThere(u),
           \A p \in Procs : WorkFits(p) /\ PublishedIsThere(u, p) /\ ClaimedIsRead(u, p),
           RebuiltIsComing(u, q), [Next]_vars
    PROVE  RebuiltIsComing(u, q)'
<1> SUFFICES ASSUME Waiting(u)', pc'[q] \in {"queue", "seal"}
             PROVE  Coming(u)' \/ (pc'[q] = "queue" /\ work'[q].got[u] # 0)
  BY DEF RebuiltIsComing
<1>1. CASE ~Waiting(u)
  BY <1>1, WaitingStarts
<1>2. ASSUME Waiting(u), Coming(u), pc[q] \in {"queue", "seal"} PROVE Coming(u)'
  <2>1. ASSUME Wipe PROVE FALSE
    <3>1. <<u, "sealed">> \in slips'
      BY <1>2, <2>1 DEF Wipe, Slip
    <3> QED
      BY <3>1 DEF Waiting, Lost, Slipped
  <2> QED
    BY <1>2, <2>1, ComingStays
<1>3. ASSUME Waiting(u), ReadRows(q) PROVE pc'[q] = "queue" /\ work'[q].got[u] # 0
  BY <1>3, Counts DEF ReadRows, Goto, Waiting, Owed, Types, PollTypes
<1>4. ASSUME Waiting(u), Requeue(q) PROVE Coming(u)'
  <2>1. Coming(u) \/ work[q].got[u] # 0
    BY <1>4 DEF Requeue, Goto, RebuiltIsComing
  <2>2. CASE Coming(u)
    BY <1>2, <1>4, <2>2 DEF Requeue, Goto
  <2>3. CASE work[q].got[u] # 0
    <3>1. work[q].got[u] \in Parks
      BY <2>3, Ranges DEF Types, PollTypes
    <3>2. zset'[u][0] = IF zset[u][0] = -1 THEN due[u][work[q].got[u]] ELSE zset[u][0]
      BY <1>4, <2>3, RequeueMoves, Ranges DEF Types
    <3>3. due[u][work[q].got[u]] \in Nat
      BY <3>1, Counts DEF Types
    <3>4. due[u][work[q].got[u]] # -1
      BY <3>3
    <3> QED
      BY <3>2, <3>4 DEF Coming
  <2> QED
    BY <2>1, <2>2, <2>3
<1>5. ASSUME ~ReadRows(q), ~Requeue(q), ~RequeueFails(q)
      PROVE  pc'[q] = pc[q] /\ (pc[q] = "queue" => work'[q].got = work[q].got)
  <2>1. ASSUME NEW p \in Procs, NEW t \in Tasks, Release(p, t)
        PROVE  pc'[q] = pc[q] /\ (pc[q] = "queue" => work'[q].got = work[q].got)
    BY <2>1 DEF Release, Types, PollTypes
  <2>2. ASSUME NEW p \in Procs, p # q,
               \/ LookSentinel(p) \/ ReadRows(p) \/ Requeue(p) \/ RequeueFails(p) \/ Seal(p) \/ LockPoll(p)
               \/ Claim(p) \/ Load(p) \/ Gate(p) \/ Released(p) \/ Delete(p) \/ Cleanup(p)
               \/ Unlock(p) \/ DeleteFails(p) \/ PollFails(p) \/ Crash(p)
        PROVE  pc'[q] = pc[q] /\ work'[q] = work[q]
    BY <2>2 DEF LookSentinel, ReadRows, Requeue, RequeueFails, Seal, LockPoll, Claim,
       Load, Gate, Released, Delete, Cleanup, Unlock, DeleteFails, PollFails, Crash, Goto,
       Types, PollTypes
  <2>3. ASSUME \/ LookSentinel(q) \/ Seal(q) \/ LockPoll(q) \/ Claim(q) \/ Load(q)
               \/ Gate(q) \/ Released(q) \/ Delete(q) \/ Cleanup(q) \/ Unlock(q)
               \/ DeleteFails(q) \/ PollFails(q) \/ Crash(q)
        PROVE  FALSE
    BY <2>3 DEF LookSentinel, Seal, LockPoll, Claim, Load, Gate, Released, Delete, Cleanup,
       Unlock, DeleteFails, PollFails, Crash, Goto, Types, PollTypes
  <2> QED
    BY <1>5, <2>1, <2>2, <2>3, PcWorkMoves
<1>6. ASSUME Waiting(u), RequeueFails(q) PROVE Coming(u)'
  <2>1. Coming(u) \/ work[q].got[u] # 0
    BY <1>6 DEF RequeueFails, Goto, RebuiltIsComing
  <2>2. CASE Coming(u)
    BY <1>2, <1>6, <2>2 DEF RequeueFails, Goto
  <2>3. CASE work[q].got[u] # 0 /\ ~Coming(u)
    <3>1. work[q].got[u] \in Parks
      BY <2>3, Ranges DEF Types, PollTypes
    <3>2. Unannounced(u)
      BY <2>3 DEF Unannounced, Coming
    <3>3. <<u, "unqueued">> \notin slips'
      BY DEF Waiting, Lost, Slipped
    <3>4. zset'[u][0] = due[u][work[q].got[u]]
      BY <1>6, <2>3, <3>2, <3>3, RequeueFailsLeaves DEF Types, Coming
    <3>5. due[u][work[q].got[u]] \in Nat
      BY <3>1, Counts DEF Types
    <3>6. due[u][work[q].got[u]] # -1
      BY <3>5
    <3> QED
      BY <3>4, <3>6 DEF Coming
  <2> QED
    BY <2>1, <2>2, <2>3
<1> QED
  BY <1>1, <1>2, <1>3, <1>4, <1>5, <1>6 DEF RebuiltIsComing

\* The parts of the invariant that keep a send from being forgotten.
Held(u) ==
    /\ SentIsKnown(u) /\ EntryIsThere(u) /\ RowOrCopy(u) /\ SealedIsComing(u)
    /\ \A q \in Procs :
          PublishedIsThere(u, q) /\ ClaimedIsRead(u, q) /\ RebuiltIsComing(u, q)

LEMMA HeldInit == Init => \A u \in Tasks : Held(u)
BY DEF Init, Held, SentIsKnown, EntryIsThere, RowOrCopy, SealedIsComing, PublishedIsThere,
   ClaimedIsRead, RebuiltIsComing, Owed, Waiting

LEMMA HeldStep ==
    Base /\ (\A u \in Tasks : Held(u)) /\ [Next]_vars => (\A u \in Tasks : Held(u))'
<1> SUFFICES ASSUME Base, \A v \in Tasks : Held(v), [Next]_vars, NEW u \in Tasks
             PROVE  Held(u)'
  OBVIOUS
<1> USE DEF Base
<1>1. SentIsKnown(u)' /\ EntryIsThere(u)'
  BY SentKnownStep, EntryStep DEF Held, Types
<1>2. RowOrCopy(u)'
  BY RowOrCopyStep DEF Held
<1>3. SealedIsComing(u)'
  BY SealedStep DEF Held
<1>4. ASSUME NEW q \in Procs
      PROVE  PublishedIsThere(u, q)' /\ ClaimedIsRead(u, q)' /\ RebuiltIsComing(u, q)'
  BY PublishedStep, ClaimedReadStep, RebuiltStep DEF Held
<1> QED
  BY <1>1, <1>2, <1>3, <1>4 DEF Held

\* No parked send is forgotten, whichever process dies or fails: what is owed
\* and not in hand has a row, and as long as the sentinel stands the row has a
\* member, a stale one or its own, or an announcement (scheduler/main.ts:258).
\* Excepted are the races that Kept names.
THEOREM NothingForgotten == Spec => []Kept
<1>1. ASSUME Base, NEW t \in Tasks, Held(t), Owed(t), ~Lost(t), ~InHand(t)
      PROVE  Queued(t)
  <2>1. parks[t] > 0 /\ parks[t] \in Nat /\ parks[t] \in Members /\ parks[t] \in Parks
    BY <1>1, Counts, Ranges DEF Base, Types, Owed, TableTypes, Members, Parks
  <2>2. ~CopyLeft(t)
    BY <1>1 DEF Base, Types, OutboundTypes, InHand, CopyLeft, Reparked
  <2>3. row[t] = parks[t]
    BY <1>1, <2>2 DEF Held, RowOrCopy
  <2>4. CASE sentinel
    <3>1. Coming(t)
      BY <1>1, <2>3, <2>4 DEF Held, SealedIsComing, Waiting
    <3> QED
      BY <1>1, <2>1, <2>2, <2>3, <3>1, Ranges DEF Coming, InHand, Queued
  <2>5. CASE ~sentinel
    BY <2>1, <2>3, <2>5 DEF Queued
  <2> QED
    BY <2>4, <2>5
<1>2. Base /\ (\A t \in Tasks : Held(t)) => Kept
  BY <1>1 DEF Kept, Lost
<1>3. Init => Base /\ (\A t \in Tasks : Held(t))
  BY BaseInit, HeldInit
<1>4. Base /\ (\A t \in Tasks : Held(t)) /\ [Next]_vars
      => Base' /\ (\A t \in Tasks : Held(t))'
  BY BaseStep, HeldStep
<1> QED
  BY <1>2, <1>3, <1>4, PTL DEF Spec

=============================================================================
