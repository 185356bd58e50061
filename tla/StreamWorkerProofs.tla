------------------------- MODULE StreamWorkerProofs -------------------------
(***************************************************************************)
(* Proofs about StreamWorker, for every set of entries, keys and workers,  *)
(* every bound, and every timing.                                          *)
(***************************************************************************)
EXTENDS StreamWorker, TLAPS

\* Every variable keeps its type.
THEOREM TypeInvariant == Spec => []TypeOK
<1> USE StreamWorkerAssumption
<1>1. Init => TypeOK
  BY DEF Init, TypeOK, Task, NoTask, Pcs, Deliveries
<1>2. TypeOK /\ [Next]_vars => TypeOK'
  <2> SUFFICES ASSUME TypeOK, [Next]_vars PROVE TypeOK'
    OBVIOUS
  <2> USE DEF TypeOK, redis, guard, local, history
  <2>1. CASE Tick
    <3>1. idle' \in [Msgs -> Nat]
      BY <2>1 DEF Tick
    <3>2. ttl' \in [Keys -> Nat]
      BY <2>1 DEF Tick
    <3>3. excused' \in [Keys -> BOOLEAN]
      BY <2>1 DEF Tick
    <3> QED BY <2>1, <3>1, <3>2, <3>3 DEF Tick
  <2>2. ASSUME NEW m \in Msgs, Publish(m) PROVE TypeOK'
    BY <2>2 DEF Publish
  <2>3. ASSUME NEW k \in Keys, ForgetKey(k) PROVE TypeOK'
    BY <2>3 DEF ForgetKey
  <2>4. ASSUME NEW m \in Msgs, NEW d \in Deliveries, Touch(m, d) PROVE TypeOK'
    BY <2>4 DEF Touch
  <2>5. ASSUME NEW m \in Msgs, NEW d \in Deliveries, Step(m, d) PROVE TypeOK'
    <3>a. \A p \in Pcs : SetPc(m, d, p) => task' \in [Msgs -> [Deliveries -> Task]]
      BY DEF SetPc, Task
    <3>b. EndTask(m, d) => task' \in [Msgs -> [Deliveries -> Task]]
      BY DEF EndTask, NoTask, Task, Pcs
    <3>c. Fault => faults' \in 0..MaxFaults
      BY DEF Fault
    <3>d. \A t \in Nat, v \in {"none", "L", "1"} : SetKey(KeyOf[m], v, t) =>
            key' \in [Keys -> {"none", "L", "1"}] /\ ttl' \in [Keys -> Nat]
      BY DEF SetKey
    <3>e. AckAndDelete({m}) =>
            /\ where' \in [Msgs -> {"new", "unread", "pending", "acked", "gone"}]
            /\ faults' \in 0..MaxFaults
      BY <3>c DEF AckAndDelete
    <3> USE <3>a, <3>b, <3>c, <3>d, <3>e DEF Pcs
    <3>1. CASE Acquire(m, d) BY <3>1 DEF Acquire
    <3>2. CASE GuardFails(m, d) BY <3>2 DEF GuardFails
    <3>3. CASE TakeKey(m, d) BY <3>3 DEF TakeKey
    <3>4. CASE Duplicate(m, d) BY <3>4 DEF Duplicate
    <3>5. CASE Locked(m, d) BY <3>5 DEF Locked
    <3>6. CASE Work(m, d) BY <3>6 DEF Work
    <3>7. CASE WorkFails(m, d) BY <3>7 DEF WorkFails
    <3>8. CASE Unmark(m, d) BY <3>8 DEF Unmark
    <3>9. CASE MarkProcessed(m, d) BY <3>9 DEF MarkProcessed
    <3>10. CASE MarkFails(m, d) BY <3>10 DEF MarkFails
    <3>11. CASE Ack(m, d)
      <4>1. ackBuf' \in [Workers -> SUBSET Msgs]
        <5>1. \/ ackBuf' = ackBuf
              \/ ackBuf' = [ackBuf EXCEPT ![task[m][d].owner] = @ \union {m}]
          BY <3>11, Zenon DEF Ack
        <5> QED BY <5>1
      <4>2. /\ where' \in [Msgs -> {"new", "unread", "pending", "acked", "gone"}]
            /\ faults' \in 0..MaxFaults
        BY <3>11 DEF Ack
      <4> QED BY <3>11, <4>1, <4>2 DEF Ack
    <3>12. CASE Nack(m, d)
      <4>1. dlq' \in [Msgs -> Nat]
        <5>1. dlq' = dlq \/ dlq' = [dlq EXCEPT ![m] = @ + 1]
          BY <3>12, Zenon DEF Nack
        <5> QED BY <5>1
      <4>2. faults' \in 0..MaxFaults
        BY <3>12 DEF Nack
      <4>3. task' \in [Msgs -> [Deliveries -> Task]]
        BY <3>12 DEF Nack
      <4> QED BY <3>12, <4>1, <4>2, <4>3 DEF Nack
    <3>13. CASE NackAck(m, d) BY <3>13 DEF NackAck
    <3> QED
      BY <2>5, <3>1, <3>2, <3>3, <3>4, <3>5, <3>6, <3>7, <3>8, <3>9, <3>10,
         <3>11, <3>12, <3>13 DEF Step
  <2>6. ASSUME NEW w \in Workers, Process(w) PROVE TypeOK'
    <3> USE DEF Task, NoTask, NewTask, Pcs, Fault, Deliveries
    <3>1. ASSUME NEW m \in Msgs, Read(w, m) PROVE TypeOK'
      BY <3>1 DEF Read
    <3>2. CASE ScanList(w) BY <3>2 DEF ScanList
    <3>3. CASE ScanClaim(w)
      <4>1. \A m \in Msgs : NextDelivery(m) \in Deliveries
        BY DEF NextDelivery
      <4>2. count' \in [Msgs -> 0..MaxDeliveries]
        BY <3>3, <4>1 DEF ScanClaim
      <4>3. idle' \in [Msgs -> Nat]
        BY <3>3 DEF ScanClaim
      <4>4. task' \in [Msgs -> [Deliveries -> Task]]
        <5>1. \A m \in Msgs : NewTask(w, listing[w][m] + 1) \in Task
          BY DEF NewTask, Task, Pcs
        <5>2. \A m \in Msgs :
                [task[m] EXCEPT ![NextDelivery(m)] = NewTask(w, listing[w][m] + 1)]
                  \in [Deliveries -> Task]
          BY <4>1, <5>1
        <5> QED BY <3>3, <5>2 DEF ScanClaim
      <4> QED BY <3>3, <4>2, <4>3, <4>4 DEF ScanClaim
    <3>4. CASE FlushAcks(w)
      <4>1. where' \in [Msgs -> {"new", "unread", "pending", "acked", "gone"}]
        BY <3>4 DEF FlushAcks, AckAndDelete
      <4>2. faults' \in 0..MaxFaults
        BY <3>4 DEF FlushAcks, AckAndDelete
      <4> QED BY <3>4, <4>1, <4>2 DEF FlushAcks
    <3>5. CASE Stop(w) BY <3>5 DEF Stop
    <3>6. CASE Exit(w) BY <3>6 DEF Exit, Gone
    <3>7. CASE Crash(w) BY <3>7 DEF Crash, Gone
    <3>8. CASE Start(w) BY <3>8 DEF Start
    <3> QED
      BY <2>6, <3>1, <3>2, <3>3, <3>4, <3>5, <3>6, <3>7, <3>8 DEF Process
  <2>7. CASE UNCHANGED vars
    BY <2>7 DEF vars
  <2> QED BY <2>1, <2>2, <2>3, <2>4, <2>5, <2>6, <2>7 DEF Next
<1> QED BY <1>1, <1>2, PTL DEF Spec

-----------------------------------------------------------------------------
(* What a step does to the tasks.                                          *)

\* SetPc moves one task and leaves every other task alone.
LEMMA SetPcMoves ==
  ASSUME TypeOK, NEW m \in Msgs, NEW d \in Deliveries, NEW p \in Pcs, SetPc(m, d, p)
  PROVE  \A n \in Msgs, e \in Deliveries :
           task'[n][e].pc = IF n = m /\ e = d THEN p ELSE task[n][e].pc
BY DEF TypeOK, SetPc, Task

\* EndTask clears one task and leaves every other task alone.
LEMMA EndTaskClears ==
  ASSUME TypeOK, NEW m \in Msgs, NEW d \in Deliveries, EndTask(m, d)
  PROVE  \A n \in Msgs, e \in Deliveries :
           task'[n][e].pc = IF n = m /\ e = d THEN "none" ELSE task[n][e].pc
BY DEF TypeOK, EndTask, NoTask, Task

\* ackAndDelete settles only the entries it is given.
LEMMA AckSettles ==
  ASSUME TypeOK, NEW ids \in SUBSET Msgs, AckAndDelete(ids)
  PROVE  \A m \in Msgs :
           \/ where'[m] = where[m]
           \/ m \in ids /\ where'[m] \in {"acked", "gone"}
<1>1. CASE where' = [m \in Msgs |-> IF m \in ids THEN "gone" ELSE where[m]]
  BY <1>1
<1>2. CASE where' = [m \in Msgs |-> IF m \in ids /\ where[m] = "pending"
                                    THEN "acked" ELSE where[m]]
  BY <1>2
<1>3. CASE UNCHANGED where
  BY <1>3
<1> QED BY <1>1, <1>2, <1>3 DEF AckAndDelete

\* Nothing is in memory for an entry that was never read.
LEMMA Fresh == TypeOK /\ FreshInv /\ [Next]_vars => FreshInv'
<1> SUFFICES ASSUME TypeOK, FreshInv, [Next]_vars PROVE FreshInv'
  OBVIOUS
<1> USE DEF FreshInv, redis, guard, local, history
<1>1. CASE Tick BY <1>1 DEF Tick
<1>2. ASSUME NEW m \in Msgs, Publish(m) PROVE FreshInv'
  BY <1>2 DEF Publish, TypeOK
<1>3. ASSUME NEW k \in Keys, ForgetKey(k) PROVE FreshInv'
  BY <1>3 DEF ForgetKey
<1>4. ASSUME NEW m \in Msgs, NEW d \in Deliveries, Touch(m, d) PROVE FreshInv'
  BY <1>4 DEF Touch
<1>5. ASSUME NEW m \in Msgs, NEW d \in Deliveries, Step(m, d) PROVE FreshInv'
  <2>1. task[m][d].pc # "none"
    BY <1>5 DEF Step, Acquire, GuardFails, TakeKey, Duplicate, Locked, Work, WorkFails,
       Unmark, MarkProcessed, MarkFails, Ack, Nack, NackAck
  <2>2. where[m] \notin {"new", "unread"}
    BY <2>1
  <2>3. \A n \in Msgs, e \in Deliveries : n # m => task'[n][e] = task[n][e]
    BY <1>5 DEF TypeOK, SetPc, EndTask, Step, Acquire, GuardFails, TakeKey, Duplicate,
       Locked, Work, WorkFails, Unmark, MarkProcessed, MarkFails, Ack, Nack, NackAck
  <2>4. \A n \in Msgs :
          \/ where'[n] = where[n]
          \/ n = m /\ where'[n] \in {"acked", "gone"}
    <3>1. AckAndDelete({m}) =>
            \A n \in Msgs :
              \/ where'[n] = where[n]
              \/ n = m /\ where'[n] \in {"acked", "gone"}
      BY AckSettles
    <3> QED
      BY <1>5, <3>1 DEF Step, Acquire, GuardFails, TakeKey, Duplicate, Locked, Work,
         WorkFails, Unmark, MarkProcessed, MarkFails, Ack, Nack, NackAck
  <2> QED BY <2>2, <2>3, <2>4
<1>6. ASSUME NEW w \in Workers, Process(w) PROVE FreshInv'
  <2>1. ASSUME NEW m \in Msgs, Read(w, m) PROVE FreshInv'
    <3>1. where'[m] = "pending"
      BY <2>1 DEF Read, TypeOK
    <3>2. \A n \in Msgs : n # m => where'[n] = where[n] /\ task'[n] = task[n]
      BY <2>1 DEF Read, TypeOK
    <3> QED BY <3>1, <3>2
  <2>2. CASE ScanList(w) BY <2>2 DEF ScanList
  <2>3. CASE ScanClaim(w)
    <3>1. \A n \in Msgs : n \notin Claimed(w) => task'[n] = task[n]
      BY <2>3 DEF ScanClaim
    <3>2. \A n \in Claimed(w) : where[n] = "pending"
      BY DEF Claimed
    <3> QED BY <2>3, <3>1, <3>2 DEF ScanClaim
  <2>4. CASE FlushAcks(w)
    <3>1. ackBuf[w] \in SUBSET Msgs BY DEF TypeOK
    <3>2. \A n \in Msgs : where'[n] \in {"new", "unread"} => where'[n] = where[n]
      BY <2>4 DEF FlushAcks, AckAndDelete, TypeOK
    <3> QED BY <2>4, <3>2 DEF FlushAcks
  <2>5. CASE Stop(w)
    <3>1. \A n \in Msgs : where'[n] \in {"new", "unread"} => where'[n] = where[n]
      BY <2>5 DEF Stop, TypeOK
    <3>2. \A n \in Msgs, e \in Deliveries : task[n][e].pc = "none" => task'[n][e].pc = "none"
      BY <2>5 DEF Stop, NoTask
    <3> QED BY <3>1, <3>2
  <2>6. CASE Exit(w)
    <3>1. \A n \in Msgs, e \in Deliveries : task[n][e].pc = "none" => task'[n][e].pc = "none"
      BY <2>6 DEF Exit, Gone, NoTask
    <3> QED BY <2>6, <3>1 DEF Exit
  <2>7. CASE Crash(w)
    <3>1. \A n \in Msgs, e \in Deliveries : task[n][e].pc = "none" => task'[n][e].pc = "none"
      BY <2>7 DEF Crash, Gone, NoTask
    <3> QED BY <2>7, <3>1 DEF Crash
  <2>8. CASE Start(w) BY <2>8 DEF Start
  <2> QED BY <1>6, <2>1, <2>2, <2>3, <2>4, <2>5, <2>6, <2>7, <2>8 DEF Process
<1>7. CASE UNCHANGED vars BY <1>7 DEF vars
<1> QED BY <1>1, <1>2, <1>3, <1>4, <1>5, <1>6, <1>7 DEF Next

-----------------------------------------------------------------------------
(* Nothing is lost by a stage that takes a lease.                          *)

\* A step of a task keeps LossInv.
LEMMA LossStep ==
  ASSUME Mode = "lease", TypeOK, LossInv,
         NEW m \in Msgs, NEW d \in Deliveries, Step(m, d)
  PROVE  LossInv'
<1> USE StreamWorkerAssumption DEF LossInv, NoLoss, redis, guard, local, history
<1>k. KeyOf[m] \in Keys /\ \A n \in Msgs : KeyOf[n] \in Keys
  OBVIOUS
<1>1. CASE Acquire(m, d)
  <2>1. \A n \in Msgs, e \in Deliveries :
          task'[n][e].pc = task[n][e].pc \/ task'[n][e].pc \in {"nack", "begin"}
    BY <1>1, SetPcMoves DEF Acquire, Pcs
  <2> QED BY <1>1, <2>1 DEF Acquire
<1>2. CASE GuardFails(m, d) \/ Locked(m, d)
  <2>1. \A n \in Msgs, e \in Deliveries :
          task'[n][e].pc = task[n][e].pc \/ task'[n][e].pc = "none"
    BY <1>2, EndTaskClears DEF GuardFails, Locked
  <2> QED BY <1>2, <2>1 DEF GuardFails, Locked
<1>3. CASE TakeKey(m, d)
  <2>1. \A n \in Msgs, e \in Deliveries :
          task'[n][e].pc = task[n][e].pc \/ task'[n][e].pc \in {"working", "none"}
    BY <1>3, SetPcMoves, EndTaskClears DEF TakeKey, Pcs
  <2>2. key' = [key EXCEPT ![KeyOf[m]] = "L"]
    BY <1>3 DEF TakeKey, SetKey
  <2>3. \A k \in Keys : key'[k] = "1" => key[k] = "1"
    BY <2>2 DEF TypeOK
  <2> QED BY <1>3, <2>1, <2>3 DEF TakeKey
<1>4. CASE Duplicate(m, d)
  <2>1. \A n \in Msgs, e \in Deliveries :
          task'[n][e].pc = IF n = m /\ e = d THEN "ack" ELSE task[n][e].pc
    BY <1>4, SetPcMoves DEF Duplicate, Pcs
  <2>2. effects[KeyOf[m]] > 0
    BY <1>4, <1>k DEF Duplicate
  <2> QED BY <1>4, <2>1, <2>2 DEF Duplicate
<1>5. CASE Work(m, d)
  <2>1. \A n \in Msgs, e \in Deliveries :
          task'[n][e].pc = IF n = m /\ e = d THEN "mark" ELSE task[n][e].pc
    BY <1>5, SetPcMoves DEF Work, Pcs
  <2>2. \A k \in Keys : effects[k] > 0 => effects'[k] > 0
    BY <1>5 DEF Work, TypeOK
  <2>3. effects'[KeyOf[m]] > 0
    BY <1>5, <1>k DEF Work, TypeOK
  <2>4. \A w \in Workers : ackBuf[w] \in SUBSET Msgs
    BY DEF TypeOK
  <2> QED BY <1>5, <1>k, <2>1, <2>2, <2>3, <2>4 DEF Work
<1>6. CASE WorkFails(m, d)
  <2>1. \A n \in Msgs, e \in Deliveries :
          \/ task'[n][e].pc = task[n][e].pc
          \/ task'[n][e].pc \in {"unmark", "unmarkNack"}
    BY <1>6, SetPcMoves DEF WorkFails, Pcs
  <2> QED BY <1>6, <2>1 DEF WorkFails
<1>7. CASE Unmark(m, d)
  <2>1. \A n \in Msgs, e \in Deliveries :
          task'[n][e].pc = task[n][e].pc \/ task'[n][e].pc \in {"none", "nack"}
    BY <1>7, SetPcMoves, EndTaskClears DEF Unmark, Pcs
  <2>2. \A k \in Keys : key'[k] = "1" => key[k] = "1"
    BY <1>7 DEF Unmark, SetKey, TypeOK
  <2> QED BY <1>7, <2>1, <2>2 DEF Unmark
<1>8. CASE MarkProcessed(m, d)
  <2>1. \A n \in Msgs, e \in Deliveries :
          task'[n][e].pc = IF n = m /\ e = d THEN "ack" ELSE task[n][e].pc
    BY <1>8, SetPcMoves DEF MarkProcessed, Pcs
  <2>2. effects[KeyOf[m]] > 0
    BY <1>8 DEF MarkProcessed
  <2>3. \A k \in Keys : key'[k] = "1" => key[k] = "1" \/ k = KeyOf[m]
    BY <1>8 DEF MarkProcessed, SetKey, TypeOK
  <2> QED BY <1>8, <2>1, <2>2, <2>3 DEF MarkProcessed
<1>9. CASE MarkFails(m, d)
  <2>1. \A n \in Msgs, e \in Deliveries :
          task'[n][e].pc = task[n][e].pc \/ task'[n][e].pc \in {"none", "unmark"}
    BY <1>9, SetPcMoves, EndTaskClears DEF MarkFails, Pcs
  <2> QED BY <1>9, <2>1 DEF MarkFails
<1>10. CASE Ack(m, d)
  <2>1. \A n \in Msgs, e \in Deliveries :
          task'[n][e].pc = task[n][e].pc \/ task'[n][e].pc = "none"
    BY <1>10, EndTaskClears DEF Ack
  <2>2. effects[KeyOf[m]] > 0
    BY <1>10 DEF Ack
  <2>3. \A n \in Msgs : where'[n] = where[n] \/ n = m
    BY <1>10, AckSettles DEF Ack
  <2>4. \A w \in Workers : ackBuf'[w] \subseteq ackBuf[w] \union {m}
    <3>1. \/ ackBuf' = ackBuf
          \/ ackBuf' = [ackBuf EXCEPT ![task[m][d].owner] = @ \union {m}]
      BY <1>10, Zenon DEF Ack
    <3> QED BY <3>1 DEF TypeOK
  <2> QED BY <1>10, <2>1, <2>2, <2>3, <2>4 DEF Ack
<1>11. CASE Nack(m, d)
  <2>1. dlq' = dlq \/ dlq' = [dlq EXCEPT ![m] = @ + 1]
    BY <1>11, Zenon DEF Nack
  <2>2. \A n \in Msgs : dlq[n] > 0 => dlq'[n] > 0
    <3>1. dlq \in [Msgs -> Nat]
      BY DEF TypeOK
    <3>2. CASE dlq' = [dlq EXCEPT ![m] = @ + 1]
      BY <3>1, <3>2
    <3> QED BY <2>1, <3>2
  <2>3. \A n \in Msgs, e \in Deliveries :
          \/ task'[n][e].pc = task[n][e].pc
          \/ task'[n][e].pc = "none"
          \/ n = m /\ task'[n][e].pc = "nacked" /\ dlq'[m] > 0
    <3>1. CASE EndTask(m, d) BY <3>1, EndTaskClears
    <3>2. CASE SetPc(m, d, "nacked") /\ dlq' = [dlq EXCEPT ![m] = @ + 1]
      <4>1. dlq'[m] > 0 BY <3>2 DEF TypeOK
      <4>2. \A n \in Msgs, e \in Deliveries :
              task'[n][e].pc = IF n = m /\ e = d THEN "nacked" ELSE task[n][e].pc
        BY <3>2, SetPcMoves DEF Pcs
      <4> QED BY <4>1, <4>2
    <3> QED BY <1>11, <3>1, <3>2 DEF Nack
  <2> QED BY <1>11, <2>2, <2>3 DEF Nack
<1>12. CASE NackAck(m, d)
  <2>1. \A n \in Msgs, e \in Deliveries :
          task'[n][e].pc = task[n][e].pc \/ task'[n][e].pc = "none"
    BY <1>12, EndTaskClears DEF NackAck
  <2>2. dlq[m] > 0
    BY <1>12 DEF NackAck
  <2>3. \A n \in Msgs : where'[n] = where[n] \/ n = m
    BY <1>12, AckSettles DEF NackAck
  <2> QED BY <1>12, <2>1, <2>2, <2>3 DEF NackAck
<1> QED
  BY <1>1, <1>2, <1>3, <1>4, <1>5, <1>6, <1>7, <1>8, <1>9, <1>10, <1>11, <1>12 DEF Step

\* The other steps keep LossInv.
LEMMA LossProcess ==
  ASSUME Mode = "lease", TypeOK, LossInv, NEW w \in Workers, Process(w)
  PROVE  LossInv'
<1> USE StreamWorkerAssumption DEF LossInv, NoLoss, redis, guard, local, history
<1>b. \A v \in Workers : ackBuf[v] \in SUBSET Msgs
  BY DEF TypeOK
<1>1. ASSUME NEW m \in Msgs, Read(w, m) PROVE LossInv'
  <2>1. \A n \in Msgs, e \in Deliveries :
          task'[n][e].pc = task[n][e].pc \/ task'[n][e].pc = "waiting"
    BY <1>1 DEF Read, TypeOK, NewTask, Task
  <2>2. \A n \in Msgs : where'[n] = where[n] \/ where'[n] = "pending"
    BY <1>1 DEF Read, TypeOK
  <2> QED BY <1>1, <2>1, <2>2 DEF Read
<1>2. CASE ScanList(w) BY <1>2 DEF ScanList
<1>3. CASE ScanClaim(w)
  <2>1. \A n \in Msgs, e \in Deliveries :
          task'[n][e].pc = task[n][e].pc \/ task'[n][e].pc = "waiting"
    <3> SUFFICES ASSUME NEW n \in Msgs, NEW e \in Deliveries
                 PROVE  task'[n][e].pc = task[n][e].pc \/ task'[n][e].pc = "waiting"
      OBVIOUS
    <3>1. task'[n] = IF n \in Claimed(w) /\ status[w] = "running"
                     THEN [task[n] EXCEPT ![NextDelivery(n)] = NewTask(w, listing[w][n] + 1)]
                     ELSE task[n]
      BY <1>3 DEF ScanClaim
    <3> QED BY <3>1 DEF TypeOK, NewTask
  <2> QED BY <1>3, <2>1 DEF ScanClaim
<1>4. CASE FlushAcks(w)
  <2>1. \A n \in Msgs : where'[n] = where[n] \/ n \in ackBuf[w]
    BY <1>4, <1>b, AckSettles DEF FlushAcks
  <2>2. \A v \in Workers : ackBuf'[v] \subseteq ackBuf[v]
    BY <1>4 DEF FlushAcks, TypeOK
  <2> QED BY <1>4, <1>b, <2>1, <2>2 DEF FlushAcks
<1>5. CASE Stop(w)
  <2>1. \A n \in Msgs, e \in Deliveries :
          task'[n][e].pc = task[n][e].pc \/ task'[n][e].pc = "none"
    <3>1. PICK kept \in SUBSET Queued(w) :
            task' = [m \in Msgs |-> [d \in Deliveries |->
              IF <<m, d>> \in Queued(w) \ kept THEN NoTask ELSE task[m][d]]]
      BY <1>5, Zenon DEF Stop
    <3>2. \A n \in Msgs, e \in Deliveries :
            task'[n][e] = task[n][e] \/ task'[n][e] = NoTask
      BY <3>1, Zenon
    <3> QED BY <3>2 DEF NoTask
  <2>2. \A n \in Msgs : where'[n] = where[n] \/ n \in ackBuf[w]
    BY <1>5 DEF Stop
  <2>3. \A v \in Workers : ackBuf'[v] \subseteq ackBuf[v]
    BY <1>5 DEF Stop, TypeOK
  <2> QED BY <1>5, <1>b, <2>1, <2>2, <2>3 DEF Stop
<1>6. CASE Exit(w) \/ Crash(w)
  <2>1. \A n \in Msgs, e \in Deliveries :
          task'[n][e].pc = task[n][e].pc \/ task'[n][e].pc = "none"
    BY <1>6 DEF Exit, Crash, Gone, NoTask
  <2>2. \A v \in Workers : ackBuf'[v] \subseteq ackBuf[v]
    BY <1>6 DEF Exit, Crash, Gone, TypeOK
  <2> QED BY <1>6, <1>b, <2>1, <2>2 DEF Exit, Crash
<1>7. CASE Start(w) BY <1>7 DEF Start
<1> QED BY <1>1, <1>2, <1>3, <1>4, <1>5, <1>6, <1>7 DEF Process

\* Delivery and the AI worker never lose an entry: it leaves the pending list
\* only after its work was carried out or a copy was dead-lettered, for any
\* number of workers, crashes, reclaims, lost replies and half-applied acks.
THEOREM NothingLost == ASSUME Mode = "lease" PROVE Spec => []NoLoss
<1>1. Init => LossInv
  BY StreamWorkerAssumption DEF Init, LossInv, NoLoss, NoTask
<1>2. TypeOK /\ LossInv /\ [Next]_vars => LossInv'
  <2> SUFFICES ASSUME TypeOK, LossInv, [Next]_vars PROVE LossInv'
    OBVIOUS
  <2> USE StreamWorkerAssumption DEF LossInv, NoLoss, redis, guard, local, history
  <2>1. CASE Tick
    <3>1. \A k \in Keys : key'[k] = "1" => key[k] = "1"
      BY <2>1 DEF Tick
    <3> QED BY <2>1, <3>1 DEF Tick
  <2>2. ASSUME NEW m \in Msgs, Publish(m) PROVE LossInv'
    <3>1. \A n \in Msgs : where'[n] = where[n] \/ where'[n] = "unread"
      BY <2>2 DEF Publish, TypeOK
    <3> QED BY <2>2, <3>1 DEF Publish
  <2>3. ASSUME NEW k \in Keys, ForgetKey(k) PROVE LossInv'
    <3>1. \A j \in Keys : key'[j] = "1" => key[j] = "1"
      BY <2>3 DEF ForgetKey, TypeOK
    <3> QED BY <2>3, <3>1 DEF ForgetKey
  <2>4. ASSUME NEW m \in Msgs, NEW d \in Deliveries, Touch(m, d) PROVE LossInv'
    BY <2>4 DEF Touch
  <2>5. ASSUME NEW m \in Msgs, NEW d \in Deliveries, Step(m, d) PROVE LossInv'
    BY <2>5, LossStep
  <2>6. ASSUME NEW w \in Workers, Process(w) PROVE LossInv'
    BY <2>6, LossProcess
  <2>7. CASE UNCHANGED vars BY <2>7 DEF vars
  <2> QED BY <2>1, <2>2, <2>3, <2>4, <2>5, <2>6, <2>7 DEF Next
<1>3. LossInv => NoLoss
  BY DEF LossInv
<1> QED BY <1>1, <1>2, <1>3, TypeInvariant, PTL DEF Spec

-----------------------------------------------------------------------------
(* The work of a key is carried out once.                                  *)

\* A step that leaves a key, its effects and its tasks in process alone, or
\* only takes tasks out of process before their work is done, keeps OnceAt.
LEMMA OnceFrame ==
  ASSUME TypeOK, NEW k \in Keys, OnceAt(k),
         key'[k] = key[k], effects'[k] = effects[k], ttl[k] = 0 => ttl'[k] = 0,
         \A m \in Msgs, d \in Deliveries : KeyOf[m] = k =>
           \/ task'[m][d].pc = task[m][d].pc
           \/ task[m][d].pc # "mark" /\ ~InProcess(m, d)'
  PROVE  OnceAt(k)'
<1>1. \A m \in Msgs, d \in Deliveries : KeyOf[m] = k /\ InProcess(m, d)' =>
        InProcess(m, d) /\ task'[m][d].pc = task[m][d].pc
  BY DEF InProcess
<1>2. \A m \in Msgs, d \in Deliveries : KeyOf[m] = k /\ task[m][d].pc = "mark" =>
        task'[m][d].pc = "mark"
  OBVIOUS
<1> QED BY <1>1, <1>2 DEF OnceAt

\* A step of a task keeps OnceInv.
LEMMA OnceStep ==
  ASSUME TypeOK, OnceInv, NEW m \in Msgs, NEW d \in Deliveries, Step(m, d)
  PROVE  OnceInv'
<1> SUFFICES ASSUME NEW k \in Keys, ~excused'[k] PROVE OnceAt(k)'
  BY DEF OnceInv
<1> USE StreamWorkerAssumption DEF redis, guard, local, history
<1>x. excused[k] = FALSE
  BY DEF Step, Acquire, GuardFails, TakeKey, Duplicate, Locked, Work, WorkFails, Unmark,
     MarkProcessed, MarkFails, Ack, Nack, NackAck, TypeOK
<1>o. OnceAt(k)
  BY <1>x DEF OnceInv
<1>k. KeyOf[m] \in Keys
  OBVIOUS
\* Steps that neither take nor give up the key, nor do the work.
<1>1. CASE \/ Acquire(m, d) \/ GuardFails(m, d) \/ Duplicate(m, d) \/ Locked(m, d)
           \/ Ack(m, d) \/ Nack(m, d) \/ NackAck(m, d)
  <2>1. \A n \in Msgs, e \in Deliveries :
          \/ task'[n][e].pc = task[n][e].pc
          \/ task[n][e].pc # "mark" /\ ~InProcess(n, e)'
    BY <1>1, SetPcMoves, EndTaskClears
       DEF Acquire, GuardFails, Duplicate, Locked, Ack, Nack, NackAck, Pcs, InProcess
  <2>2. key' = key /\ ttl' = ttl /\ effects' = effects
    BY <1>1 DEF Acquire, GuardFails, Duplicate, Locked, Ack, Nack, NackAck
  <2> QED BY <1>o, <2>1, <2>2, OnceFrame
<1>2. CASE TakeKey(m, d)
  <2>1. CASE k # KeyOf[m]
    <3>1. key'[k] = key[k] /\ ttl'[k] = ttl[k] /\ effects' = effects
      BY <1>2, <2>1 DEF TakeKey, SetKey, TypeOK
    <3>2. \A n \in Msgs, e \in Deliveries : n # m => task'[n][e].pc = task[n][e].pc
      BY <1>2, SetPcMoves, EndTaskClears DEF TakeKey, Pcs
    <3> QED BY <1>o, <2>1, <3>1, <3>2, OnceFrame
  <2>2. CASE k = KeyOf[m]
    <3>1. key[k] = "none" /\ key'[k] # "none" /\ effects' = effects
      BY <1>2, <2>2 DEF TakeKey, SetKey, TypeOK
    <3>2. \A n \in Msgs, e \in Deliveries : KeyOf[n] = k => ~InProcess(n, e)
      BY <1>o, <3>1 DEF OnceAt
    <3>3. effects[k] = 0
      <4>1. \A n \in Msgs, e \in Deliveries : KeyOf[n] = k => task[n][e].pc # "mark"
        BY <3>2 DEF InProcess
      <4>2. effects[k] \in Nat
        BY DEF TypeOK
      <4> QED BY <1>o, <3>1, <4>1, <4>2 DEF OnceAt
    <3>4. \A n \in Msgs, e \in Deliveries : KeyOf[n] = k /\ InProcess(n, e)' =>
            n = m /\ e = d /\ task'[n][e].pc = "working"
      BY <1>2, <3>2, SetPcMoves, EndTaskClears DEF TakeKey, Pcs, InProcess
    <3> QED BY <3>1, <3>3, <3>4 DEF OnceAt
  <2> QED BY <2>1, <2>2
<1>3. CASE Work(m, d)
  <2>1. \A n \in Msgs, e \in Deliveries :
          task'[n][e].pc = IF n = m /\ e = d THEN "mark" ELSE task[n][e].pc
    BY <1>3, SetPcMoves DEF Work, Pcs
  <2>2. key' = key /\ ttl' = ttl /\ InProcess(m, d)
    BY <1>3 DEF Work, InProcess
  <2>3. CASE k # KeyOf[m]
    <3>1. effects'[k] = effects[k]
      BY <1>3, <2>3 DEF Work, TypeOK
    <3> QED BY <1>o, <2>1, <2>2, <2>3, <3>1, OnceFrame
  <2>4. CASE k = KeyOf[m]
    <3>1. effects[k] = 0 /\ key[k] # "none"
      BY <1>3, <1>o, <2>2, <2>4 DEF Work, OnceAt
    <3>2. effects'[k] = 1
      BY <1>3, <2>4, <3>1 DEF Work, TypeOK
    <3>3. \A n \in Msgs, e \in Deliveries : KeyOf[n] = k /\ InProcess(n, e)' =>
            n = m /\ e = d
      BY <1>o, <2>1, <2>2, <2>4 DEF OnceAt, InProcess
    <3>4. task'[m][d].pc = "mark"
      BY <2>1
    <3> QED BY <2>2, <2>4, <3>1, <3>2, <3>3, <3>4 DEF OnceAt
  <2> QED BY <2>3, <2>4
<1>4. CASE WorkFails(m, d)
  <2>1. PICK p \in {"unmark", "unmarkNack"} : SetPc(m, d, p)
    BY <1>4 DEF WorkFails
  <2>2. \A n \in Msgs, e \in Deliveries :
          task'[n][e].pc = IF n = m /\ e = d THEN p ELSE task[n][e].pc
    BY <2>1, SetPcMoves DEF Pcs
  <2>3. task[m][d].pc = "working" /\ key' = key /\ ttl' = ttl /\ effects' = effects
    BY <1>4 DEF WorkFails
  <2>4. \A n \in Msgs, e \in Deliveries :
          /\ InProcess(n, e)' = InProcess(n, e)
          /\ (task'[n][e].pc = "mark") = (task[n][e].pc = "mark")
    BY <2>2, <2>3 DEF InProcess
  <2> QED BY <1>o, <2>3, <2>4 DEF OnceAt
<1>5. CASE Unmark(m, d)
  <2>1. /\ task[m][d].pc # "mark" /\ InProcess(m, d)
        /\ effects' = effects
    BY <1>5 DEF Unmark, InProcess
  <2>2. \A n \in Msgs, e \in Deliveries :
          IF n = m /\ e = d THEN ~InProcess(n, e)' ELSE task'[n][e].pc = task[n][e].pc
    BY <1>5, SetPcMoves, EndTaskClears DEF Unmark, Pcs, InProcess
  <2>3. CASE k # KeyOf[m]
    <3>1. key'[k] = key[k] /\ ttl'[k] = ttl[k]
      BY <1>5, <2>3 DEF Unmark, SetKey, TypeOK
    <3> QED BY <1>o, <2>1, <2>2, <2>3, <3>1, OnceFrame
  <2>4. CASE k = KeyOf[m]
    <3>1. effects[k] = 0
      BY <1>o, <2>1, <2>4 DEF OnceAt
    <3>2. \A n \in Msgs, e \in Deliveries : KeyOf[n] = k => ~InProcess(n, e)'
      BY <1>o, <2>1, <2>2, <2>4 DEF OnceAt, InProcess
    <3> QED BY <2>1, <3>1, <3>2 DEF OnceAt
  <2> QED BY <2>3, <2>4
<1>6. CASE MarkProcessed(m, d)
  <2>1. \A n \in Msgs, e \in Deliveries :
          task'[n][e].pc = IF n = m /\ e = d THEN "ack" ELSE task[n][e].pc
    BY <1>6, SetPcMoves DEF MarkProcessed, Pcs
  <2>2. task[m][d].pc = "mark" /\ InProcess(m, d) /\ effects' = effects
    BY <1>6 DEF MarkProcessed, InProcess
  <2>3. CASE k # KeyOf[m]
    <3>1. key'[k] = key[k] /\ ttl'[k] = ttl[k]
      BY <1>6, <2>3 DEF MarkProcessed, SetKey, TypeOK
    <3>2. \A n \in Msgs, e \in Deliveries : KeyOf[n] = k =>
            task'[n][e].pc = task[n][e].pc
      BY <2>1, <2>3
    <3> QED BY <1>o, <2>2, <3>1, <3>2, OnceFrame
  <2>4. CASE k = KeyOf[m]
    <3>1. key'[k] = "1" /\ ttl'[k] = 0
      BY <1>6, <2>4 DEF MarkProcessed, SetKey, TypeOK
    <3>2. effects[k] = 1
      BY <1>o, <2>2, <2>4 DEF OnceAt
    <3>3. \A n \in Msgs, e \in Deliveries : KeyOf[n] = k => ~InProcess(n, e)'
      BY <1>o, <2>1, <2>2, <2>4 DEF OnceAt, InProcess
    <3> QED BY <2>2, <3>1, <3>2, <3>3 DEF OnceAt
  <2> QED BY <2>3, <2>4
<1>7. CASE MarkFails(m, d)
  <2>1. k # KeyOf[m]
    BY <1>7 DEF MarkFails, TypeOK
  <2>2. \A n \in Msgs, e \in Deliveries : n # m => task'[n][e].pc = task[n][e].pc
    BY <1>7, SetPcMoves, EndTaskClears DEF MarkFails, Pcs
  <2>3. key' = key /\ ttl' = ttl /\ effects' = effects
    BY <1>7 DEF MarkFails
  <2> QED BY <1>o, <2>1, <2>2, <2>3, OnceFrame
<1> QED BY <1>1, <1>2, <1>3, <1>4, <1>5, <1>6, <1>7 DEF Step

\* Reading, scanning, flushing, stopping and crashing keep OnceInv.
LEMMA OnceProcess ==
  ASSUME TypeOK, FreshInv, OnceInv, NEW w \in Workers, Process(w)
  PROVE  OnceInv'
<1> SUFFICES ASSUME NEW k \in Keys, ~excused'[k] PROVE OnceAt(k)'
  BY DEF OnceInv
<1> USE StreamWorkerAssumption DEF redis, guard, local, history
<1>x. excused[k] = FALSE
  BY DEF Process, Read, ScanList, ScanClaim, FlushAcks, Stop, Exit, Crash, Start, TypeOK
<1>o. OnceAt(k)
  BY <1>x DEF OnceInv
<1>g. key' = key /\ ttl' = ttl /\ effects' = effects
  BY DEF Process, Read, ScanList, ScanClaim, FlushAcks, Stop, Exit, Crash, Start
<1>1. ASSUME NEW m \in Msgs, Read(w, m) PROVE OnceAt(k)'
  <2>1. \A e \in Deliveries : task[m][e].pc = "none"
    BY <1>1 DEF FreshInv, Read
  <2>2. \A n \in Msgs, e \in Deliveries :
          \/ task'[n][e] = task[n][e]
          \/ n = m /\ task'[n][e].pc = "waiting"
    BY <1>1 DEF Read, NewTask, TypeOK
  <2>3. \A n \in Msgs, e \in Deliveries :
          \/ task'[n][e].pc = task[n][e].pc
          \/ task[n][e].pc # "mark" /\ ~InProcess(n, e)'
    BY <2>1, <2>2 DEF InProcess
  <2> QED BY <1>o, <1>g, <2>3, OnceFrame
<1>2. CASE ScanClaim(w)
  <2>1. \A n \in Msgs, e \in Deliveries :
          \/ task'[n][e].pc = task[n][e].pc
          \/ task[n][e].pc # "mark" /\ ~InProcess(n, e)'
    <3> SUFFICES ASSUME NEW n \in Msgs, NEW e \in Deliveries
                 PROVE  \/ task'[n][e].pc = task[n][e].pc
                        \/ task[n][e].pc # "mark" /\ ~InProcess(n, e)'
      OBVIOUS
    <3>1. task'[n] = IF n \in Claimed(w) /\ status[w] = "running"
                     THEN [task[n] EXCEPT ![NextDelivery(n)] = NewTask(w, listing[w][n] + 1)]
                     ELSE task[n]
      BY <1>2 DEF ScanClaim
    <3>2. n \in Claimed(w) => task[n][NextDelivery(n)].pc = "none"
      BY DEF Claimed
    <3>3. CASE e = NextDelivery(n)
      BY <3>1, <3>2, <3>3 DEF NewTask, InProcess, TypeOK
    <3>4. CASE e # NextDelivery(n)
      BY <3>1, <3>4 DEF TypeOK
    <3> QED BY <3>3, <3>4
  <2> QED BY <1>o, <1>g, <2>1, OnceFrame
<1>3. CASE ScanList(w) \/ FlushAcks(w) \/ Start(w)
  <2>1. task' = task
    BY <1>3 DEF ScanList, FlushAcks, Start
  <2> QED BY <1>o, <1>g, <2>1, OnceFrame
<1>4. CASE Stop(w)
  <2>1. PICK kept \in SUBSET Queued(w) :
          task' = [m \in Msgs |-> [d \in Deliveries |->
            IF <<m, d>> \in Queued(w) \ kept THEN NoTask ELSE task[m][d]]]
    BY <1>4, Zenon DEF Stop
  <2>2. \A n \in Msgs, e \in Deliveries :
          \/ task'[n][e] = task[n][e]
          \/ <<n, e>> \in Queued(w) /\ task'[n][e] = NoTask
    BY <2>1, Zenon
  <2>3. \A n \in Msgs, e \in Deliveries :
          <<n, e>> \in Queued(w) => task[n][e].pc = "waiting"
    BY DEF Queued
  <2>4. \A n \in Msgs, e \in Deliveries :
          \/ task'[n][e] = task[n][e]
          \/ task[n][e].pc = "waiting" /\ task'[n][e] = NoTask
    BY <2>2, <2>3, Zenon
  <2>5. \A n \in Msgs, e \in Deliveries :
          \/ task'[n][e].pc = task[n][e].pc
          \/ task[n][e].pc # "mark" /\ ~InProcess(n, e)'
    BY <2>4 DEF NoTask, InProcess
  <2> QED BY <1>o, <1>g, <2>5, OnceFrame
<1>5. CASE Exit(w)
  <2>1. \A n \in Msgs, e \in Deliveries :
          task'[n][e] = IF task[n][e].owner = w THEN NoTask ELSE task[n][e]
    BY <1>5 DEF Exit, Gone
  <2>2. \A n \in Msgs, e \in Deliveries :
          task[n][e].owner = w => task[n][e].pc # "mark"
    BY <1>5 DEF Exit, Running
  <2>3. \A n \in Msgs, e \in Deliveries :
          \/ task'[n][e].pc = task[n][e].pc
          \/ task[n][e].pc # "mark" /\ ~InProcess(n, e)'
    BY <2>1, <2>2 DEF NoTask, InProcess
  <2> QED BY <1>o, <1>g, <2>3, OnceFrame
<1>6. CASE Crash(w)
  <2>1. \A n \in Msgs, e \in Deliveries :
          task'[n][e] = IF task[n][e].owner = w THEN NoTask ELSE task[n][e]
    BY <1>6 DEF Crash, Gone
  <2>2. \A n \in Msgs, e \in Deliveries :
          KeyOf[n] = k /\ task[n][e].owner = w => task[n][e].pc # "mark"
    BY <1>6 DEF Crash
  <2>3. \A n \in Msgs, e \in Deliveries : KeyOf[n] = k =>
          \/ task'[n][e].pc = task[n][e].pc
          \/ task[n][e].pc # "mark" /\ ~InProcess(n, e)'
    BY <2>1, <2>2 DEF NoTask, InProcess
  <2> QED BY <1>o, <1>g, <2>3, OnceFrame
<1> QED BY <1>1, <1>2, <1>3, <1>4, <1>5, <1>6 DEF Process

\* The work of an idempotency key is carried out at most once, in either mode,
\* unless its mark failed: for any number of entries carrying the key, workers,
\* reclaims and restarts.
THEOREM WorkDoneOnce == Spec => []AtMostOnce
<1>1. Init => FreshInv /\ OnceInv
  BY StreamWorkerAssumption DEF Init, FreshInv, OnceInv, OnceAt, InProcess, NoTask
<1>2. TypeOK /\ FreshInv /\ OnceInv /\ [Next]_vars => OnceInv'
  <2> SUFFICES ASSUME TypeOK, FreshInv, OnceInv, [Next]_vars PROVE OnceInv'
    OBVIOUS
  <2> USE StreamWorkerAssumption DEF redis, guard, local, history
  <2>1. CASE Tick
    <3> SUFFICES ASSUME NEW k \in Keys, ~excused'[k] PROVE OnceAt(k)'
      BY DEF OnceInv
    <3>1. excused[k] = FALSE
      BY <2>1 DEF Tick, TypeOK
    <3>2. OnceAt(k)
      BY <3>1 DEF OnceInv
    <3>3. task' = task /\ effects' = effects /\ (ttl[k] = 0 => ttl'[k] = 0)
      BY <2>1 DEF Tick
    <3>4. CASE ttl[k] # 1
      <4>1. key'[k] = key[k]
        BY <2>1, <3>4 DEF Tick
      <4> QED BY <3>2, <3>3, <4>1, OnceFrame
    <3>5. CASE ttl[k] = 1
      <4>1. \A n \in Msgs, e \in Deliveries : KeyOf[n] = k => ~InProcess(n, e)
        BY <2>1, <3>5 DEF Tick
      <4>2. \A n \in Msgs, e \in Deliveries : KeyOf[n] = k => task[n][e].pc # "mark"
        BY <4>1 DEF InProcess
      <4>3. effects[k] = 0
        BY <3>2, <3>5, <4>2 DEF OnceAt, TypeOK
      <4> QED BY <3>3, <4>1, <4>3 DEF OnceAt, InProcess
    <3> QED BY <3>4, <3>5
  <2>2. ASSUME NEW m \in Msgs, Publish(m) PROVE OnceInv'
    BY <2>2 DEF Publish, OnceInv, OnceAt, InProcess
  <2>3. ASSUME NEW j \in Keys, ForgetKey(j) PROVE OnceInv'
    <3> SUFFICES ASSUME NEW k \in Keys, ~excused'[k] PROVE OnceAt(k)'
      BY DEF OnceInv
    <3>1. k # j /\ excused[k] = FALSE
      BY <2>3 DEF ForgetKey, TypeOK
    <3>2. OnceAt(k)
      BY <3>1 DEF OnceInv
    <3>3. key'[k] = key[k] /\ ttl' = ttl /\ effects' = effects /\ task' = task
      BY <2>3, <3>1 DEF ForgetKey, TypeOK
    <3> QED BY <3>2, <3>3, OnceFrame
  <2>4. ASSUME NEW m \in Msgs, NEW d \in Deliveries, Touch(m, d) PROVE OnceInv'
    BY <2>4 DEF Touch, OnceInv, OnceAt, InProcess
  <2>5. ASSUME NEW m \in Msgs, NEW d \in Deliveries, Step(m, d) PROVE OnceInv'
    BY <2>5, OnceStep
  <2>6. ASSUME NEW w \in Workers, Process(w) PROVE OnceInv'
    BY <2>6, OnceProcess
  <2>7. CASE UNCHANGED vars
    BY <2>7 DEF vars, OnceInv, OnceAt, InProcess
  <2> QED BY <2>1, <2>2, <2>3, <2>4, <2>5, <2>6, <2>7 DEF Next
<1>3. TypeOK /\ OnceInv => AtMostOnce
  <2> SUFFICES ASSUME TypeOK, OnceInv, NEW k \in Keys PROVE effects[k] =< 1 \/ excused[k]
    BY DEF AtMostOnce
  <2>1. effects[k] \in Nat
    BY DEF TypeOK
  <2> QED BY <2>1 DEF OnceInv, OnceAt
<1> QED BY <1>1, <1>2, <1>3, TypeInvariant, Fresh, PTL DEF Spec
=============================================================================
