------------------------------- MODULE Batch -------------------------------
(***************************************************************************)
(* BatchProcessor, shared/batch-processor.ts: add() buffers an item and    *)
(* answers when the batch that took it has been flushed. Delivery holds    *)
(* its acknowledgements until these answers come.                          *)
(*                                                                         *)
(* Everything between two awaits is one action. A batch leaves its slot in *)
(* two: its items are answered, and in a later microtask the finally block *)
(* frees the slot and looks at what arrived meanwhile; callers run between. *)
(***************************************************************************)
EXTENDS Naturals, FiniteSets

CONSTANTS
    Items,         \* the calls of add()
    MaxSize,       \* maxSize
    MaxConcurrent  \* maxConcurrent

ASSUME BatchAssumption ==
    /\ MaxSize \in Nat \ {0}
    /\ MaxConcurrent \in Nat \ {0}

VARIABLES
    item,          \* where each item is
    batchTimer,    \* timer # null
    answering,     \* inFlight, the batches whose flushFn is running
    answered,      \* inFlight, the batches whose finally block is still to run
    draining,      \* flush() is looping
    awaited        \* the batch flush() waits for, {} when it waits for a slot

batchVars == <<item, batchTimer, answering, answered, draining, awaited>>

Buffered(it) == {i \in Items : it[i] = "buffered"}
Batches      == (SUBSET Items) \ {{}}
InFlight     == answering \cup answered
FreeSlot     == Cardinality(InFlight) < MaxConcurrent

BatchTypeOK ==
    /\ item \in [Items -> {"new", "buffered", "flushing", "resolved", "rejected"}]
    /\ batchTimer \in BOOLEAN
    /\ answering \subseteq Batches
    /\ answered \subseteq Batches
    /\ draining \in BOOLEAN
    /\ awaited \subseteq Items

BatchInit ==
    /\ item = [i \in Items |-> "new"]
    /\ batchTimer = FALSE
    /\ answering = {}
    /\ answered = {}
    /\ draining = FALSE
    /\ awaited = {}

\* The batch taken out of buffer `it`: flushOnce up to its first await.
Take(it) ==
    /\ item' = [i \in Items |-> IF it[i] = "buffered" THEN "flushing" ELSE it[i]]
    /\ answering' = answering \cup {Buffered(it)}

Add(i) ==
    /\ item[i] = "new"
    /\ LET it == [item EXCEPT ![i] = "buffered"] IN
       IF Cardinality(Buffered(it)) >= MaxSize /\ FreeSlot
       THEN /\ batchTimer' = FALSE
            /\ Take(it)
       ELSE /\ item' = it
            /\ batchTimer' = (batchTimer \/ FreeSlot)
            /\ UNCHANGED answering
    /\ UNCHANGED <<answered, draining, awaited>>

TimerFires ==
    /\ batchTimer
    /\ batchTimer' = FALSE
    /\ IF Buffered(item) # {} /\ FreeSlot
       THEN Take(item)
       ELSE UNCHANGED <<item, answering>>
    /\ UNCHANGED <<answered, draining, awaited>>

\* flushFn settles and every item of the batch is told.
Answer(b, result) ==
    /\ b \in answering
    /\ item' = [i \in Items |-> IF i \in b THEN result ELSE item[i]]
    /\ answering' = answering \ {b}
    /\ answered' = answered \cup {b}
    /\ UNCHANGED <<batchTimer, draining, awaited>>

\* The finally block: free the slot, flush or arm the timer for what waits.
EndFlush(b) ==
    /\ b \in answered
    /\ answered' = answered \ {b}
    /\ awaited' = IF awaited = b THEN {} ELSE awaited
    /\ LET waiting == Cardinality(Buffered(item)) IN
       IF waiting = 0 \/ batchTimer
       THEN UNCHANGED <<item, batchTimer, answering>>
       ELSE IF waiting >= MaxSize
            THEN Take(item) /\ UNCHANGED batchTimer
            ELSE batchTimer' = TRUE /\ UNCHANGED <<item, answering>>
    /\ UNCHANGED draining

\* flush(), called when the worker stops.
Flush ==
    /\ ~draining
    /\ draining' = TRUE
    /\ UNCHANGED <<item, batchTimer, answering, answered, awaited>>

FlushLoop ==
    /\ draining
    /\ awaited = {}
    /\ IF Buffered(item) = {}
       THEN draining' = FALSE /\ UNCHANGED <<item, batchTimer, answering, awaited>>
       ELSE /\ FreeSlot
            /\ batchTimer' = FALSE
            /\ awaited' = Buffered(item)
            /\ Take(item)
            /\ UNCHANGED draining
    /\ UNCHANGED answered

BatchNext ==
    \/ \E i \in Items : Add(i)
    \/ TimerFires
    \/ \E b \in Batches : \E r \in {"resolved", "rejected"} : Answer(b, r)
    \/ \E b \in Batches : EndFlush(b)
    \/ Flush \/ FlushLoop

BatchSpec == BatchInit /\ [][BatchNext]_batchVars

(***************************************************************************)
(* Properties                                                              *)
(***************************************************************************)

\* No item waits without anything that will take it: a timer is armed, or every
\* slot is busy and the end of a flush looks again (add, flushOnce). An item
\* left behind would hold its message unacknowledged for good.
NoneStuck == Buffered(item) # {} => batchTimer \/ ~FreeSlot

\* An item is in one batch only and leaves it answered: no batch in flight holds
\* an item of another, and what is being flushed is exactly what the running
\* batches hold (flushOnce swaps the buffer before it awaits).
OneBatchEach ==
    /\ \A a, b \in InFlight : a # b => a \cap b = {}
    /\ {i \in Items : item[i] = "flushing"} = UNION answering
    /\ Cardinality(InFlight) <= MaxConcurrent

\* Every item added is flushed and answered, in one batch.
BatchesSettle == NoneStuck /\ OneBatchEach
=============================================================================
