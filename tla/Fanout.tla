------------------------------- MODULE Fanout -------------------------------
(***************************************************************************)
(* One notification.requested event on its way through the enricher, which *)
(* resolves its users chunk by chunk and publishes an enriched event per   *)
(* address (services/enricher/main.ts), and through the engine, which puts *)
(* every address through its gates and hands on a task (services/engine/   *)
(* main.ts). Both mark what they take with a short marker, release it when *)
(* they fail and renew it when they are done.                              *)
(*                                                                         *)
(* The enricher only waits for its own events at the end: those of earlier *)
(* chunks go out with the buffer of all messages, also after it has failed.*)
(* An entry that waits for a permit may be reclaimed and delivered again   *)
(* while its run is alive: the second finds the marker and acknowledges    *)
(* the entry, whatever becomes of the first.                               *)
(* Left out: the fused pipeline (setInlineNext), priorities, a marker that *)
(* runs out under a run that is still at work, and a delivery that starts  *)
(* only after another has acknowledged its entry.                          *)
(***************************************************************************)
EXTENDS Naturals, FiniteSets

CONSTANTS
    Addresses,     \* (user, contact) pairs the target resolves to
    Chunks,        \* number of chunks
    ChunkOf,       \* [Addresses -> 1..Chunks]
    Engines,       \* messages the engine can process together
    MaxFanFaults   \* bound: crashes and failed calls

ASSUME FanoutAssumption ==
    /\ {Chunks, MaxFanFaults} \subseteq Nat
    /\ ChunkOf \in [Addresses -> 1..Chunks]
    /\ IsFiniteSet(Engines)

VARIABLES
    oversized,     \* the target has more users than SEGMENT_MAX_USERS
    requestAt,     \* the inbound entry: pending or acked
    fanMark,       \* the enricher's marker: none, held, left by a run that died, done
    fan,           \* the enricher's run: its pc, chunks loaded, events not published, a rejection
    eventBuffer,   \* events of each address that wait for a flush, of all runs
    enriched,      \* entries on the enriched stream, not acknowledged
    published,     \* history: addresses with an enriched event
    engineMark,    \* the engine's marker of each address
    engine,        \* the engine's messages
    dispatched,    \* tasks handed on (dispatched, scheduled or to the AI worker)
    dropped,       \* history: addresses a gate dropped
    lapsed,        \* history: addresses acknowledged as those of a run that died or failed
    unrecorded,    \* history: addresses handed on by a run that could not mark it
    fanFaults

fanVars == <<fan, fanMark, requestAt, eventBuffer>>
engVars == <<engineMark, engine, dispatched, dropped, unrecorded>>
fanoutVars == <<oversized, fanVars, enriched, published, engVars, lapsed, fanFaults>>

IdleFan    == [pc |-> "idle", loaded |-> 0, unresolved |-> {}, rejected |-> FALSE]
IdleEngine == [pc |-> "idle", address |-> {}, entry |-> "there"]

FanoutTypeOK ==
    /\ oversized \in BOOLEAN
    /\ requestAt \in {"pending", "acked"}
    /\ fanMark \in {"none", "held", "left", "done"}
    /\ fan \in [pc : {"idle", "load", "ack"}, loaded : 0..Chunks,
                unresolved : SUBSET Addresses, rejected : BOOLEAN]
    /\ eventBuffer \in [Addresses -> Nat]
    /\ enriched \in [Addresses -> Nat]
    /\ published \subseteq Addresses
    /\ engineMark \in [Addresses -> {"none", "held", "left", "done"}]
    /\ engine \in [Engines -> [pc : {"idle", "gate", "dropped", "handed", "ack"}, address : SUBSET Addresses,
                               entry : {"there", "gone"}]]
    /\ dispatched \in [Addresses -> Nat]
    /\ {dropped, lapsed, unrecorded} \subseteq SUBSET Addresses
    /\ fanFaults \in 0..MaxFanFaults

FanoutInit ==
    /\ oversized \in BOOLEAN
    /\ requestAt = "pending"
    /\ fanMark = "none"
    /\ fan = IdleFan
    /\ eventBuffer = [a \in Addresses |-> 0]
    /\ enriched = [a \in Addresses |-> 0]
    /\ published = {}
    /\ engineMark = [a \in Addresses |-> "none"]
    /\ engine = [e \in Engines |-> IdleEngine]
    /\ dispatched = [a \in Addresses |-> 0]
    /\ dropped = {} /\ lapsed = {} /\ unrecorded = {}
    /\ fanFaults = 0

FanFault == fanFaults < MaxFanFaults /\ fanFaults' = fanFaults + 1

(***************************************************************************)
(* The enricher                                                            *)
(***************************************************************************)

\* checkAndMark: whatever it finds is a duplicate, also the marker of a run that is
\* at work, or that died less than its time to live ago.
FanBegin ==
    /\ requestAt = "pending"
    /\ IF fanMark = "none"
       THEN /\ fanMark' = "held"
            /\ fan' = [IdleFan EXCEPT !.pc = "load"]
            /\ UNCHANGED <<requestAt, lapsed>>
       ELSE /\ requestAt' = "acked"
            /\ lapsed' = IF fanMark = "left" THEN lapsed \cup (Addresses \ published) ELSE lapsed
            /\ UNCHANGED <<fanMark, fan>>
    /\ UNCHANGED <<oversized, eventBuffer, enriched, published, engVars, fanFaults>>

\* More users than allowed: reported, marked and acknowledged.
FanTooMany ==
    /\ fan.pc = "load" /\ fan.loaded = 0 /\ oversized
    /\ fanMark' = "done"
    /\ fan' = [fan EXCEPT !.pc = "ack"]
    /\ UNCHANGED <<oversized, requestAt, eventBuffer, enriched, published, engVars, lapsed, fanFaults>>

\* The profiles and contacts of the next chunk; its events join the buffer.
FanLoad ==
    /\ fan.pc = "load" /\ fan.loaded < Chunks /\ ~oversized
    /\ LET chunk == {a \in Addresses : ChunkOf[a] = fan.loaded + 1} IN
       /\ fan' = [fan EXCEPT !.loaded = @ + 1, !.unresolved = @ \cup chunk]
       /\ eventBuffer' = [a \in Addresses |-> eventBuffer[a] + IF a \in chunk THEN 1 ELSE 0]
    /\ UNCHANGED <<oversized, fanMark, requestAt, enriched, published, engVars, lapsed, fanFaults>>

\* What a run that fails or dies leaves to nobody: its entry was acknowledged meanwhile.
Forsaken == IF fan.pc = "load" /\ requestAt = "acked" THEN Addresses \ published ELSE {}

\* A query fails, or the mark of a target too large: what is in the buffer stays
\* there and the marker is released, unless that fails as well.
FanLoadFails ==
    /\ fan.pc = "load" /\ fan.loaded < Chunks
    /\ FanFault
    /\ fanMark' \in {"none", "left"}
    /\ fan' = IdleFan
    /\ lapsed' = lapsed \cup Forsaken
    /\ UNCHANGED <<oversized, requestAt, eventBuffer, enriched, published, engVars>>

\* flushWorkerBuffers: the batch goes out, or only some of it and all are told
\* that it failed.
Unflushed == {a \in Addresses : eventBuffer[a] > 0}

FlushFails ==
    /\ Unflushed # {}
    /\ FanFault
    /\ \E some \in SUBSET Unflushed :
          /\ enriched' = [a \in Addresses |-> enriched[a] + IF a \in some THEN eventBuffer[a] ELSE 0]
          /\ published' = published \cup some
    /\ eventBuffer' = [a \in Addresses |-> 0]
    /\ fan' = [fan EXCEPT !.rejected = @ \/ fan.unresolved \cap Unflushed # {},
                          !.unresolved = @ \ Unflushed]
    /\ UNCHANGED <<oversized, fanMark, requestAt, engVars, lapsed>>

FlushBuffer ==
    /\ Unflushed # {}
    /\ enriched' = [a \in Addresses |-> enriched[a] + eventBuffer[a]]
    /\ published' = published \cup Unflushed
    /\ eventBuffer' = [a \in Addresses |-> 0]
    /\ fan' = [fan EXCEPT !.unresolved = @ \ Unflushed]
    /\ UNCHANGED <<oversized, fanMark, requestAt, engVars, lapsed, fanFaults>>

\* The mark of a finished run fails, and nothing releases the marker.
FanMarkFails ==
    /\ fan.pc = "load" /\ fan.loaded = Chunks /\ ~oversized
    /\ ~fan.rejected /\ fan.unresolved = {}
    /\ FanFault
    /\ fanMark' = "left"
    /\ fan' = IdleFan
    /\ UNCHANGED <<oversized, requestAt, eventBuffer, enriched, published, engVars, lapsed>>

\* The end of process(): one rejection fails the message, else it is marked.
FanEnd ==
    /\ fan.pc = "load" /\ fan.loaded = Chunks /\ ~oversized
    /\ \/ /\ fan.rejected
          /\ fanMark' \in {"none", "left"}
          /\ fan' = IdleFan
          /\ lapsed' = lapsed \cup Forsaken
       \/ /\ ~fan.rejected /\ fan.unresolved = {}
          /\ fanMark' = "done"
          /\ fan' = [fan EXCEPT !.pc = "ack"]
          /\ UNCHANGED lapsed
    /\ UNCHANGED <<oversized, requestAt, eventBuffer, enriched, published, engVars, fanFaults>>

FanAck ==
    /\ fan.pc = "ack"
    /\ requestAt' = "acked"
    /\ fan' = IdleFan
    /\ UNCHANGED <<oversized, fanMark, eventBuffer, enriched, published, engVars, lapsed, fanFaults>>

\* The process dies with its buffer; the marker stays until it expires.
FanCrash ==
    /\ fan.pc # "idle" \/ Unflushed # {}
    /\ FanFault
    /\ fan' = IdleFan
    /\ eventBuffer' = [a \in Addresses |-> 0]
    /\ fanMark' = IF fanMark = "held" THEN "left" ELSE fanMark
    /\ lapsed' = lapsed \cup Forsaken
    /\ UNCHANGED <<oversized, requestAt, enriched, published, engVars>>

FanMarkExpires ==
    /\ fanMark = "left"
    /\ fanMark' = "none"
    /\ UNCHANGED <<oversized, fan, requestAt, eventBuffer, enriched, published, engVars, lapsed, fanFaults>>

(***************************************************************************)
(* The engine                                                              *)
(***************************************************************************)
InEngine(a) == {e \in Engines : engine[e].address = {a}}
AckEnriched(a) == enriched' = [enriched EXCEPT ![a] = @ - 1]
\* The messages of an address whose entry nobody has acknowledged.
Holding(a) == {e \in InEngine(a) : engine[e].entry = "there"}

EngineBegin(e, a) ==
    /\ engine[e].pc = "idle"
    /\ enriched[a] > Cardinality(Holding(a))
    /\ IF engineMark[a] = "none"
       THEN /\ engineMark' = [engineMark EXCEPT ![a] = "held"]
            /\ engine' = [engine EXCEPT ![e] = [pc |-> "gate", address |-> {a}, entry |-> "there"]]
            /\ UNCHANGED <<enriched, lapsed>>
       ELSE /\ AckEnriched(a)
            /\ lapsed' = IF engineMark[a] = "left" THEN lapsed \cup {a} ELSE lapsed
            /\ UNCHANGED <<engineMark, engine>>
    /\ UNCHANGED <<oversized, fanVars, published, dispatched, dropped, unrecorded, fanFaults>>

\* The entry of a message at work is delivered again, a duplicate: it is acknowledged.
EngineAgain(e) ==
    /\ engine[e].entry = "there"
    /\ \E a \in engine[e].address : engineMark[a] # "none" /\ AckEnriched(a)
    /\ engine' = [engine EXCEPT ![e].entry = "gone"]
    /\ UNCHANGED <<oversized, fanVars, published, engineMark, dispatched, dropped, unrecorded, lapsed, fanFaults>>

\* A gate drops it: opted out, channel disabled, throttled, no template, no
\* active contact, suppressed. It is marked all the same.
EngineDrops(e) ==
    /\ engine[e].pc = "gate"
    /\ dropped' = dropped \cup engine[e].address
    /\ engine' = [engine EXCEPT ![e].pc = "dropped"]
    /\ UNCHANGED <<oversized, fanVars, enriched, published, engineMark, dispatched, unrecorded, lapsed, fanFaults>>

\* It passes: to the AI worker, the scheduler or the outbound stream.
EngineHandsOn(e) ==
    /\ engine[e].pc = "gate"
    /\ dispatched' = [a \in Addresses |-> dispatched[a] + IF a \in engine[e].address THEN 1 ELSE 0]
    /\ engine' = [engine EXCEPT ![e].pc = "handed"]
    /\ UNCHANGED <<oversized, fanVars, enriched, published, engineMark, dropped, unrecorded, lapsed, fanFaults>>

Remark(e, value) ==
    engineMark' = [a \in Addresses |-> IF a \in engine[e].address THEN value ELSE engineMark[a]]

EngineMarks(e) ==
    /\ engine[e].pc \in {"dropped", "handed"}
    /\ Remark(e, "done")
    /\ engine' = [engine EXCEPT ![e].pc = "ack"]
    /\ UNCHANGED <<oversized, fanVars, enriched, published, dispatched, dropped, unrecorded, lapsed, fanFaults>>

EngineAcks(e) ==
    /\ engine[e].pc = "ack"
    /\ IF engine[e].entry = "gone" THEN UNCHANGED enriched
       ELSE \E a \in engine[e].address : AckEnriched(a)
    /\ engine' = [engine EXCEPT ![e] = IdleEngine]
    /\ UNCHANGED <<oversized, fanVars, published, engineMark, dispatched, dropped, unrecorded, lapsed, fanFaults>>

\* What a run that ends here leaves behind if it had handed its task on.
Unrecorded(e) ==
    unrecorded \cup IF engine[e].pc = "handed" THEN engine[e].address ELSE {}
Deserted(e) ==
    lapsed \cup IF engine[e].pc = "gate" /\ engine[e].entry = "gone" THEN engine[e].address ELSE {}

\* As EngineFails, but the marker is left for its time to live.
EngineFailsHolding(e) ==
    /\ engine[e].pc \in {"gate", "dropped", "handed"}
    /\ FanFault
    /\ unrecorded' = Unrecorded(e) /\ lapsed' = Deserted(e)
    /\ engine' = [engine EXCEPT ![e] = IdleEngine]
    /\ UNCHANGED <<oversized, fanVars, enriched, published, engineMark, dispatched, dropped>>

\* A call fails, the last one, markProcessed, included: release, which may fail
\* as well, and throw.
EngineFails(e) ==
    /\ engine[e].pc \in {"gate", "dropped", "handed"}
    /\ FanFault
    /\ \E left \in {"none", "left"} : Remark(e, left)
    /\ unrecorded' = Unrecorded(e) /\ lapsed' = Deserted(e)
    /\ engine' = [engine EXCEPT ![e] = IdleEngine]
    /\ UNCHANGED <<oversized, fanVars, enriched, published, dispatched, dropped>>

EngineCrash(e) ==
    /\ engine[e].pc # "idle"
    /\ FanFault
    /\ engineMark' = [a \in Addresses |->
            IF a \in engine[e].address /\ engineMark[a] = "held" THEN "left" ELSE engineMark[a]]
    /\ unrecorded' = Unrecorded(e) /\ lapsed' = Deserted(e)
    /\ engine' = [engine EXCEPT ![e] = IdleEngine]
    /\ UNCHANGED <<oversized, fanVars, enriched, published, dispatched, dropped>>

EngineMarkExpires(a) ==
    /\ engineMark[a] \in {"held", "left"}
    /\ \A e \in InEngine(a) : engine[e].pc = "ack"
    /\ engineMark' = [engineMark EXCEPT ![a] = "none"]
    /\ UNCHANGED <<oversized, fanVars, enriched, published, engine, dispatched, dropped, unrecorded, lapsed, fanFaults>>

FanoutNext ==
    \/ FanBegin \/ FanTooMany \/ FanLoad \/ FanLoadFails \/ FanMarkFails \/ FlushBuffer \/ FlushFails
    \/ FanEnd \/ FanAck \/ FanCrash \/ FanMarkExpires
    \/ \E e \in Engines :
          \/ \E a \in Addresses : EngineBegin(e, a)
          \/ EngineAgain(e) \/ EngineDrops(e) \/ EngineHandsOn(e) \/ EngineMarks(e) \/ EngineAcks(e)
          \/ EngineFails(e) \/ EngineCrash(e)
    \/ \E a \in Addresses : EngineMarkExpires(a)

FanoutSpec == FanoutInit /\ [][FanoutNext]_fanoutVars

(***************************************************************************)
(* Properties                                                              *)
(***************************************************************************)

\* A request that is marked done has an enriched event for every address, in
\* whichever run and flush it went out (process, enricher/main.ts:534-539).
AllFannedOut == fanMark = "done" /\ ~oversized => published = Addresses

\* Nothing of the request is left to do, and nobody is at it.
FannedOut ==
    /\ requestAt = "acked" /\ ~oversized /\ Unflushed = {} /\ \A a \in Addresses : enriched[a] = 0
    /\ fan.pc # "load" /\ \A e \in Engines : engine[e].pc # "gate"

\* When the request and all its enriched events are acknowledged and no run is at work
\* on them, every address was handed on or dropped by a gate, unless the marker of a run
\* passed for its work: of one that died or could not release it (the catch blocks of
\* both workers), or of one that failed after a second delivery had acknowledged its
\* entry (engine/main.ts:229-232, enricher/main.ts:333, workers/index.ts:258).
NoneForgottenOnTheWay == FannedOut => \A a \in Addresses : dispatched[a] > 0 \/ a \in dropped \/ a \in lapsed

\* However often the fan-out is repeated, an address is handed on twice only by
\* a run that could not record the first (process, engine/main.ts:522-526).
HandedOnOnce == \A a \in Addresses : dispatched[a] > 1 => a \in unrecorded

\* What is promised of the fan-out as a whole: a request reaches every address,
\* and reaches it once.
EveryAddressOnce == AllFannedOut /\ NoneForgottenOnTheWay /\ HandedOnOnce
=============================================================================
