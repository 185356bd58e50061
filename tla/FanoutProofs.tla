---------------------------- MODULE FanoutProofs ----------------------------
(***************************************************************************)
(* Proofs about Fanout, for any addresses, chunks, engine messages and     *)
(* faults: a request reaches every address of its target, and once; and    *)
(* about the engine's QuietHours, for any windows, zones and changes of    *)
(* the clocks: a send is held neither too short nor too long.              *)
(***************************************************************************)
EXTENDS Fanout, QuietHours, FiniteSetTheorems, WellFoundedInduction, TLAPS

(***************************************************************************)
(* The inductive invariant.                                                *)
(***************************************************************************)

\* FanoutTypeOK by who changes what.
FanTypes ==
    /\ oversized \in BOOLEAN
    /\ requestAt \in {"pending", "acked"}
    /\ fanMark \in {"none", "held", "left", "done"}
    /\ fan \in [pc : {"idle", "load", "ack"}, loaded : 0..Chunks,
                unresolved : SUBSET Addresses, rejected : BOOLEAN]
    /\ eventBuffer \in [Addresses -> Nat]
    /\ published \subseteq Addresses
SharedTypes ==
    /\ enriched \in [Addresses -> Nat]
    /\ lapsed \subseteq Addresses
    /\ fanFaults \in 0..MaxFanFaults
EngineTypes ==
    /\ engineMark \in [Addresses -> {"none", "held", "left", "done"}]
    /\ engine \in [Engines -> [pc : {"idle", "gate", "dropped", "handed", "ack"},
                               address : SUBSET Addresses, entry : {"there", "gone"}]]
    /\ dispatched \in [Addresses -> Nat]
    /\ dropped \subseteq Addresses /\ unrecorded \subseteq Addresses

\* The enricher holds its marker while it loads, and has written it when it
\* goes on to acknowledge.
FanIsMarked ==
    /\ fan.pc = "load" <=> fanMark = "held"
    /\ fan.pc = "ack" => fanMark = "done"

\* What a run has loaded is published or in the buffer, unless it was told of a
\* failed flush.
LoadedIsKnown(a) ==
    /\ a \in fan.unresolved => eventBuffer[a] > 0
    /\ fan.pc = "load" /\ ~fan.rejected /\ ChunkOf[a] <= fan.loaded
         => a \in published \/ a \in fan.unresolved

\* A request leaves only with every address published, or mistaken for the work
\* of a run that died or failed, or while its run is still at work.
LeftIsReached(a) ==
    requestAt = "acked" /\ ~oversized => a \in published \/ a \in lapsed \/ fan.pc = "load"

Handled(a) == dispatched[a] > 0 \/ a \in dropped \/ a \in lapsed

\* What is published has an entry, was handled or is at the gates; the messages in
\* the engine whose entry is there have one each.
AtGate(e, a) == engine[e].address = {a} /\ engine[e].pc = "gate"
PublishedIsHeld(a) ==
    a \in published => enriched[a] > 0 \/ Handled(a) \/ \E e \in Engines : AtGate(e, a)
EntryForEach(a) == enriched[a] >= Cardinality(Holding(a))

\* A message at work is alone with its address and holds its marker, which it
\* writes only when the address is handled.
AtWork(e, a) == engine[e].address = {a} /\ engine[e].pc \in {"gate", "dropped", "handed"}
HasAddress(e) ==
    IF engine[e].pc = "idle" THEN engine[e].address = {}
    ELSE \E a \in Addresses : engine[e].address = {a}
WorksAlone(e, a) ==
    AtWork(e, a) => engineMark[a] = "held" /\ \A f \in Engines : AtWork(f, a) => f = e
AckIsMarked(e, a) ==
    engine[e].address = {a} /\ engine[e].pc = "ack" => engineMark[a] = "done"
HeldIsAtWork(a) == engineMark[a] = "held" => \E e \in Engines : AtWork(e, a)
DoneIsHandled(a) == engineMark[a] = "done" => Handled(a)
StageIsTrue(e, a) ==
    engine[e].address = {a} =>
        /\ engine[e].pc = "handed" => dispatched[a] > 0
        /\ engine[e].pc = "dropped" => a \in dropped
        /\ engine[e].pc = "ack" => Handled(a)

\* A task that was handed on is on record: by its marker, by the message that is
\* about to write it, or as unrecorded.
HandedIsKnown(a) ==
    /\ dispatched[a] > 1 => a \in unrecorded
    /\ dispatched[a] > 0 =>
          \/ a \in unrecorded \/ engineMark[a] = "done"
          \/ \E e \in Engines : engine[e].address = {a} /\ engine[e].pc = "handed"

FanInv ==
    /\ FanIsMarked /\ AllFannedOut
    /\ \A a \in Addresses : LoadedIsKnown(a) /\ LeftIsReached(a)

EngineInv ==
    /\ \A e \in Engines : HasAddress(e)
    /\ \A e \in Engines, a \in Addresses : WorksAlone(e, a) /\ AckIsMarked(e, a) /\ StageIsTrue(e, a)
    /\ \A a \in Addresses : HeldIsAtWork(a) /\ DoneIsHandled(a) /\ HandedIsKnown(a)

EntryInv == \A a \in Addresses : PublishedIsHeld(a) /\ EntryForEach(a)

FanoutInv == FanoutTypeOK /\ FanInv /\ EngineInv /\ EntryInv

-----------------------------------------------------------------------------
LEMMA Types == FanoutTypeOK <=> FanTypes /\ SharedTypes /\ EngineTypes
BY DEF FanoutTypeOK, FanTypes, SharedTypes, EngineTypes

LEMMA Bounds ==
    /\ Chunks \in Nat /\ MaxFanFaults \in Nat /\ IsFiniteSet(Engines)
    /\ 0 \in 0..Chunks /\ 0 \in 0..MaxFanFaults
    /\ \A a \in Addresses : ChunkOf[a] \in 1..Chunks
    /\ IdleFan \in [pc : {"idle", "load", "ack"}, loaded : 0..Chunks,
                   unresolved : SUBSET Addresses, rejected : BOOLEAN]
    /\ IdleEngine \in [pc : {"idle", "gate", "dropped", "handed", "ack"},
                      address : SUBSET Addresses, entry : {"there", "gone"}]
BY FanoutAssumption DEF IdleFan, IdleEngine

LEMMA FanoutInvInit == FanoutInit => FanoutInv
<1> SUFFICES ASSUME FanoutInit PROVE FanoutInv
  OBVIOUS
<1>1. FanoutTypeOK
  BY FanoutAssumption DEF FanoutInit, FanoutTypeOK, IdleFan, IdleEngine
<1>2. FanInv /\ EngineInv
  BY FanoutAssumption DEF FanoutInit, IdleFan, IdleEngine, FanInv, EngineInv, FanIsMarked,
     AllFannedOut, LoadedIsKnown, LeftIsReached, HasAddress, WorksAlone, AtWork, AckIsMarked, StageIsTrue,
     HeldIsAtWork, DoneIsHandled, HandedIsKnown
<1>3. ASSUME NEW a \in Addresses PROVE PublishedIsHeld(a) /\ EntryForEach(a)
  <2>1. Holding(a) = {}
    BY DEF FanoutInit, IdleEngine, InEngine, Holding
  <2> QED
    BY <2>1, FS_EmptySet DEF FanoutInit, PublishedIsHeld, EntryForEach
<1> QED
  BY <1>1, <1>2, <1>3 DEF FanoutInv, EntryInv

-----------------------------------------------------------------------------
(* The enricher.                                                           *)

FanActions ==
    \/ FanBegin \/ FanTooMany \/ FanLoad \/ FanLoadFails \/ FanMarkFails \/ FlushBuffer
    \/ FlushFails \/ FanEnd \/ FanAck \/ FanCrash \/ FanMarkExpires

\* The enricher marks a request when every address it loaded is published.
LEMMA FanStep ==
    ASSUME FanTypes, SharedTypes, FanInv, FanActions
    PROVE  FanTypes' /\ SharedTypes' /\ FanInv'
<1> USE Bounds DEF FanTypes, SharedTypes, FanInv, FanIsMarked, AllFannedOut, LoadedIsKnown,
      LeftIsReached, IdleFan
<1>1. CASE FanBegin
  <2>1. CASE fanMark = "none"
    <3>1. /\ requestAt = "pending" /\ fanMark' = "held" /\ requestAt' = requestAt
          /\ fan' = [pc |-> "load", loaded |-> 0, unresolved |-> {}, rejected |-> FALSE]
          /\ UNCHANGED <<oversized, published, eventBuffer, enriched, lapsed, fanFaults>>
      BY <1>1, <2>1 DEF FanBegin
    <3>2. FanTypes' /\ SharedTypes'
      BY <3>1
    <3>3. ASSUME NEW a \in Addresses PROVE LoadedIsKnown(a)'
      <4>1. ~(ChunkOf[a] <= 0)
        OBVIOUS
      <4> QED
        BY <3>1, <4>1
    <3> QED
      BY <3>1, <3>2, <3>3
  <2>2. CASE fanMark # "none"
    <3>1. UNCHANGED <<fan, fanMark, oversized, published, eventBuffer, enriched, fanFaults>> /\ requestAt' = "acked"
      BY <1>1, <2>2 DEF FanBegin
    <3>2. lapsed \subseteq lapsed' /\ lapsed' \in SUBSET Addresses
      BY <1>1, <2>2 DEF FanBegin
    <3>3. fanMark = "left" => lapsed' = lapsed \cup (Addresses \ published)
      BY <1>1, <2>2 DEF FanBegin
    <3>4. FanTypes' /\ SharedTypes'
      BY <3>1, <3>2
    <3>5. fanMark \in {"left", "done"} \/ fan.pc = "load"
      BY <1>1, <2>2 DEF FanBegin
    <3> QED
      BY <3>1, <3>2, <3>3, <3>4, <3>5
  <2> QED
    BY <2>1, <2>2
<1>2. CASE FanTooMany
  BY <1>2 DEF FanTooMany
<1>3. CASE FanLoad
  <2> DEFINE chunk == {a \in Addresses : ChunkOf[a] = fan.loaded + 1}
  <2>1. /\ fan.pc = "load" /\ fan.loaded < Chunks /\ fan.loaded \in Nat
        /\ fan' = [fan EXCEPT !.loaded = @ + 1, !.unresolved = @ \cup chunk]
        /\ eventBuffer' = [a \in Addresses |-> eventBuffer[a] + IF a \in chunk THEN 1 ELSE 0]
        /\ UNCHANGED <<oversized, fanMark, requestAt, enriched, published, lapsed, fanFaults>>
    BY <1>3 DEF FanLoad
  <2>2. /\ fan'.pc = "load" /\ fan'.loaded = fan.loaded + 1 /\ fan'.rejected = fan.rejected
        /\ fan'.unresolved = fan.unresolved \cup chunk
    BY <2>1
  <2>3. FanTypes' /\ SharedTypes'
    <3>1. fan' \in [pc : {"idle", "load", "ack"}, loaded : 0..Chunks,
                    unresolved : SUBSET Addresses, rejected : BOOLEAN]
      <4>1. fan.loaded + 1 \in 0..Chunks /\ fan.unresolved \cup chunk \in SUBSET Addresses
        BY <2>1
      <4> HIDE DEF chunk
      <4> QED
        BY <2>1, <4>1
    <3>2. eventBuffer' \in [Addresses -> Nat]
      <4> HIDE DEF chunk
      <4> QED
        BY <2>1
    <3> HIDE DEF chunk
    <3> QED
      BY <2>1, <3>1, <3>2
  <2>4. ASSUME NEW a \in Addresses PROVE LoadedIsKnown(a)'
    <3>1. ChunkOf[a] <= fan.loaded + 1 => a \in chunk \/ ChunkOf[a] <= fan.loaded
      BY <2>1
    <3> QED
      BY <2>1, <2>2, <3>1
  <2> QED
    BY <2>1, <2>2, <2>3, <2>4
<1>4. CASE FanLoadFails
  BY <1>4 DEF FanLoadFails, FanFault, Forsaken
<1>5. CASE FanMarkFails
  <2>1. \A a \in Addresses : a \in published
    BY <1>5 DEF FanMarkFails
  <2> QED
    BY <1>5, <2>1 DEF FanMarkFails, FanFault
<1>6. CASE FlushBuffer
  BY <1>6 DEF FlushBuffer, Unflushed
<1>7. CASE FlushFails
  <2>1. PICK some \in SUBSET Unflushed :
          /\ enriched' = [a \in Addresses |-> enriched[a] + IF a \in some THEN eventBuffer[a] ELSE 0]
          /\ published' = published \cup some
    BY <1>7 DEF FlushFails
  <2>2. /\ fan' = [fan EXCEPT !.rejected = @ \/ fan.unresolved \cap Unflushed # {},
                              !.unresolved = @ \ Unflushed]
        /\ eventBuffer' = [a \in Addresses |-> 0]
        /\ UNCHANGED <<oversized, fanMark, requestAt, lapsed>>
        /\ fanFaults' = fanFaults + 1 /\ fanFaults < MaxFanFaults
    BY <1>7 DEF FlushFails, FanFault
  <2>3. /\ fan'.pc = fan.pc /\ fan'.loaded = fan.loaded
        /\ fan'.unresolved = fan.unresolved \ Unflushed
        /\ fan'.rejected = (fan.rejected \/ fan.unresolved \cap Unflushed # {})
    BY <2>2
  <2>4. FanTypes' /\ SharedTypes'
    <3>1. enriched' \in [Addresses -> Nat]
      BY <2>1
    <3>2. published' \subseteq Addresses
      BY <2>1 DEF Unflushed
    <3>3. fan' \in [pc : {"idle", "load", "ack"}, loaded : 0..Chunks,
                    unresolved : SUBSET Addresses, rejected : BOOLEAN]
      BY <2>2
    <3>4. eventBuffer' \in [Addresses -> Nat] /\ fanFaults' \in 0..MaxFanFaults
      BY <2>2
    <3> QED
      BY <2>2, <3>1, <3>2, <3>3, <3>4
  <2>5. ASSUME NEW a \in Addresses PROVE LoadedIsKnown(a)'
    BY <2>1, <2>2, <2>3 DEF Unflushed
  <2> QED
    BY <2>1, <2>2, <2>3, <2>4, <2>5
<1>8. CASE FanEnd
  <2>1. CASE fan.rejected
    <3>1. /\ fan.pc = "load" /\ fanMark' \in {"none", "left"} /\ fan' = IdleFan
          /\ UNCHANGED <<oversized, requestAt, eventBuffer, enriched, published, fanFaults>>
          /\ lapsed' = lapsed \cup (IF requestAt = "acked" THEN Addresses \ published ELSE {})
      BY <1>8, <2>1 DEF FanEnd, Forsaken
    <3> QED
      BY <3>1
  <2>2. CASE ~fan.rejected
    <3>1. fan.unresolved = {} /\ fan.loaded = Chunks /\ fan.pc = "load"
      BY <1>8, <2>2 DEF FanEnd
    <3>2. ASSUME NEW a \in Addresses PROVE a \in published
      BY <2>2, <3>1
    <3> QED
      BY <1>8, <2>2, <3>1, <3>2 DEF FanEnd
  <2> QED
    BY <2>1, <2>2
<1>9. CASE FanAck
  BY <1>9 DEF FanAck
<1>10. CASE FanCrash
  BY <1>10 DEF FanCrash, FanFault, Forsaken
<1>11. CASE FanMarkExpires
  BY <1>11 DEF FanMarkExpires
<1> QED
  BY <1>1, <1>2, <1>3, <1>4, <1>5, <1>6, <1>7, <1>8, <1>9, <1>10, <1>11 DEF FanActions

\* It leaves the engine's marks alone, and only adds to its entries.
LEMMA FanAddsEntries ==
    ASSUME SharedTypes, FanTypes, FanActions, NEW a \in Addresses
    PROVE  /\ UNCHANGED engVars
           /\ lapsed \subseteq lapsed'
           /\ enriched'[a] >= enriched[a] /\ enriched'[a] \in Nat
           /\ a \in published' => a \in published \/ enriched'[a] > 0
<1>1. CASE FlushBuffer
  BY <1>1 DEF FlushBuffer, Unflushed, FanTypes, SharedTypes
<1>2. CASE FlushFails
  BY <1>2 DEF FlushFails, Unflushed, FanTypes, SharedTypes
<1>3. CASE FanBegin
  BY <1>3 DEF FanBegin, FanTypes, SharedTypes
<1>4. CASE ~(FlushBuffer \/ FlushFails \/ FanBegin)
  BY <1>4 DEF FanActions, FanTooMany, FanLoad, FanLoadFails, FanMarkFails, FanEnd, FanAck,
     FanCrash, FanMarkExpires, FanTypes, SharedTypes, engVars
<1> QED
  BY <1>1, <1>2, <1>3, <1>4

LEMMA FanKeepsEngine ==
    ASSUME SharedTypes, FanTypes, EngineInv, EntryInv, FanActions
    PROVE  EngineInv' /\ EntryInv'
<1>1. ASSUME NEW a \in Addresses
      PROVE  /\ UNCHANGED engVars
             /\ lapsed \subseteq lapsed'
             /\ enriched'[a] >= enriched[a] /\ enriched'[a] \in Nat
             /\ a \in published' => a \in published \/ enriched'[a] > 0
  BY FanAddsEntries
<1>2. UNCHANGED engVars /\ lapsed \subseteq lapsed'
  BY DEF FanActions, FanBegin, FanTooMany, FanLoad, FanLoadFails, FanMarkFails, FlushBuffer,
     FlushFails, FanEnd, FanAck, FanCrash, FanMarkExpires
<1>3. EngineInv'
  <2>1. \A e \in Engines : HasAddress(e)'
    BY <1>2 DEF engVars, EngineInv, HasAddress
  <2>2. \A e \in Engines, a \in Addresses : WorksAlone(e, a)' /\ AckIsMarked(e, a)'
    BY <1>2 DEF engVars, EngineInv, WorksAlone, AckIsMarked, AtWork
  <2>3. \A a \in Addresses : Handled(a) => Handled(a)'
    BY <1>2 DEF engVars, Handled
  <2>4. \A e \in Engines, a \in Addresses : StageIsTrue(e, a)'
    BY <1>2, <2>3 DEF engVars, EngineInv, StageIsTrue
  <2>5. \A a \in Addresses : HeldIsAtWork(a)' /\ DoneIsHandled(a)'
    BY <1>2, <2>3 DEF engVars, EngineInv, HeldIsAtWork, AtWork, DoneIsHandled
  <2>6. \A a \in Addresses : HandedIsKnown(a)'
    BY <1>2 DEF engVars, EngineInv, HandedIsKnown
  <2> QED
    BY <2>1, <2>2, <2>4, <2>5, <2>6 DEF EngineInv
<1>4. ASSUME NEW a \in Addresses PROVE PublishedIsHeld(a)' /\ EntryForEach(a)'
  <2>1. Holding(a)' = Holding(a) /\ (Handled(a) => Handled(a)')
        /\ \A e \in Engines : AtGate(e, a) => AtGate(e, a)'
    BY <1>2 DEF engVars, InEngine, Holding, Handled, AtGate
  <2>2. Holding(a) \subseteq Engines
    BY DEF InEngine, Holding
  <2>3. Cardinality(Holding(a)) \in Nat
    BY <2>2, FanoutAssumption, FS_Subset, FS_CardinalityType
  <2> QED
    BY <1>1, <2>1, <2>3 DEF EntryInv, PublishedIsHeld, EntryForEach, FanTypes, SharedTypes
<1> QED
  BY <1>3, <1>4 DEF EntryInv

-----------------------------------------------------------------------------
(* The engine.                                                             *)

EngineActions ==
    \/ \E e \in Engines :
          \/ \E a \in Addresses : EngineBegin(e, a)
          \/ EngineAgain(e) \/ EngineDrops(e) \/ EngineHandsOn(e) \/ EngineMarks(e) \/ EngineAcks(e)
          \/ EngineFails(e) \/ EngineCrash(e)
    \/ \E a \in Addresses : EngineMarkExpires(a)

\* The engine leaves the enricher alone.
LEMMA EngineKeepsFan ==
    ASSUME FanInv, EngineActions
    PROVE  FanInv'
<1>1. UNCHANGED <<oversized, fanVars, published>> /\ lapsed \subseteq lapsed'
  BY DEF EngineActions, EngineBegin, EngineAgain, EngineDrops, EngineHandsOn, EngineMarks, EngineAcks,
     EngineFails, EngineCrash, EngineMarkExpires, Deserted, fanVars
<1> QED
  BY <1>1 DEF fanVars, FanInv, FanIsMarked, AllFannedOut, LoadedIsKnown, LeftIsReached

LEMMA HoldingIsFinite ==
    ASSUME NEW a \in Addresses
    PROVE  /\ Holding(a) \subseteq Engines /\ IsFiniteSet(Holding(a))
           /\ Cardinality(Holding(a)) \in Nat
           /\ \A e \in Holding(a) :
                 /\ Cardinality(Holding(a)) > 0
                 /\ IsFiniteSet(Holding(a) \ {e})
                 /\ Cardinality(Holding(a) \ {e}) = Cardinality(Holding(a)) - 1
           /\ \A e : e \notin Holding(a) =>
                 Cardinality(Holding(a) \cup {e}) = Cardinality(Holding(a)) + 1
<1>1. Holding(a) \subseteq Engines
  BY DEF InEngine, Holding
<1>2. IsFiniteSet(Holding(a)) /\ Cardinality(Holding(a)) \in Nat
  BY <1>1, FanoutAssumption, FS_Subset, FS_CardinalityType
<1>3. ASSUME NEW e \in Holding(a)
      PROVE  /\ Cardinality(Holding(a)) > 0
             /\ IsFiniteSet(Holding(a) \ {e})
             /\ Cardinality(Holding(a) \ {e}) = Cardinality(Holding(a)) - 1
  <2>1. Holding(a) # {}
    OBVIOUS
  <2> QED
    BY <1>2, <2>1, FS_EmptySet, FS_RemoveElement
<1>4. ASSUME NEW e, e \notin Holding(a)
      PROVE  Cardinality(Holding(a) \cup {e}) = Cardinality(Holding(a)) + 1
  BY <1>2, <1>4, FS_AddElement
<1> QED
  BY <1>1, <1>2, <1>3, <1>4

\* A message begins with a free marker, or leaves the messages as they are.
LEMMA BeginFacts ==
    ASSUME NEW e \in Engines, NEW a \in Addresses, EngineBegin(e, a)
    PROVE  /\ engine[e].pc = "idle" /\ lapsed \subseteq lapsed'
           /\ UNCHANGED <<dispatched, dropped, unrecorded, fanFaults>>
           /\ \/ /\ engineMark[a] = "none" /\ engineMark' = [engineMark EXCEPT ![a] = "held"]
                 /\ engine' = [engine EXCEPT ![e] = [pc |-> "gate", address |-> {a}, entry |-> "there"]]
                 /\ UNCHANGED <<enriched, lapsed>>
              \/ engineMark[a] # "none" /\ engineMark' = engineMark /\ engine' = engine
BY DEF EngineBegin

\* The entries an engine message acknowledges are there.
LEMMA EngineTypesStep ==
    ASSUME EngineTypes, SharedTypes, EngineInv, EntryInv, EngineActions
    PROVE  EngineTypes' /\ SharedTypes'
<1> USE Bounds DEF EngineTypes, SharedTypes
<1>1. ASSUME NEW e \in Engines, NEW a \in Addresses, EngineBegin(e, a)
      PROVE  EngineTypes' /\ SharedTypes'
  <2>1. enriched[a] > 0
    BY <1>1, HoldingIsFinite DEF EngineBegin
  <2>2. CASE engineMark[a] = "none"
    <3>1. [pc |-> "gate", address |-> {a}, entry |-> "there"] \in
             [pc : {"idle", "gate", "dropped", "handed", "ack"}, address : SUBSET Addresses,
              entry : {"there", "gone"}]
      OBVIOUS
    <3>2. engine' \in [Engines -> [pc : {"idle", "gate", "dropped", "handed", "ack"},
                                   address : SUBSET Addresses, entry : {"there", "gone"}]]
      BY <1>1, <2>2, <3>1, BeginFacts
    <3> QED
      BY <1>1, <2>2, <3>2, BeginFacts
  <2>3. CASE engineMark[a] # "none"
    <3>1. enriched' = [enriched EXCEPT ![a] = @ - 1] /\ lapsed' \in SUBSET Addresses
      BY <1>1, <2>3 DEF EngineBegin, AckEnriched
    <3>2. enriched[a] - 1 \in Nat
      BY <2>1
    <3>3. enriched' \in [Addresses -> Nat]
      BY <3>1, <3>2
    <3>4. UNCHANGED <<engVars, fanFaults>>
      BY <1>1, <2>3 DEF EngineBegin, engVars
    <3> QED
      BY <3>1, <3>3, <3>4 DEF engVars
  <2> QED
    BY <2>2, <2>3
<1>2. ASSUME NEW e \in Engines, EngineDrops(e) \/ EngineHandsOn(e)
      PROVE  EngineTypes' /\ SharedTypes'
  BY <1>2 DEF EngineDrops, EngineHandsOn
<1>3. ASSUME NEW e \in Engines, EngineMarks(e) PROVE EngineTypes' /\ SharedTypes'
  BY <1>3 DEF EngineMarks, Remark
<1>8. ASSUME NEW e \in Engines, NEW a \in engine[e].address, engine[e].entry = "there", AckEnriched(a)
      PROVE  enriched' \in [Addresses -> Nat]
  <2>1. a \in Addresses /\ engine[e].address = {a}
    BY <1>8 DEF EngineInv, HasAddress
  <2>2. e \in Holding(a)
    BY <1>8, <2>1 DEF InEngine, Holding
  <2>3. Cardinality(Holding(a)) > 0 /\ Cardinality(Holding(a)) \in Nat
    BY <2>1, <2>2, HoldingIsFinite
  <2>4. enriched[a] >= Cardinality(Holding(a))
    BY <2>1 DEF EntryInv, EntryForEach
  <2>5. enriched[a] > 0
    BY <2>1, <2>3, <2>4
  <2> QED
    BY <1>8, <2>1, <2>5 DEF AckEnriched
<1>4. ASSUME NEW e \in Engines, EngineAcks(e) PROVE EngineTypes' /\ SharedTypes'
  <2>1. CASE engine[e].entry = "gone"
    BY <1>4, <2>1 DEF EngineAcks
  <2>2. CASE engine[e].entry = "there"
    <3>1. PICK a \in engine[e].address : AckEnriched(a)
      BY <1>4, <2>2 DEF EngineAcks
    <3>2. enriched' \in [Addresses -> Nat]
      BY <1>8, <2>2, <3>1
    <3> QED
      BY <1>4, <3>2 DEF EngineAcks
  <2> QED
    BY <2>1, <2>2
<1>9. ASSUME NEW e \in Engines, EngineAgain(e) PROVE EngineTypes' /\ SharedTypes'
  <2>1. PICK a \in engine[e].address : AckEnriched(a)
    BY <1>9 DEF EngineAgain
  <2>2. enriched' \in [Addresses -> Nat]
    BY <1>8, <1>9, <2>1 DEF EngineAgain
  <2> QED
    BY <1>9, <2>2 DEF EngineAgain
<1>5. ASSUME NEW e \in Engines, EngineFails(e) PROVE EngineTypes' /\ SharedTypes'
  BY <1>5 DEF EngineFails, FanFault, Remark, Unrecorded, Deserted
<1>6. ASSUME NEW e \in Engines, EngineCrash(e) PROVE EngineTypes' /\ SharedTypes'
  BY <1>6 DEF EngineCrash, FanFault, Unrecorded, Deserted
<1>7. ASSUME NEW a \in Addresses, EngineMarkExpires(a) PROVE EngineTypes' /\ SharedTypes'
  BY <1>7 DEF EngineMarkExpires
<1> QED
  BY <1>1, <1>2, <1>3, <1>4, <1>5, <1>6, <1>7, <1>9 DEF EngineActions

\* A message has the address it was read for until it is acknowledged.
LEMMA AddressStep ==
    ASSUME EngineTypes, NEW f \in Engines, HasAddress(f), EngineActions
    PROVE  HasAddress(f)'
<1>1. ASSUME NEW e \in Engines, NEW a \in Addresses, EngineBegin(e, a) PROVE HasAddress(f)'
  BY <1>1 DEF EngineBegin, AckEnriched, IdleEngine, EngineTypes, HasAddress
<1>2. ASSUME NEW e \in Engines, EngineDrops(e) PROVE HasAddress(f)'
  BY <1>2 DEF EngineDrops, EngineTypes, HasAddress
<1>3. ASSUME NEW e \in Engines, EngineHandsOn(e) PROVE HasAddress(f)'
  BY <1>3 DEF EngineHandsOn, EngineTypes, HasAddress
<1>4. ASSUME NEW e \in Engines, EngineMarks(e) PROVE HasAddress(f)'
  BY <1>4 DEF EngineMarks, Remark, EngineTypes, HasAddress
<1>5. ASSUME NEW e \in Engines, EngineAcks(e) PROVE HasAddress(f)'
  BY <1>5 DEF EngineAcks, IdleEngine, EngineTypes, HasAddress
<1>6. ASSUME NEW e \in Engines, EngineFails(e) PROVE HasAddress(f)'
  BY <1>6 DEF EngineFails, Remark, Unrecorded, Deserted, IdleEngine, EngineTypes, HasAddress
<1>7. ASSUME NEW e \in Engines, EngineCrash(e) PROVE HasAddress(f)'
  BY <1>7 DEF EngineCrash, Unrecorded, Deserted, IdleEngine, EngineTypes, HasAddress
<1>8. ASSUME NEW a \in Addresses, EngineMarkExpires(a) PROVE HasAddress(f)'
  BY <1>8 DEF EngineMarkExpires, InEngine, EngineTypes, HasAddress
<1>9. ASSUME NEW e \in Engines, EngineAgain(e) PROVE HasAddress(f)'
  BY <1>9 DEF EngineAgain, AckEnriched, EngineTypes, HasAddress
<1> QED
  BY <1>1, <1>2, <1>3, <1>4, <1>5, <1>6, <1>7, <1>8, <1>9 DEF EngineActions

\* Only a free marker lets a message begin.
LEMMA AloneStep ==
    ASSUME EngineTypes, NEW b \in Addresses, NEW f \in Engines, \A g \in Engines :
           HasAddress(g), \A g \in Engines : WorksAlone(g, b) /\ AckIsMarked(g, b), EngineActions
    PROVE  WorksAlone(f, b)'
<1>1. ASSUME NEW e \in Engines, NEW a \in Addresses, EngineBegin(e, a) PROVE WorksAlone(f, b)'
  <2>1. CASE engineMark[a] # "none"
    BY <1>1, <2>1 DEF EngineBegin, WorksAlone, AtWork
  <2>2. CASE engineMark[a] = "none"
    <3>1. /\ engineMark' = [engineMark EXCEPT ![a] = "held"]
          /\ engine' = [engine EXCEPT ![e] = [pc |-> "gate", address |-> {a}, entry |-> "there"]]
      BY <1>1, <2>2 DEF EngineBegin
    <3>2. /\ engine'[e].address = {a} /\ \A g \in Engines \ {e} : engine'[g] = engine[g]
          /\ engineMark'[a] = "held" /\ (a # b => engineMark'[b] = engineMark[b])
      BY <3>1 DEF EngineTypes, IdleEngine
    <3>3. CASE a = b
      <4>1. \A g \in Engines : ~AtWork(g, b)
        BY <2>2, <3>3 DEF WorksAlone
      <4> QED
        BY <3>2, <3>3, <4>1 DEF WorksAlone, AtWork
    <3>4. CASE a # b
      <4>1. ~AtWork(e, b)' /\ ~AtWork(e, b)
        BY <1>1, <3>2, <3>4 DEF AtWork, EngineBegin
      <4>2. \A g \in Engines : AtWork(g, b)' <=> AtWork(g, b)
        BY <3>2, <4>1 DEF AtWork
      <4> QED
        BY <3>2, <3>4, <4>2 DEF WorksAlone
    <3> QED
      BY <3>3, <3>4
  <2> QED
    BY <2>1, <2>2
<1>2. ASSUME NEW e \in Engines, EngineDrops(e) PROVE WorksAlone(f, b)'
  BY <1>2 DEF EngineDrops, EngineTypes, HasAddress, WorksAlone, AtWork
<1>3. ASSUME NEW e \in Engines, EngineHandsOn(e) PROVE WorksAlone(f, b)'
  BY <1>3 DEF EngineHandsOn, EngineTypes, HasAddress, WorksAlone, AtWork
<1>4. ASSUME NEW e \in Engines, EngineMarks(e) PROVE WorksAlone(f, b)'
  BY <1>4 DEF EngineMarks, Remark, EngineTypes, HasAddress, WorksAlone, AtWork
<1>5. ASSUME NEW e \in Engines, EngineAcks(e) PROVE WorksAlone(f, b)'
  BY <1>5 DEF EngineAcks, IdleEngine, EngineTypes, HasAddress, WorksAlone, AtWork
<1>6. ASSUME NEW e \in Engines, EngineFails(e) PROVE WorksAlone(f, b)'
  BY <1>6 DEF EngineFails, Remark, Unrecorded, Deserted, IdleEngine, EngineTypes, HasAddress,
     WorksAlone, AtWork
<1>7. ASSUME NEW e \in Engines, EngineCrash(e) PROVE WorksAlone(f, b)'
  <2>1. /\ engine' = [engine EXCEPT ![e] = IdleEngine]
        /\ engineMark' = [a \in Addresses |->
              IF a \in engine[e].address /\ engineMark[a] = "held" THEN "left" ELSE engineMark[a]]
    BY <1>7 DEF EngineCrash
  <2>2. engine'[e].pc = "idle" /\ \A g \in Engines \ {e} : engine'[g] = engine[g]
    BY <2>1 DEF EngineTypes, IdleEngine
  <2>3. b \notin engine[e].address => engineMark'[b] = engineMark[b]
    BY <2>1
  <2>4. ASSUME NEW g \in Engines, AtWork(g, b)' PROVE g # e /\ AtWork(g, b)
    BY <2>2, <2>4 DEF AtWork
  <2>5. ASSUME AtWork(f, b)' PROVE engineMark'[b] = "held"
    <3>1. f # e /\ AtWork(f, b) /\ engineMark[b] = "held"
      BY <2>4, <2>5 DEF WorksAlone
    <3>2. CASE b \notin engine[e].address
      BY <2>3, <3>1, <3>2
    <3>3. CASE b \in engine[e].address
      <4>1. engine[e].address = {b}
        BY <3>3 DEF HasAddress
      <4>2. engine[e].pc = "ack"
        BY <1>7, <3>1, <4>1 DEF EngineCrash, WorksAlone, AtWork, EngineTypes
      <4> QED
        BY <3>1, <4>1, <4>2 DEF AckIsMarked
    <3> QED
      BY <3>2, <3>3
  <2> QED
    BY <2>4, <2>5 DEF WorksAlone
<1>8. ASSUME NEW a \in Addresses, EngineMarkExpires(a) PROVE WorksAlone(f, b)'
  BY <1>8 DEF EngineMarkExpires, InEngine, EngineTypes, HasAddress, WorksAlone, AtWork
<1>9. ASSUME NEW e \in Engines, EngineAgain(e) PROVE WorksAlone(f, b)'
  BY <1>9 DEF EngineAgain, AckEnriched, EngineTypes, HasAddress, WorksAlone, AtWork
<1> QED
  BY <1>1, <1>2, <1>3, <1>4, <1>5, <1>6, <1>7, <1>8, <1>9 DEF EngineActions

\* What is handled stays so.
LEMMA HandledStays ==
    ASSUME EngineTypes, NEW b \in Addresses, Handled(b), EngineActions
    PROVE  Handled(b)'
<1>1. ASSUME NEW e \in Engines, NEW a \in Addresses, EngineBegin(e, a) PROVE Handled(b)'
  BY <1>1 DEF EngineBegin, AckEnriched, IdleEngine, EngineTypes, Handled
<1>2. ASSUME NEW e \in Engines, EngineDrops(e) PROVE Handled(b)'
  BY <1>2 DEF EngineDrops, EngineTypes, Handled
<1>3. ASSUME NEW e \in Engines, EngineHandsOn(e) PROVE Handled(b)'
  BY <1>3 DEF EngineHandsOn, EngineTypes, Handled
<1>4. ASSUME NEW e \in Engines, EngineMarks(e) PROVE Handled(b)'
  BY <1>4 DEF EngineMarks, Remark, EngineTypes, Handled
<1>5. ASSUME NEW e \in Engines, EngineAcks(e) PROVE Handled(b)'
  BY <1>5 DEF EngineAcks, IdleEngine, EngineTypes, Handled
<1>6. ASSUME NEW e \in Engines, EngineFails(e) PROVE Handled(b)'
  BY <1>6 DEF EngineFails, Remark, Unrecorded, Deserted, IdleEngine, EngineTypes, Handled
<1>7. ASSUME NEW e \in Engines, EngineCrash(e) PROVE Handled(b)'
  BY <1>7 DEF EngineCrash, Unrecorded, Deserted, IdleEngine, EngineTypes, Handled
<1>8. ASSUME NEW a \in Addresses, EngineMarkExpires(a) PROVE Handled(b)'
  BY <1>8 DEF EngineMarkExpires, InEngine, EngineTypes, Handled
<1>9. ASSUME NEW e \in Engines, EngineAgain(e) PROVE Handled(b)'
  BY <1>9 DEF EngineAgain, AckEnriched, EngineTypes, Handled
<1> QED
  BY <1>1, <1>2, <1>3, <1>4, <1>5, <1>6, <1>7, <1>8, <1>9 DEF EngineActions

\* A message acknowledges with its marker written, which no other can take.
LEMMA AckStep ==
    ASSUME EngineTypes, NEW b \in Addresses, NEW f \in Engines, \A g \in Engines :
           HasAddress(g), \A g \in Engines :
           WorksAlone(g, b), AckIsMarked(f, b), EngineActions
    PROVE  AckIsMarked(f, b)'
<1>1. ASSUME NEW e \in Engines, NEW a \in Addresses, EngineBegin(e, a) PROVE AckIsMarked(f, b)'
  BY <1>1, BeginFacts DEF EngineTypes, HasAddress, WorksAlone, AckIsMarked, AtWork
<1>2. ASSUME NEW e \in Engines, EngineDrops(e) PROVE AckIsMarked(f, b)'
  BY <1>2 DEF EngineDrops, EngineTypes, HasAddress, WorksAlone, AckIsMarked, AtWork
<1>3. ASSUME NEW e \in Engines, EngineHandsOn(e) PROVE AckIsMarked(f, b)'
  BY <1>3 DEF EngineHandsOn, EngineTypes, HasAddress, WorksAlone, AckIsMarked, AtWork
<1>4. ASSUME NEW e \in Engines, EngineMarks(e) PROVE AckIsMarked(f, b)'
  BY <1>4 DEF EngineMarks, Remark, EngineTypes, HasAddress, WorksAlone, AckIsMarked, AtWork
<1>5. ASSUME NEW e \in Engines, EngineAcks(e) PROVE AckIsMarked(f, b)'
  BY <1>5 DEF EngineAcks, IdleEngine, EngineTypes, HasAddress, WorksAlone, AckIsMarked, AtWork
<1>6. ASSUME NEW e \in Engines, EngineFails(e) PROVE AckIsMarked(f, b)'
  BY <1>6 DEF EngineFails, Remark, Unrecorded, Deserted, IdleEngine, EngineTypes, HasAddress,
     WorksAlone, AckIsMarked, AtWork
<1>7. ASSUME NEW e \in Engines, EngineCrash(e) PROVE AckIsMarked(f, b)'
  BY <1>7 DEF EngineCrash, Unrecorded, Deserted, IdleEngine, EngineTypes, HasAddress, WorksAlone, AckIsMarked, AtWork
<1>8. ASSUME NEW a \in Addresses, EngineMarkExpires(a) PROVE AckIsMarked(f, b)'
  BY <1>8 DEF EngineMarkExpires, InEngine, EngineTypes, HasAddress, WorksAlone, AckIsMarked, AtWork
<1>9. ASSUME NEW e \in Engines, EngineAgain(e) PROVE AckIsMarked(f, b)'
  BY <1>9 DEF EngineAgain, AckEnriched, EngineTypes, HasAddress, WorksAlone, AckIsMarked, AtWork
<1> QED
  BY <1>1, <1>2, <1>3, <1>4, <1>5, <1>6, <1>7, <1>8, <1>9 DEF EngineActions

\* Where a message is tells what became of its address.
LEMMA StageStep ==
    ASSUME EngineTypes, NEW b \in Addresses, NEW f \in Engines, \A g \in Engines :
           HasAddress(g), StageIsTrue(f, b), EngineActions
    PROVE  StageIsTrue(f, b)'
<1>1. ASSUME NEW e \in Engines, NEW a \in Addresses, EngineBegin(e, a) PROVE StageIsTrue(f, b)'
  BY <1>1, BeginFacts DEF EngineTypes, HasAddress, StageIsTrue, Handled
<1>2. ASSUME NEW e \in Engines, EngineDrops(e) PROVE StageIsTrue(f, b)'
  BY <1>2 DEF EngineDrops, EngineTypes, HasAddress, StageIsTrue, Handled
<1>3. ASSUME NEW e \in Engines, EngineHandsOn(e) PROVE StageIsTrue(f, b)'
  BY <1>3 DEF EngineHandsOn, EngineTypes, HasAddress, StageIsTrue, Handled
<1>4. ASSUME NEW e \in Engines, EngineMarks(e) PROVE StageIsTrue(f, b)'
  BY <1>4 DEF EngineMarks, Remark, EngineTypes, HasAddress, StageIsTrue, Handled
<1>5. ASSUME NEW e \in Engines, EngineAcks(e) PROVE StageIsTrue(f, b)'
  BY <1>5 DEF EngineAcks, IdleEngine, EngineTypes, HasAddress, StageIsTrue, Handled
<1>6. ASSUME NEW e \in Engines, EngineFails(e) PROVE StageIsTrue(f, b)'
  BY <1>6 DEF EngineFails, Remark, Unrecorded, Deserted, IdleEngine, EngineTypes, HasAddress,
     StageIsTrue, Handled
<1>7. ASSUME NEW e \in Engines, EngineCrash(e) PROVE StageIsTrue(f, b)'
  BY <1>7 DEF EngineCrash, Unrecorded, Deserted, IdleEngine, EngineTypes, HasAddress, StageIsTrue,
     Handled
<1>8. ASSUME NEW a \in Addresses, EngineMarkExpires(a) PROVE StageIsTrue(f, b)'
  BY <1>8 DEF EngineMarkExpires, InEngine, EngineTypes, HasAddress, StageIsTrue, Handled
<1>9. ASSUME NEW e \in Engines, EngineAgain(e) PROVE StageIsTrue(f, b)'
  BY <1>9 DEF EngineAgain, AckEnriched, EngineTypes, HasAddress, StageIsTrue, Handled
<1> QED
  BY <1>1, <1>2, <1>3, <1>4, <1>5, <1>6, <1>7, <1>8, <1>9 DEF EngineActions

\* A marker is held by a message at work, and left behind by no other.
LEMMA HeldStep ==
    ASSUME EngineTypes, NEW b \in Addresses, \A g \in Engines : HasAddress(g), \A g
           \in Engines : WorksAlone(g, b), HeldIsAtWork(b), EngineActions
    PROVE  HeldIsAtWork(b)'
<1>1. ASSUME NEW e \in Engines, NEW a \in Addresses, EngineBegin(e, a) PROVE HeldIsAtWork(b)'
  <2>1. CASE engineMark[a] = "none"
    <3>1. /\ engineMark' = [engineMark EXCEPT ![a] = "held"] /\ engine[e].pc = "idle"
          /\ engine' = [engine EXCEPT ![e] = [pc |-> "gate", address |-> {a}, entry |-> "there"]]
      BY <1>1, <2>1, BeginFacts
    <3>2. AtWork(e, a)' /\ \A g \in Engines : AtWork(g, b) => AtWork(g, b)'
      BY <3>1 DEF EngineTypes, AtWork
    <3> QED
      BY <3>1, <3>2 DEF EngineTypes, HeldIsAtWork
  <2>2. CASE engineMark[a] # "none"
    BY <1>1, <2>2, BeginFacts DEF HeldIsAtWork, AtWork
  <2> QED
    BY <2>1, <2>2
<1>2. ASSUME NEW e \in Engines, EngineDrops(e) PROVE HeldIsAtWork(b)'
  BY <1>2 DEF EngineDrops, EngineTypes, HasAddress, WorksAlone, HeldIsAtWork, AtWork
<1>3. ASSUME NEW e \in Engines, EngineHandsOn(e) PROVE HeldIsAtWork(b)'
  BY <1>3 DEF EngineHandsOn, EngineTypes, HasAddress, WorksAlone, HeldIsAtWork, AtWork
<1>4. ASSUME NEW e \in Engines, EngineMarks(e) PROVE HeldIsAtWork(b)'
  BY <1>4 DEF EngineMarks, Remark, EngineTypes, HasAddress, WorksAlone, HeldIsAtWork,
     AtWork
<1>5. ASSUME NEW e \in Engines, EngineAcks(e) PROVE HeldIsAtWork(b)'
  BY <1>5 DEF EngineAcks, IdleEngine, EngineTypes, HasAddress, WorksAlone, HeldIsAtWork,
     AtWork
<1>6. ASSUME NEW e \in Engines, EngineFails(e) PROVE HeldIsAtWork(b)'
  BY <1>6 DEF EngineFails, Remark, Unrecorded, Deserted, IdleEngine, EngineTypes, HasAddress,
     WorksAlone, HeldIsAtWork, AtWork
<1>7. ASSUME NEW e \in Engines, EngineCrash(e) PROVE HeldIsAtWork(b)'
  BY <1>7 DEF EngineCrash, Unrecorded, Deserted, IdleEngine, EngineTypes, HasAddress, WorksAlone,
     HeldIsAtWork, AtWork
<1>8. ASSUME NEW a \in Addresses, EngineMarkExpires(a) PROVE HeldIsAtWork(b)'
  BY <1>8 DEF EngineMarkExpires, InEngine, EngineTypes, HasAddress, WorksAlone,
     HeldIsAtWork, AtWork
<1>9. ASSUME NEW e \in Engines, EngineAgain(e) PROVE HeldIsAtWork(b)'
  BY <1>9 DEF EngineAgain, AckEnriched, EngineTypes, HasAddress, WorksAlone, HeldIsAtWork, AtWork
<1> QED
  BY <1>1, <1>2, <1>3, <1>4, <1>5, <1>6, <1>7, <1>8, <1>9 DEF EngineActions

\* The marker is written for good when the address is handled.
LEMMA DoneStep ==
    ASSUME EngineTypes, NEW b \in Addresses, \A g \in Engines : HasAddress(g), \A g
           \in Engines : StageIsTrue(g, b), \A g \in Engines : WorksAlone(g, b),
           DoneIsHandled(b), EngineActions
    PROVE  DoneIsHandled(b)'
<1>1. ASSUME NEW e \in Engines, NEW a \in Addresses, EngineBegin(e, a) PROVE DoneIsHandled(b)'
  BY <1>1 DEF EngineBegin, AckEnriched, IdleEngine, EngineTypes, HasAddress, StageIsTrue, WorksAlone,
     AtWork, DoneIsHandled, Handled
<1>2. ASSUME NEW e \in Engines, EngineDrops(e) PROVE DoneIsHandled(b)'
  BY <1>2 DEF EngineDrops, EngineTypes, HasAddress, StageIsTrue, WorksAlone, AtWork,
     DoneIsHandled, Handled
<1>3. ASSUME NEW e \in Engines, EngineHandsOn(e) PROVE DoneIsHandled(b)'
  BY <1>3 DEF EngineHandsOn, EngineTypes, HasAddress, StageIsTrue, WorksAlone, AtWork,
     DoneIsHandled, Handled
<1>4. ASSUME NEW e \in Engines, EngineMarks(e) PROVE DoneIsHandled(b)'
  BY <1>4 DEF EngineMarks, Remark, EngineTypes, HasAddress, StageIsTrue, WorksAlone,
     AtWork, DoneIsHandled, Handled
<1>5. ASSUME NEW e \in Engines, EngineAcks(e) PROVE DoneIsHandled(b)'
  BY <1>5 DEF EngineAcks, IdleEngine, EngineTypes, HasAddress, StageIsTrue, WorksAlone,
     AtWork, DoneIsHandled, Handled
<1>6. ASSUME NEW e \in Engines, EngineFails(e) PROVE DoneIsHandled(b)'
  BY <1>6 DEF EngineFails, Remark, Unrecorded, Deserted, IdleEngine, EngineTypes, HasAddress,
     StageIsTrue, WorksAlone, AtWork, DoneIsHandled, Handled
<1>7. ASSUME NEW e \in Engines, EngineCrash(e) PROVE DoneIsHandled(b)'
  BY <1>7 DEF EngineCrash, Unrecorded, Deserted, IdleEngine, EngineTypes, HasAddress, StageIsTrue,
     WorksAlone, AtWork, DoneIsHandled, Handled
<1>8. ASSUME NEW a \in Addresses, EngineMarkExpires(a) PROVE DoneIsHandled(b)'
  BY <1>8 DEF EngineMarkExpires, InEngine, EngineTypes, HasAddress, StageIsTrue,
     WorksAlone, AtWork, DoneIsHandled, Handled
<1>9. ASSUME NEW e \in Engines, EngineAgain(e) PROVE DoneIsHandled(b)'
  BY <1>9 DEF EngineAgain, AckEnriched, EngineTypes, HasAddress, StageIsTrue, WorksAlone, AtWork,
     DoneIsHandled, Handled
<1> QED
  BY <1>1, <1>2, <1>3, <1>4, <1>5, <1>6, <1>7, <1>8, <1>9 DEF EngineActions

\* A task is handed on by the one message at work, which finds no record of another.
LEMMA HandedStep ==
    ASSUME EngineTypes, NEW b \in Addresses, \A g \in Engines : HasAddress(g), \A g
           \in Engines : WorksAlone(g, b), HandedIsKnown(b), EngineActions
    PROVE  HandedIsKnown(b)'
<1>1. ASSUME NEW e \in Engines, NEW a \in Addresses, EngineBegin(e, a) PROVE HandedIsKnown(b)'
  BY <1>1 DEF EngineBegin, AckEnriched, IdleEngine, EngineTypes, HasAddress, WorksAlone, AtWork,
     HandedIsKnown
<1>2. ASSUME NEW e \in Engines, EngineDrops(e) PROVE HandedIsKnown(b)'
  BY <1>2 DEF EngineDrops, EngineTypes, HasAddress, WorksAlone, AtWork, HandedIsKnown
<1>3. ASSUME NEW e \in Engines, EngineHandsOn(e) PROVE HandedIsKnown(b)'
  BY <1>3 DEF EngineHandsOn, EngineTypes, HasAddress, WorksAlone, AtWork, HandedIsKnown
<1>4. ASSUME NEW e \in Engines, EngineMarks(e) PROVE HandedIsKnown(b)'
  BY <1>4 DEF EngineMarks, Remark, EngineTypes, HasAddress, WorksAlone, AtWork,
     HandedIsKnown
<1>5. ASSUME NEW e \in Engines, EngineAcks(e) PROVE HandedIsKnown(b)'
  BY <1>5 DEF EngineAcks, IdleEngine, EngineTypes, HasAddress, WorksAlone, AtWork,
     HandedIsKnown
<1>6. ASSUME NEW e \in Engines, EngineFails(e) PROVE HandedIsKnown(b)'
  BY <1>6 DEF EngineFails, Remark, Unrecorded, Deserted, IdleEngine, EngineTypes, HasAddress,
     WorksAlone, AtWork, HandedIsKnown
<1>7. ASSUME NEW e \in Engines, EngineCrash(e) PROVE HandedIsKnown(b)'
  BY <1>7 DEF EngineCrash, Unrecorded, Deserted, IdleEngine, EngineTypes, HasAddress, WorksAlone,
     AtWork, HandedIsKnown
<1>8. ASSUME NEW a \in Addresses, EngineMarkExpires(a) PROVE HandedIsKnown(b)'
  BY <1>8 DEF EngineMarkExpires, InEngine, EngineTypes, HasAddress, WorksAlone, AtWork,
     HandedIsKnown
<1>9. ASSUME NEW e \in Engines, EngineAgain(e) PROVE HandedIsKnown(b)'
  BY <1>9 DEF EngineAgain, AckEnriched, EngineTypes, HasAddress, WorksAlone, AtWork, HandedIsKnown
<1> QED
  BY <1>1, <1>2, <1>3, <1>4, <1>5, <1>6, <1>7, <1>8, <1>9 DEF EngineActions

\* A message at the gates comes through them, or fails and leaves its entry or a trace.
LEMMA GateStep ==
    ASSUME EngineTypes, SharedTypes, EngineInv, NEW b \in Addresses, NEW f \in Engines, AtGate(f, b),
           EntryForEach(b), EngineActions
    PROVE  AtGate(f, b)' \/ Handled(b)' \/ enriched'[b] > 0
<1>1. ASSUME NEW e \in Engines, NEW a \in Addresses, EngineBegin(e, a) PROVE AtGate(f, b)'
  BY <1>1 DEF EngineBegin, AckEnriched, IdleEngine, EngineTypes, AtGate
<1>2. ASSUME NEW e \in Engines, EngineAgain(e) PROVE AtGate(f, b)'
  BY <1>2 DEF EngineAgain, EngineTypes, AtGate
<1>3. ASSUME NEW e \in Engines, EngineDrops(e) PROVE AtGate(f, b)' \/ Handled(b)'
  BY <1>3 DEF EngineDrops, EngineTypes, AtGate, Handled
<1>4. ASSUME NEW e \in Engines, EngineHandsOn(e) PROVE AtGate(f, b)' \/ Handled(b)'
  BY <1>4 DEF EngineHandsOn, EngineTypes, AtGate, Handled
<1>5. ASSUME NEW e \in Engines, EngineMarks(e) \/ EngineAcks(e) PROVE AtGate(f, b)'
  BY <1>5 DEF EngineMarks, EngineAcks, EngineTypes, AtGate
<1>6. ASSUME NEW e \in Engines, EngineFails(e) \/ EngineCrash(e)
      PROVE  AtGate(f, b)' \/ Handled(b)' \/ enriched'[b] > 0
  <2>1. /\ engine' = [engine EXCEPT ![e] = IdleEngine] /\ enriched' = enriched
        /\ lapsed' = Deserted(e)
    BY <1>6 DEF EngineFails, EngineCrash
  <2>2. CASE e # f
    BY <2>1, <2>2 DEF EngineTypes, AtGate
  <2>3. CASE e = f /\ engine[e].entry = "gone"
    BY <2>1, <2>3 DEF Deserted, AtGate, Handled
  <2>4. CASE e = f /\ engine[e].entry = "there"
    <3>1. e \in Holding(b)
      BY <2>4 DEF AtGate, InEngine, Holding
    <3>2. Cardinality(Holding(b)) > 0 /\ Cardinality(Holding(b)) \in Nat
      BY <3>1, HoldingIsFinite
    <3> QED
      BY <2>1, <3>2 DEF EntryForEach, SharedTypes
  <2>5. engine[e].entry \in {"there", "gone"}
    BY DEF EngineTypes
  <2> QED
    BY <2>2, <2>3, <2>4, <2>5
<1>7. ASSUME NEW a \in Addresses, EngineMarkExpires(a) PROVE AtGate(f, b)'
  BY <1>7 DEF EngineMarkExpires, AtGate
<1> QED
  BY <1>1, <1>2, <1>3, <1>4, <1>5, <1>6, <1>7 DEF EngineActions

\* An entry is acknowledged by the message that took it, or as a duplicate while
\* another message holds the work.
LEMMA EntryStep ==
    ASSUME EngineTypes, SharedTypes, EngineInv, NEW b \in Addresses, PublishedIsHeld(b),
           EntryForEach(b), EngineActions
    PROVE  PublishedIsHeld(b)' /\ EntryForEach(b)'
<1>1. /\ IsFiniteSet(Holding(b)) /\ Cardinality(Holding(b)) \in Nat
      /\ enriched[b] \in Nat /\ enriched[b] >= Cardinality(Holding(b))
  BY HoldingIsFinite DEF SharedTypes, EntryForEach
<1>2. published' = published
  BY DEF EngineActions, EngineBegin, EngineAgain, EngineDrops, EngineHandsOn, EngineMarks, EngineAcks,
     EngineFails, EngineCrash, EngineMarkExpires
<1>0. \A e \in Engines : engine[e].entry \in {"there", "gone"}
  BY DEF EngineTypes
<1>3. Handled(b) => Handled(b)'
  BY HandledStays
<1>14. ASSUME NEW e \in Engines, AtGate(e, b)
       PROVE  AtGate(e, b)' \/ Handled(b)' \/ enriched'[b] > 0
  BY <1>14, GateStep
<1>4. ASSUME enriched'[b] = enriched[b] PROVE PublishedIsHeld(b)'
  BY <1>2, <1>3, <1>4, <1>14 DEF PublishedIsHeld
<1>5. ASSUME enriched'[b] = enriched[b], Holding(b)' = Holding(b)
      PROVE  PublishedIsHeld(b)' /\ EntryForEach(b)'
  BY <1>1, <1>4, <1>5 DEF EntryForEach
<1>6. ASSUME NEW e \in Engines, Holding(b)' = Holding(b) \ {e}, enriched' = enriched
      PROVE  PublishedIsHeld(b)' /\ EntryForEach(b)'
  <2>1. CASE e \in Holding(b)
    <3>1. Cardinality(Holding(b)') = Cardinality(Holding(b)) - 1
      BY <1>6, <2>1, HoldingIsFinite
    <3> QED
      BY <1>1, <1>4, <1>6, <3>1 DEF EntryForEach
  <2>2. CASE e \notin Holding(b)
    <3>1. Holding(b)' = Holding(b)
      BY <1>6, <2>2
    <3> QED
      BY <1>5, <1>6, <3>1
  <2> QED
    BY <2>1, <2>2
<1>7. ASSUME NEW e \in Engines, engine' = [engine EXCEPT ![e] = IdleEngine]
      PROVE  Holding(b)' = Holding(b) \ {e}
  <2>1. engine'[e].address = {} /\ \A g \in Engines \ {e} : engine'[g] = engine[g]
    BY <1>7 DEF EngineTypes, IdleEngine
  <2> QED
    BY <2>1 DEF InEngine, Holding
<1>8. ASSUME NEW e \in Engines, NEW a \in Addresses, EngineBegin(e, a), engineMark[a] = "none"
      PROVE  PublishedIsHeld(b)' /\ EntryForEach(b)'
  <2>1. /\ engine' = [engine EXCEPT ![e] = [pc |-> "gate", address |-> {a}, entry |-> "there"]]
        /\ enriched' = enriched
    BY <1>8 DEF EngineBegin
  <2>2. /\ engine'[e].address = {a} /\ engine'[e].entry = "there"
        /\ \A g \in Engines \ {e} : engine'[g] = engine[g]
    BY <2>1 DEF EngineTypes, IdleEngine
  <2>3. engine[e].address = {} /\ e \notin Holding(b)
    BY <1>8 DEF EngineBegin, EngineInv, HasAddress, InEngine, Holding
  <2>4. CASE a = b
    <3>1. Holding(b)' = Holding(b) \cup {e}
      BY <2>2, <2>4 DEF InEngine, Holding
    <3>2. Cardinality(Holding(b)') = Cardinality(Holding(b)) + 1
      BY <2>3, <3>1, HoldingIsFinite
    <3>3. enriched[b] > Cardinality(Holding(b))
      BY <1>8, <2>4 DEF EngineBegin
    <3> QED
      BY <1>1, <1>4, <2>1, <3>2, <3>3 DEF EntryForEach
  <2>5. CASE a # b
    <3>1. Holding(b)' = Holding(b)
      BY <2>2, <2>3, <2>5 DEF InEngine, Holding
    <3> QED
      BY <1>5, <2>1, <3>1
  <2> QED
    BY <2>4, <2>5
<1>9. ASSUME NEW e \in Engines, NEW a \in Addresses, EngineBegin(e, a), engineMark[a] # "none"
      PROVE  PublishedIsHeld(b)' /\ EntryForEach(b)'
  <2>1. /\ enriched' = [enriched EXCEPT ![a] = @ - 1] /\ engine' = engine
        /\ lapsed' = IF engineMark[a] = "left" THEN lapsed \cup {a} ELSE lapsed
        /\ enriched[a] > Cardinality(Holding(a))
    BY <1>9 DEF EngineBegin, AckEnriched
  <2>2. Holding(b)' = Holding(b)
    BY <2>1 DEF InEngine, Holding
  <2>3. CASE a # b
    BY <1>5, <2>1, <2>2, <2>3 DEF SharedTypes
  <2>4. CASE a = b
    <3>1. enriched'[b] = enriched[b] - 1
      BY <2>1, <2>4 DEF SharedTypes
    <3>2. EntryForEach(b)'
      BY <1>1, <2>1, <2>2, <2>4, <3>1 DEF EntryForEach
    <3>3. CASE engineMark[b] = "left"
      BY <2>1, <2>4, <3>2, <3>3 DEF PublishedIsHeld, Handled
    <3>4. CASE engineMark[b] = "done"
      BY <1>3, <3>2, <3>4 DEF PublishedIsHeld, EngineInv, DoneIsHandled
    <3>5. CASE engineMark[b] = "held"
      <4>1. PICK g \in Engines : AtWork(g, b)
        BY <3>5 DEF EngineInv, HeldIsAtWork
      <4>2. AtGate(g, b)' \/ Handled(b)
        BY <2>1, <4>1 DEF AtWork, AtGate, EngineInv, StageIsTrue, Handled
      <4> QED
        BY <1>3, <3>2, <4>2 DEF PublishedIsHeld
    <3> QED
      BY <1>9, <2>4, <3>3, <3>4, <3>5 DEF EngineTypes
  <2> QED
    BY <2>3, <2>4
<1>10. ASSUME NEW e \in Engines, EngineDrops(e) \/ EngineHandsOn(e) \/ EngineMarks(e)
       PROVE  PublishedIsHeld(b)' /\ EntryForEach(b)'
  <2>1. /\ enriched' = enriched
        /\ \A g \in Engines : engine'[g].address = engine[g].address /\ engine'[g].entry = engine[g].entry
    BY <1>10 DEF EngineDrops, EngineHandsOn, EngineMarks, EngineTypes
  <2>2. Holding(b)' = Holding(b)
    BY <2>1 DEF InEngine, Holding
  <2> QED
    BY <1>5, <2>1, <2>2
\* The entry of a message is acknowledged, by itself or by a duplicate of it.
<1>15. ASSUME NEW e \in Engines, NEW a \in engine[e].address, AckEnriched(a), engine[e].entry = "there",
              \A c : Holding(c)' = Holding(c) \ {e}, Handled(b)' \/ e \notin InEngine(b) \/ AtGate(e, b)'
       PROVE  PublishedIsHeld(b)' /\ EntryForEach(b)'
  <2>2. a \in Addresses /\ engine[e].address = {a}
    BY <1>15 DEF EngineInv, HasAddress
  <2>3. enriched' = [enriched EXCEPT ![a] = @ - 1]
    BY <1>15 DEF AckEnriched
  <2>4. Holding(b)' = Holding(b) \ {e}
    BY <1>15
  <2>5. CASE a # b
    <3>1. Holding(b)' = Holding(b)
      BY <2>2, <2>4, <2>5 DEF InEngine, Holding
    <3>2. enriched'[b] = enriched[b]
      BY <2>3, <2>5 DEF SharedTypes
    <3> QED
      BY <1>5, <3>1, <3>2
  <2>6. CASE a = b
    <3>1. e \in Holding(b) /\ e \in InEngine(b)
      BY <1>15, <2>2, <2>6 DEF InEngine, Holding
    <3>2. Cardinality(Holding(b)') = Cardinality(Holding(b)) - 1
      BY <2>4, <3>1, HoldingIsFinite
    <3>3. enriched'[b] = enriched[b] - 1
      BY <2>3, <2>6 DEF SharedTypes
    <3>4. EntryForEach(b)'
      BY <1>1, <3>2, <3>3 DEF EntryForEach
    <3> QED
      BY <1>15, <3>1, <3>4 DEF PublishedIsHeld
  <2> QED
    BY <2>5, <2>6
<1>11. ASSUME NEW e \in Engines, EngineAcks(e) PROVE PublishedIsHeld(b)' /\ EntryForEach(b)'
  <2>1. engine' = [engine EXCEPT ![e] = IdleEngine] /\ engine[e].pc = "ack"
    BY <1>11 DEF EngineAcks
  <2>2. CASE engine[e].entry = "gone"
    <3>1. enriched' = enriched
      BY <1>11, <2>2 DEF EngineAcks
    <3> QED
      BY <1>6, <1>7, <2>1, <3>1
  <2>3. CASE engine[e].entry = "there"
    <3>1. PICK a \in engine[e].address : AckEnriched(a)
      BY <1>11, <2>3 DEF EngineAcks
    <3>2. \A c : Holding(c)' = Holding(c) \ {e}
      BY <2>1 DEF EngineTypes, IdleEngine, InEngine, Holding
    <3>3. e \in InEngine(b) => Handled(b)
      BY <2>1 DEF InEngine, EngineInv, StageIsTrue
    <3> QED
      BY <1>3, <1>15, <2>3, <3>1, <3>2, <3>3
  <2> QED
    BY <1>0, <2>2, <2>3
<1>16. ASSUME NEW e \in Engines, EngineAgain(e) PROVE PublishedIsHeld(b)' /\ EntryForEach(b)'
  <2>1. PICK a \in engine[e].address : AckEnriched(a)
    BY <1>16 DEF EngineAgain
  <2>2. engine' = [engine EXCEPT ![e].entry = "gone"] /\ engine[e].entry = "there"
    BY <1>16 DEF EngineAgain
  <2>3. /\ engine'[e].entry = "gone" /\ engine'[e].address = engine[e].address /\ engine'[e].pc = engine[e].pc
        /\ \A g \in Engines \ {e} : engine'[g] = engine[g]
    BY <2>2 DEF EngineTypes
  <2>4. \A c : Holding(c)' = Holding(c) \ {e}
    BY <2>3 DEF InEngine, Holding
  <2>5. e \in InEngine(b) => AtGate(e, b)' \/ Handled(b)
    <3>1. e \in InEngine(b) => engine[e].pc \in {"gate", "dropped", "handed", "ack"}
      BY DEF InEngine, EngineTypes, EngineInv, HasAddress
    <3> QED
      BY <2>3, <3>1 DEF InEngine, AtGate, EngineInv, StageIsTrue, Handled
  <2> QED
    BY <1>3, <1>15, <2>1, <2>2, <2>4, <2>5
<1>12. ASSUME NEW e \in Engines, EngineFails(e) \/ EngineCrash(e)
       PROVE  PublishedIsHeld(b)' /\ EntryForEach(b)'
  <2>1. enriched' = enriched /\ engine' = [engine EXCEPT ![e] = IdleEngine]
    BY <1>12 DEF EngineFails, EngineCrash
  <2> QED
    BY <1>6, <1>7, <2>1
<1>13. ASSUME NEW a \in Addresses, EngineMarkExpires(a)
       PROVE  PublishedIsHeld(b)' /\ EntryForEach(b)'
  <2>1. enriched' = enriched /\ engine' = engine
    BY <1>13 DEF EngineMarkExpires
  <2>2. Holding(b)' = Holding(b)
    BY <2>1 DEF InEngine, Holding
  <2> QED
    BY <1>5, <2>1, <2>2
<1> QED
  BY <1>8, <1>9, <1>10, <1>11, <1>12, <1>13, <1>16 DEF EngineActions

LEMMA EngineStep ==
    ASSUME EngineTypes, SharedTypes, EngineInv, EntryInv, EngineActions
    PROVE  EngineTypes' /\ SharedTypes' /\ EngineInv' /\ EntryInv'
<1>1. EngineTypes' /\ SharedTypes'
  BY EngineTypesStep
<1>2. ASSUME NEW f \in Engines PROVE HasAddress(f)'
  BY AddressStep DEF EngineInv
<1>3. ASSUME NEW f \in Engines, NEW b \in Addresses
      PROVE  WorksAlone(f, b)' /\ AckIsMarked(f, b)' /\ StageIsTrue(f, b)'
  BY AloneStep, AckStep, StageStep DEF EngineInv
<1>4. ASSUME NEW b \in Addresses
      PROVE  HeldIsAtWork(b)' /\ DoneIsHandled(b)' /\ HandedIsKnown(b)'
  BY HeldStep, DoneStep, HandedStep DEF EngineInv
<1>5. ASSUME NEW b \in Addresses PROVE PublishedIsHeld(b)' /\ EntryForEach(b)'
  BY EntryStep DEF EntryInv
<1> QED
  BY <1>1, <1>2, <1>3, <1>4, <1>5 DEF EngineInv, EntryInv

-----------------------------------------------------------------------------
LEMMA FanoutInvNext == FanoutInv /\ [FanoutNext]_fanoutVars => FanoutInv'
<1> SUFFICES ASSUME FanoutInv, [FanoutNext]_fanoutVars PROVE FanoutInv'
  OBVIOUS
<1>1. FanTypes /\ SharedTypes /\ EngineTypes /\ FanInv /\ EngineInv /\ EntryInv
  BY Types DEF FanoutInv
<1>2. (FanTypes /\ SharedTypes /\ EngineTypes)' => FanoutTypeOK'
  BY DEF FanoutTypeOK, FanTypes, SharedTypes, EngineTypes
<1>3. CASE FanActions
  <2>1. FanTypes' /\ SharedTypes' /\ FanInv'
    BY <1>1, <1>3, FanStep
  <2>2. EngineInv' /\ EntryInv'
    BY <1>1, <1>3, FanKeepsEngine
  <2>3. UNCHANGED engVars
    BY <1>3 DEF FanActions, FanBegin, FanTooMany, FanLoad, FanLoadFails, FanMarkFails,
       FlushBuffer, FlushFails, FanEnd, FanAck, FanCrash, FanMarkExpires
  <2>4. EngineTypes'
    BY <1>1, <2>3 DEF EngineTypes, engVars
  <2> QED
    BY <1>2, <2>1, <2>2, <2>4 DEF FanoutInv
<1>4. CASE EngineActions
  <2>1. EngineTypes' /\ SharedTypes' /\ EngineInv' /\ EntryInv'
    BY <1>1, <1>4, EngineStep
  <2>2. FanInv'
    BY <1>1, <1>4, EngineKeepsFan
  <2>3. UNCHANGED <<oversized, fanVars, published>>
    BY <1>4 DEF EngineActions, EngineBegin, EngineAgain, EngineDrops, EngineHandsOn, EngineMarks,
       EngineAcks, EngineFails, EngineCrash, EngineMarkExpires, fanVars
  <2>4. FanTypes'
    BY <1>1, <2>3 DEF FanTypes, fanVars
  <2> QED
    BY <1>2, <2>1, <2>2, <2>4 DEF FanoutInv
<1>5. CASE UNCHANGED fanoutVars
  <2>1. FanTypes' /\ SharedTypes' /\ EngineTypes' /\ FanInv'
    BY <1>1, <1>5 DEF fanoutVars, fanVars, engVars, FanTypes, SharedTypes, EngineTypes, FanInv,
       FanIsMarked, AllFannedOut, LoadedIsKnown, LeftIsReached
  <2>2. EngineInv'
    <3>1. UNCHANGED engVars /\ UNCHANGED lapsed
      BY <1>5 DEF fanoutVars
    <3>2. \A e \in Engines : HasAddress(e)'
      BY <1>1, <3>1 DEF engVars, EngineInv, HasAddress
    <3>3. \A e \in Engines, a \in Addresses :
             WorksAlone(e, a)' /\ AckIsMarked(e, a)' /\ StageIsTrue(e, a)'
      BY <1>1, <3>1 DEF engVars, EngineInv, WorksAlone, AtWork, AckIsMarked, StageIsTrue,
         Handled
    <3>4. \A a \in Addresses : HeldIsAtWork(a)' /\ DoneIsHandled(a)'
      BY <1>1, <3>1 DEF engVars, EngineInv, HeldIsAtWork, AtWork, DoneIsHandled, Handled
    <3>5. \A a \in Addresses : HandedIsKnown(a)'
      BY <1>1, <3>1 DEF engVars, EngineInv, HandedIsKnown
    <3> QED
      BY <3>2, <3>3, <3>4, <3>5 DEF EngineInv
  <2>3. EntryInv'
    BY <1>1, <1>5 DEF fanoutVars, fanVars, engVars, EntryInv, PublishedIsHeld, EntryForEach,
       InEngine, Holding, AtGate, Handled
  <2> QED
    BY <1>2, <2>1, <2>2, <2>3 DEF FanoutInv
<1> QED
  BY <1>3, <1>4, <1>5 DEF FanoutNext, FanActions, EngineActions

LEMMA FanoutInvHolds == FanoutSpec => []FanoutInv
BY FanoutInvInit, FanoutInvNext, PTL DEF FanoutSpec

-----------------------------------------------------------------------------
\* The state keeps its types: no acknowledgement of an entry that is not there,
\* whatever runs, flushes and engine messages meet (ackMessage of both workers).
THEOREM FanoutTyped == FanoutSpec => []FanoutTypeOK
<1>1. FanoutInv => FanoutTypeOK
  BY DEF FanoutInv
<1> QED
  BY <1>1, FanoutInvHolds, PTL

\* However the enricher's runs are repeated, its flushes fail and the engine's
\* messages cross, a request that is marked has an event for every address, none
\* leaves both workers without a task or a reason, and none is handed on twice
\* unless the first could not be recorded (checkAndMark, markProcessed and the
\* catch blocks of enricher/main.ts and engine/main.ts).
THEOREM EveryoneReachedOnce == FanoutSpec => []EveryAddressOnce
<1>1. ASSUME FanoutInv PROVE EveryAddressOnce
  <2>1. AllFannedOut
    BY <1>1 DEF FanoutInv, FanInv
  <2>2. NoneForgottenOnTheWay
    <3>1. SUFFICES ASSUME FannedOut, NEW a \in Addresses PROVE Handled(a)
      BY DEF NoneForgottenOnTheWay, Handled
    <3>2. a \in published \/ a \in lapsed
      BY <1>1, <3>1 DEF FanoutInv, FanInv, LeftIsReached, FannedOut
    <3>3. a \in published => Handled(a)
      BY <1>1, <3>1 DEF FanoutInv, EntryInv, PublishedIsHeld, FannedOut, AtGate
    <3> QED
      BY <3>2, <3>3 DEF Handled
  <2>3. HandedOnOnce
    BY <1>1 DEF FanoutInv, EngineInv, HandedIsKnown, HandedOnOnce
  <2> QED
    BY <2>1, <2>2, <2>3 DEF EveryAddressOnce
<1> QED
  BY <1>1, FanoutInvHolds, PTL

(***************************************************************************)
(* Quiet hours.                                                            *)
(***************************************************************************)

\* A set of naturals has a least element.
LEMMA LeastNat ==
    ASSUME NEW T \in SUBSET Nat, T # {} PROVE \E m \in T : \A n \in T : m <= n
<1> DEFINE R == {ss \in Nat \X Nat : ss[1] < ss[2]}
<1>1. \A m, n \in Nat : n < m => <<n, m>> \in R
  OBVIOUS
<1>2. IsWellFoundedOn(R, Nat)
  <2>1. OpToRel(<, Nat) = R
    BY DEF OpToRel
  <2>2. QED  BY <2>1, NatLessThanWellFounded
<1> HIDE DEF R
<1>3. PICK m \in T : \A n \in T : ~ (<<n, m>> \in R)
  BY <1>2, WFMin
<1>4. \A n \in T : ~(n < m)
  BY <1>1, <1>3
<1>5. \A n \in T : n \in Nat /\ m \in Nat
  OBVIOUS
<1>6. QED  BY <1>4, <1>5

\* Within the hour the clocks skip or repeat.
NearChange(t) == t - ClockChange \in -Jump .. Jump - 1

QuietWall(v) == \E i \in DOMAIN windows : InWindow(windows[i], v % DayLength)

\* From t a link of the chain leads to the end of the i-th window, d slots of the
\* wall clock later. Just before the clocks skip an hour it may stop short of it.
LinkTo(t, i, d) ==
    /\ (Local(t) + d) % DayLength = windows[i].to
    /\ \A v \in Local(t) .. Local(t) + d - 1 : QuietWall(v)
    /\ \/ NextActive(t) = t + d
       \/ /\ t < ClockChange
          /\ NextActive(t) < ClockChange => /\ NextActive(t) = t + d - shift
                                            /\ shift > 0 /\ t + d >= ClockChange

QuietTyped ==
    /\ windows \in UNION {[1..n -> [from : Slots, to : Slots]] : n \in 0..MaxWindows}
    /\ zone \in Int /\ shift \in Int /\ sendAt \in Int /\ candidate \in Int
    /\ shift <= DayLength
    /\ turn \in 0..MaxChain

\* All the time the send was held so far is quiet.
QuietSoFar ==
    /\ stage = "asked" => candidate = sendAt /\ turn = 0
    /\ stage \in {"chain", "held"} => \A t \in sendAt .. candidate - 1 : Quiet(t) \/ NearChange(t)
    /\ stage \in {"out", "held"} => ~Quiet(candidate) \/ turn = MaxChain

QuietInv == QuietTyped /\ QuietSoFar

LEMMA ModFacts ==
    ASSUME NEW n \in Int, NEW d \in Nat \ {0}
    PROVE  n \div d \in Int /\ n % d \in 0..(d - 1) /\ n = d * (n \div d) + (n % d)
  OBVIOUS

LEMMA RemainderIs ==
    ASSUME NEW d \in Nat \ {0}, NEW q \in Int, NEW s \in 0..(d - 1), NEW n \in Int, n = d * q + s
    PROVE  n % d = s
<1> DEFINE p == n \div d
           r == n % d
<1>1. p \in Int /\ r \in 0..(d - 1) /\ n = d * p + r
  BY ModFacts
<1> HIDE DEF p, r
<1>2. d * p \in Int /\ d * q \in Int
  BY <1>1
<1>3. ASSUME p >= q + 1 PROVE FALSE
  <2>1. d * p >= d * (q + 1)
    BY <1>1, <1>3
  <2>2. d * (q + 1) = d * q + d
    OBVIOUS
  <2>3. QED  BY <1>1, <1>2, <2>1, <2>2
<1>4. ASSUME q >= p + 1 PROVE FALSE
  <2>1. d * q >= d * (p + 1)
    BY <1>1, <1>4
  <2>2. d * (p + 1) = d * p + d
    BY <1>1
  <2>3. QED  BY <1>1, <1>2, <2>1, <2>2
<1>5. p = q
  BY <1>1, <1>3, <1>4
<1>6. QED  BY <1>1, <1>2, <1>5 DEF r

\* The slot some slots later, less than a day.
LEMMA SlotLater ==
    ASSUME NEW d \in Nat \ {0}, NEW n \in Int, NEW i \in 0..(d - 1)
    PROVE  (n + i) % d = IF (n % d) + i < d THEN (n % d) + i ELSE (n % d) + i - d
<1> DEFINE q == n \div d
           r == n % d
<1>1. q \in Int /\ r \in 0..(d - 1) /\ n = d * q + r
  BY ModFacts
<1> HIDE DEF q, r
<1>2. d * q \in Int /\ d * (q + 1) = d * q + d /\ n + i \in Int
  BY <1>1
<1>3. CASE r + i < d
  <2>1. PICK s \in 0..(d - 1), m \in Int : s = r + i /\ m = n + i /\ m = d * q + s
    BY <1>1, <1>2, <1>3
  <2>2. m % d = s
    BY <1>1, <2>1, RemainderIs
  <2>3. QED  BY <1>1, <1>3, <2>1, <2>2 DEF r
<1>4. CASE r + i >= d
  <2>1. PICK s \in 0..(d - 1), m \in Int, p \in Int :
             s = r + i - d /\ m = n + i /\ p = q + 1 /\ m = d * p + s
    BY <1>1, <1>2, <1>4
  <2>2. m = d * p + s
    BY <2>1
  <2>3. m % d = s
    BY <2>2, RemainderIs
  <2>4. QED  BY <1>1, <1>4, <2>1, <2>3 DEF r
<1>5. QED  BY <1>1, <1>3, <1>4

\* From a slot of a window to its end, every slot is in the window.
LEMMA InWindowToEnd ==
    ASSUME NEW w \in [from : Slots, to : Slots], NEW n \in Int, InWindow(w, n % DayLength)
    PROVE  LET s == n % DayLength
               d == w.to - s + (IF s >= w.to THEN DayLength ELSE 0)
           IN  /\ d \in 1..DayLength
               /\ \A i \in 0..(d - 1) : InWindow(w, (n + i) % DayLength)
<1> DEFINE s == n % DayLength
           d == w.to - s + (IF s >= w.to THEN DayLength ELSE 0)
<1>1. DayLength \in Nat \ {0}
  BY QuietAssumption
<1>2. s \in 0..(DayLength - 1) /\ w.from \in 0..(DayLength - 1) /\ w.to \in 0..(DayLength - 1)
  BY <1>1, ModFacts DEF Slots
<1> HIDE DEF s
<1>3. d \in 1..DayLength
  BY <1>1, <1>2
<1>4. InWindow(w, s)
  BY DEF s
<1>5. ASSUME NEW i \in 0..(d - 1) PROVE InWindow(w, (n + i) % DayLength)
  <2>1. i \in 0..(DayLength - 1)
    BY <1>1, <1>3
  <2>2. (n + i) % DayLength = IF s + i < DayLength THEN s + i ELSE s + i - DayLength
    BY <1>1, <2>1, SlotLater DEF s
  <2>3. QED  BY <1>1, <1>2, <1>4, <2>1, <2>2 DEF InWindow
<1>6. QED  BY <1>3, <1>5 DEF s

LEMMA FirstWindowIs ==
    ASSUME QuietTyped, NEW t, Quiet(t)
    PROVE  /\ FirstWindow(t) \in [from : Slots, to : Slots]
           /\ \E i \in DOMAIN windows : FirstWindow(t) = windows[i]
           /\ InWindow(FirstWindow(t), SlotOf(t))
<1> DEFINE T == {i \in DOMAIN windows : InWindow(windows[i], SlotOf(t))}
<1>1. PICK n \in 0..MaxWindows : windows \in [1..n -> [from : Slots, to : Slots]]
  BY DEF QuietTyped
<1>2. DOMAIN windows = 1..n /\ T \subseteq Nat /\ T # {}
  BY <1>1 DEF Quiet
<1>3. PICK m \in T : \A i \in T : m <= i
  <2> HIDE DEF T
  <2>1. QED  BY <1>2, LeastNat
<1>4. \A j \in 1 .. m - 1 : ~InWindow(windows[j], SlotOf(t))
  <2> SUFFICES ASSUME NEW j \in 1 .. m - 1, InWindow(windows[j], SlotOf(t)) PROVE FALSE
    OBVIOUS
  <2>1. m \in 1..n
    BY <1>2
  <2>2. j \in 1..n /\ j < m
    BY <1>1, <2>1
  <2>3. j \in T
    BY <1>2, <2>2
  <2>4. m <= j
    BY <1>3, <2>3
  <2>5. QED  BY <2>1, <2>2, <2>4
<1> DEFINE First(i) == /\ InWindow(windows[i], SlotOf(t))
                       /\ \A j \in 1 .. i - 1 : ~InWindow(windows[j], SlotOf(t))
<1>5. First(m) /\ m \in DOMAIN windows
  BY <1>2, <1>4
<1>6. PICK i \in DOMAIN windows : First(i) /\ FirstWindow(t) = windows[i]
  <2>1. FirstWindow(t) = windows[CHOOSE i \in DOMAIN windows : First(i)]
    BY DEF FirstWindow
  <2> HIDE DEF First
  <2>2. QED  BY <1>5, <2>1
<1>7. QED  BY <1>1, <1>2, <1>6

LEMMA OffsetIs ==
    ASSUME QuietTyped
    PROVE  /\ \A t \in Int : Offset(t) = (IF t >= ClockChange THEN zone + shift ELSE zone)
           /\ \A t \in Int : Offset(t) \in Int /\ Local(t) \in Int /\ Local(t) = t + Offset(t)
<1>1. zone \in Int /\ shift \in Int /\ ClockChange \in Int
  BY QuietAssumption DEF QuietTyped
<1>2. \A t \in Int : Offset(t) = (IF t >= ClockChange THEN zone + shift ELSE zone)
  BY <1>1 DEF Offset
<1>3. \A t \in Int : Offset(t) \in Int
  BY <1>1, <1>2
<1>4. QED  BY <1>2, <1>3 DEF Local

\* localTimeToUtc gives a time by one of the two offsets: the one in force at its
\* last guess, which is taken by one of them too.
LEMMA ToUtcIs ==
    ASSUME QuietTyped, NEW wall \in Int
    PROVE  \E g \in Int : /\ g = wall - zone \/ g = wall - zone - shift
                          /\ ToUtc(wall) = wall - Offset(g)
<1>1. zone \in Int /\ shift \in Int
  BY DEF QuietTyped
<1>2. \A g \in Int : Correct(g, wall) = wall - Offset(g) /\ Correct(g, wall) \in Int
                    /\ Correct(g, wall) \in {wall - zone, wall - zone - shift}
  BY <1>1, OffsetIs DEF Correct
<1>3. PICK a \in Int : a = Correct(wall, wall)
  BY <1>2
<1>4. PICK b \in Int : b = Correct(a, wall) /\ b \in {wall - zone, wall - zone - shift}
  BY <1>2
<1>5. ToUtc(wall) = Correct(b, wall)
  BY <1>3, <1>4 DEF ToUtc
<1>6. QED  BY <1>2, <1>4, <1>5

\* One link of the chain: it ends later, and all the time to it is quiet.
LEMMA LinkIsQuiet ==
    ASSUME QuietTyped, NEW c \in Int, Quiet(c)
    PROVE  /\ NextActive(c) \in Int /\ NextActive(c) > c
           /\ \A t \in c .. NextActive(c) - 1 : Quiet(t) \/ NearChange(t)
           /\ \E i \in DOMAIN windows, d \in 1..DayLength : LinkTo(c, i, d)
<1>1. PICK w \in [from : Slots, to : Slots] :
         /\ w = FirstWindow(c) /\ InWindow(w, SlotOf(c)) /\ \E i \in DOMAIN windows : w = windows[i]
  BY FirstWindowIs
<1> DEFINE n == Local(c)
           s == n % DayLength
           d == w.to - s + (IF s >= w.to THEN DayLength ELSE 0)
<1>2. n \in Int /\ n = c + Offset(c) /\ zone \in Int /\ shift \in Int /\ ClockChange \in Int
      /\ DayLength \in Nat \ {0}
  BY OffsetIs, QuietAssumption DEF QuietTyped
<1>3. d \in 1..DayLength /\ \A i \in 0..(d - 1) : InWindow(w, (n + i) % DayLength)
  <2>1. InWindow(w, n % DayLength)
    BY <1>1 DEF SlotOf
  <2> HIDE DEF n
  <2>2. QED  BY <1>2, <2>1, InWindowToEnd
<1>4. s \in 0..(DayLength - 1) /\ w.to \in Int
  <2>1. w.to \in Slots /\ \A i \in Slots : i \in Int
    BY <1>2 DEF Slots
  <2> HIDE DEF n
  <2>2. QED  BY <1>2, <2>1, ModFacts
<1>5. EndOfFirst(c, w) = n + d
  <2>1. EndOfFirst(c, w) = (n - s) + w.to + IF s >= w.to THEN DayLength ELSE 0
    BY DEF EndOfFirst, DayStart, SlotOf
  <2> HIDE DEF n, s
  <2>2. QED  BY <1>2, <1>4, <2>1
<1>6. \A t \in Int : Local(t) >= n /\ Local(t) < n + d => Quiet(t)
  <2> SUFFICES ASSUME NEW t \in Int, Local(t) >= n, Local(t) < n + d PROVE Quiet(t)
    OBVIOUS
  <2>1. PICK i \in 0..(d - 1) : Local(t) = n + i
    <3>1. Local(t) \in Int /\ n \in Int /\ d \in Int
      BY <1>2, <1>3, OffsetIs
    <3> HIDE DEF n, d
    <3>2. Local(t) - n \in 0..(d - 1) /\ Local(t) = n + (Local(t) - n)
      BY <3>1
    <3>3. QED  BY <3>2
  <2>2. InWindow(w, SlotOf(t))
    BY <1>3, <2>1 DEF SlotOf
  <2>3. QED  BY <1>1, <2>2 DEF Quiet
<1>long. d \in Int /\ d \in 1..DayLength
  BY <1>2, <1>3
<1>ends. (n + d) % DayLength = w.to
  <2>1. w.to \in 0..(DayLength - 1)
    BY <1>2 DEF Slots
  <2>2. PICK q \in Int : n = DayLength * q + s
    <3> HIDE DEF n
    <3>1. QED  BY <1>2, ModFacts
  <2> HIDE DEF n, s
  <2>3. CASE s >= w.to
    <3>1. PICK m \in Int, p \in Int, r \in 0..(DayLength - 1) :
             m = n + d /\ p = q + 1 /\ r = w.to /\ m = DayLength * p + r
      <4>1. DayLength * (q + 1) = DayLength * q + DayLength
        BY <1>2
      <4>2. DayLength * q \in Int
        BY <1>2
      <4>3. n + d \in Int /\ n + d = DayLength * (q + 1) + w.to
        BY <1>2, <1>4, <2>1, <2>2, <2>3, <4>1, <4>2
      <4>4. QED  BY <2>1, <4>3
    <3>2. m % DayLength = r
      <4>1. m = DayLength * p + r /\ DayLength \in Nat \ {0}
        BY <1>2, <3>1
      <4>2. QED  BY <4>1, RemainderIs
    <3>3. QED  BY <3>1, <3>2
  <2>4. CASE ~(s >= w.to)
    <3>1. PICK m \in Int, r \in 0..(DayLength - 1) :
             m = n + d /\ r = w.to /\ m = DayLength * q + r
      <4>2. DayLength * q \in Int
        BY <1>2
      <4>3. n + d \in Int /\ n + d = DayLength * q + w.to
        BY <1>2, <1>4, <2>1, <2>2, <2>4, <4>2
      <4>4. QED  BY <2>1, <4>3
    <3>2. m % DayLength = r
      <4>1. m = DayLength * q + r /\ DayLength \in Nat \ {0}
        BY <1>2, <3>1
      <4>2. QED  BY <4>1, RemainderIs
    <3>3. QED  BY <3>1, <3>2
  <2>5. QED  BY <2>3, <2>4
<1>quiet. \A v \in n .. n + d - 1 : QuietWall(v)
  <2> SUFFICES ASSUME NEW v \in n .. n + d - 1 PROVE QuietWall(v)
    OBVIOUS
  <2>1. PICK i \in 0..(d - 1) : v = n + i
    <3> HIDE DEF n, d
    <3>1. v - n \in 0..(d - 1) /\ v = n + (v - n)
      BY <1>2, <1>long
    <3>2. QED  BY <3>1
  <2>2. InWindow(w, v % DayLength)
    BY <1>3, <2>1
  <2>3. QED  BY <1>1, <2>2 DEF QuietWall
<1> HIDE DEF n, s, d
<1>7. PICK z \in Int, h \in Int, k \in Int : z = zone /\ h = shift /\ k = ClockChange
  BY <1>2
<1>8. PICK o \in Int : o = Offset(c) /\ o = (IF c >= k THEN z + h ELSE z) /\ n = c + o
  BY <1>2, <1>7, OffsetIs
<1>9. PICK g \in Int, e \in Int :
         /\ g = n + d - z \/ g = n + d - z - h
         /\ e = n + d - (IF g >= k THEN z + h ELSE z)
         /\ EndAt(c, w) = e
  <2>1. PICK wall \in Int : wall = n + d
    BY <1>2, <1>3
  <2>2. PICK g \in Int : /\ g = wall - zone \/ g = wall - zone - shift
                         /\ ToUtc(wall) = wall - Offset(g)
    BY ToUtcIs
  <2>3. g = n + d - z \/ g = n + d - z - h
    BY <1>2, <1>long, <1>7, <2>1, <2>2
  <2>4. Offset(g) = (IF g >= k THEN z + h ELSE z)
    BY <1>7, OffsetIs
  <2>5. wall - (IF g >= k THEN z + h ELSE z) \in Int
    <3>1. CASE g >= k
      BY <3>1
    <3>2. CASE ~(g >= k)
      BY <3>2
    <3>3. QED  BY <3>1, <3>2
  <2>6. PICK e \in Int : e = wall - (IF g >= k THEN z + h ELSE z)
    BY <2>5
  <2>7. EndAt(c, w) = e
    <3>1. EndAt(c, w) = ToUtc(wall)
      BY <1>5, <2>1 DEF EndAt
    <3>2. QED  BY <2>2, <2>4, <2>6, <3>1
  <2>8. e = n + d - (IF g >= k THEN z + h ELSE z)
    BY <1>2, <1>long, <1>7, <2>1, <2>6
  <2>9. QED  BY <2>3, <2>7, <2>8
<1>10. PICK end \in Int : end = NextActive(c) /\ end = (IF e <= c THEN n + d - o ELSE e)
  <2>1. NextActive(c) = IF e <= c THEN EndOfFirst(c, w) - Offset(c) ELSE e
    BY <1>1, <1>9 DEF NextActive, End
  <2>2. EndOfFirst(c, w) - Offset(c) = n + d - o
    BY <1>2, <1>long, <1>5, <1>8
  <2>3. n + d - o \in Int
    <3>1. d \in Int
      BY <1>2, <1>3
    <3>2. QED  BY <1>2, <3>1
  <2>4. PICK end \in Int : end = (IF e <= c THEN n + d - o ELSE e)
    <3>1. CASE e <= c
      BY <2>3, <3>1
    <3>2. CASE ~(e <= c)
      BY <3>2
    <3>3. QED  BY <3>1, <3>2
  <2>5. end = NextActive(c)
    BY <2>1, <2>2, <2>4
  <2>6. QED  BY <2>4, <2>5
<1>11. end > c
  BY <1>2, <1>3, <1>8, <1>9, <1>10
<1>12. ASSUME NEW t \in c .. end - 1 PROVE Quiet(t) \/ NearChange(t)
  <2>1. t \in Int /\ t >= c /\ t < end
    BY <1>10
  <2>2. Local(t) = t + (IF t >= k THEN z + h ELSE z)
    BY <1>7, <2>1, OffsetIs
  <2>3. NearChange(t) <=> t - k >= -(IF h < 0 THEN -h ELSE h) /\ t - k < (IF h < 0 THEN -h ELSE h)
    BY <1>7, <2>1 DEF NearChange, Jump
  <2>4. \/ Local(t) >= n /\ Local(t) < n + d
        \/ t - k >= -(IF h < 0 THEN -h ELSE h) /\ t - k < (IF h < 0 THEN -h ELSE h)
    <3>1. d \in Int /\ d >= 1
      BY <1>2, <1>3
    <3>2. CASE c >= k
      BY <1>2, <1>8, <1>9, <1>10, <2>1, <2>2, <3>1, <3>2
    <3>3. CASE c < k /\ t < k
      BY <1>2, <1>8, <1>9, <1>10, <2>1, <2>2, <3>1, <3>3
    <3>4. CASE c < k /\ t >= k
      BY <1>2, <1>8, <1>9, <1>10, <2>1, <2>2, <3>1, <3>4
    <3>5. QED  BY <2>1, <3>2, <3>3, <3>4
  <2>5. QED  BY <1>6, <2>1, <2>3, <2>4
<1>13. \E i \in DOMAIN windows, p \in 1..DayLength : LinkTo(c, i, p)
  <2>1. \/ end = c + d
        \/ c < k /\ (end < k => end = c + d - h /\ h > 0 /\ c + d >= k)
    <3>1. CASE c >= k
      BY <1>2, <1>long, <1>8, <1>9, <1>10, <3>1
    <3>2. CASE c < k
      BY <1>2, <1>long, <1>8, <1>9, <1>10, <3>2
    <3>3. QED  BY <3>1, <3>2
  <2>2. n = Local(c)
    BY DEF n
  <2>3. PICK i \in DOMAIN windows : w = windows[i]
    BY <1>1
  <2>4. LinkTo(c, i, d)
    BY <1>ends, <1>quiet, <1>7, <1>10, <2>1, <2>2, <2>3 DEF LinkTo
  <2>5. QED  BY <1>long, <2>4
<1>14. QED  BY <1>10, <1>11, <1>12, <1>13

(***************************************************************************)
(* How long a chain of windows is.                                         *)
(***************************************************************************)

\* The windows whose end the wall clock showed after b and until e.
Passed(b, e) == {i \in DOMAIN windows : \E v \in b + 1 .. e : v % DayLength = windows[i].to}
PassedBefore(c) ==
    Passed(sendAt + zone, c + zone) \union Passed(ClockChange + zone - 1, c + zone + shift)
PassedAfter(b, c) == Passed(b + zone + shift, c + zone + shift)
QuietUntil(b, c) == \A t \in b .. c - 1 : Quiet(t)
Windows == Cardinality(DOMAIN windows)

\* Before the change of the clocks, and after it, a chain follows no window twice,
\* but for the one it is in at the change.
ChainBefore(c, n) == QuietUntil(sendAt, c) /\ n < Cardinality(PassedBefore(c))
ChainAfter(c, n) ==
    \E b \in Int : /\ ClockChange <= b /\ b <= c
                   /\ QuietUntil(b, c)
                   /\ n <= Windows + Cardinality(PassedAfter(b, c))
ChainOf(c, n) ==
    /\ sendAt <= c
    /\ ~AllDay => IF c < ClockChange THEN ChainBefore(c, n) ELSE ChainAfter(c, n)
ChainInv ==
    /\ stage = "chain" => ChainOf(candidate, turn)
    /\ stage \in {"out", "held"} /\ ~AllDay => ~Quiet(candidate)

LEMMA FewWindows ==
    ASSUME QuietTyped
    PROVE  /\ IsFiniteSet(DOMAIN windows) /\ Windows \in Nat /\ Windows <= MaxWindows
           /\ \A i \in DOMAIN windows : windows[i].to \in Slots
           /\ \A A \in SUBSET DOMAIN windows :
                Cardinality(A) \in Nat /\ Cardinality(A) <= Windows
           /\ \A A, B \in SUBSET DOMAIN windows, i \in DOMAIN windows :
                A \subseteq B /\ i \in B /\ i \notin A => Cardinality(A) < Cardinality(B)
<1>1. PICK n \in 0..MaxWindows : windows \in [1..n -> [from : Slots, to : Slots]]
  BY DEF QuietTyped
<1>2. DOMAIN windows = 1..n /\ n \in Nat /\ n <= MaxWindows
  BY <1>1, QuietAssumption
<1>3. IsFiniteSet(1..n) /\ Cardinality(1..n) = n
  <2>1. 1 \in Int /\ n \in Int
    BY <1>2
  <2>2. IsFiniteSet(1..n) /\ Cardinality(1..n) = IF 1 > n THEN 0 ELSE n - 1 + 1
    BY <2>1, FS_Interval
  <2>3. QED  BY <1>2, <2>2
<1>4. IsFiniteSet(DOMAIN windows) /\ Windows = n
  BY <1>2, <1>3 DEF Windows
<1>5. \A i \in DOMAIN windows : windows[i].to \in Slots
  BY <1>1, <1>2
<1>6. ASSUME NEW A \in SUBSET DOMAIN windows
      PROVE  IsFiniteSet(A) /\ Cardinality(A) \in Nat /\ Cardinality(A) <= Windows
  <2>1. IsFiniteSet(A) /\ Cardinality(A) <= Cardinality(DOMAIN windows)
    BY <1>4, FS_Subset
  <2>2. Cardinality(A) \in Nat
    BY <2>1, FS_CardinalityType
  <2>3. QED  BY <2>1, <2>2 DEF Windows
<1>7. ASSUME NEW A \in SUBSET DOMAIN windows, NEW B \in SUBSET DOMAIN windows,
             NEW i \in DOMAIN windows, A \subseteq B, i \in B, i \notin A
      PROVE  Cardinality(A) < Cardinality(B)
  <2>1. IsFiniteSet(A) /\ IsFiniteSet(B) /\ Cardinality(A) \in Nat /\ Cardinality(B) \in Nat
    BY <1>6
  <2>2. Cardinality(A) <= Cardinality(B) /\ (Cardinality(A) = Cardinality(B) => A = B)
    BY <1>7, <2>1, FS_Subset
  <2>3. A # B
    BY <1>7
  <2>4. QED  BY <2>1, <2>2, <2>3
<1>8. QED  BY <1>2, <1>4, <1>5, <1>6, <1>7

\* Two times of one slot are a day apart, or more.
LEMMA SameSlotApart ==
    ASSUME NEW d \in Nat \ {0}, NEW v \in Int, NEW w \in Int, v < w, v % d = w % d
    PROVE  w - v >= d
<1> DEFINE p == v \div d
           q == w \div d
           r == v % d
<1>1. p \in Int /\ r \in 0..(d - 1) /\ v = d * p + r
  BY ModFacts
<1>2. q \in Int /\ w = d * q + r
  BY ModFacts
<1> HIDE DEF p, q, r
<1>3. d * p \in Int /\ d * q \in Int
  BY <1>1, <1>2
<1>4. ASSUME q <= p PROVE FALSE
  <2>1. d * q <= d * p
    BY <1>1, <1>2, <1>4
  <2>2. QED  BY <1>1, <1>2, <1>3, <2>1
<1>5. d * q >= d * (p + 1)
  BY <1>1, <1>2, <1>4
<1>6. d * (p + 1) = d * p + d
  BY <1>1
<1>7. QED  BY <1>1, <1>2, <1>3, <1>5, <1>6

LEMMA QuietIs == ASSUME NEW t PROVE Quiet(t) <=> QuietWall(Local(t))
  BY DEF Quiet, QuietWall, SlotOf

\* A whole day of quiet is every day.
LEMMA DayOfQuiet ==
    ASSUME NEW v \in Int, \A u \in v .. v + DayLength - 1 : QuietWall(u)
    PROVE  AllDay
<1> SUFFICES ASSUME NEW s \in Slots
             PROVE  \E i \in DOMAIN windows : InWindow(windows[i], s)
  BY DEF AllDay
<1>1. PICK d \in Nat \ {0} : d = DayLength
  BY QuietAssumption
<1>2. s \in 0..(d - 1)
  BY <1>1 DEF Slots
<1>3. PICK r \in 0..(d - 1) : r = v % d
  BY ModFacts
<1>4. PICK i \in 0..(d - 1) : i = IF s >= r THEN s - r ELSE s - r + d
  <2>1. CASE s >= r
    <3>1. s - r \in 0..(d - 1)
      BY <1>2, <2>1
    <3>2. QED  BY <2>1, <3>1
  <2>2. CASE ~(s >= r)
    <3>1. s - r + d \in 0..(d - 1)
      BY <1>2, <2>2
    <3>2. QED  BY <2>2, <3>1
  <2>3. QED  BY <2>1, <2>2
<1>5. (v + i) % d = s
  <2>1. (v + i) % d = IF (v % d) + i < d THEN (v % d) + i ELSE (v % d) + i - d
    BY SlotLater
  <2>2. QED  BY <1>2, <1>3, <1>4, <2>1
<1>6. v + i \in v .. v + DayLength - 1
  BY <1>1
<1>7. QuietWall(v + i)
  BY <1>6
<1>8. QED  BY <1>1, <1>5, <1>7 DEF QuietWall

\* An end the wall clock comes to through quiet time is none it has shown since.
LEMMA EndIsNew ==
    ASSUME ~AllDay, NEW b \in Int, NEW w \in Int, NEW n \in Int, n < w,
           NEW i \in DOMAIN windows, w % DayLength = windows[i].to,
           \A v \in b .. w - 1 : QuietWall(v)
    PROVE  i \notin Passed(b, n)
<1> SUFFICES ASSUME NEW v \in b + 1 .. n, v % DayLength = windows[i].to PROVE FALSE
  BY DEF Passed
<1>1. v \in Int /\ b < v /\ v < w /\ DayLength \in Nat \ {0}
  BY QuietAssumption
<1>2. w - v >= DayLength
  <2>1. v % DayLength = w % DayLength
    OBVIOUS
  <2>2. QED  BY <1>1, <2>1, SameSlotApart
<1>3. \A u \in v .. v + DayLength - 1 : QuietWall(u)
  BY <1>1, <1>2
<1>4. QED  BY <1>1, <1>3, DayOfQuiet

LEMMA WallIs ==
    ASSUME QuietTyped
    PROVE  /\ zone \in Int /\ shift \in Int /\ ClockChange \in Int /\ sendAt \in Int
           /\ DayLength \in Nat \ {0} /\ shift <= DayLength
           /\ \A t \in Int : t < ClockChange => Local(t) = t + zone
           /\ \A t \in Int : t >= ClockChange => Local(t) = t + zone + shift
<1>1. /\ zone \in Int /\ shift \in Int /\ ClockChange \in Int /\ sendAt \in Int
      /\ DayLength \in Nat \ {0} /\ shift <= DayLength
  BY QuietAssumption DEF QuietTyped
<1>2. \A t \in Int : /\ Local(t) = t + Offset(t)
                     /\ Offset(t) = (IF t >= ClockChange THEN zone + shift ELSE zone)
  BY OffsetIs
<1>3. QED  BY <1>1, <1>2

\* A link that ends before the clocks change passes an end not passed before.
LEMMA LinkBefore ==
    ASSUME QuietTyped, ~AllDay, NEW c \in Int, NEW e \in Int, sendAt <= c, c < e,
           e < ClockChange, QuietUntil(sendAt, c), e = NextActive(c),
           NEW i \in DOMAIN windows, NEW d \in 1..DayLength, LinkTo(c, i, d)
    PROVE  /\ QuietUntil(sendAt, e)
           /\ PassedBefore(c) \subseteq PassedBefore(e)
           /\ i \in PassedBefore(e) /\ i \notin PassedBefore(c)
<1>1. PICK z \in Int, h \in Int, k \in Int, a \in Int, D \in Nat \ {0} :
        z = zone /\ h = shift /\ k = ClockChange /\ a = sendAt /\ D = DayLength
  BY WallIs
<1>2. h <= D /\ d \in 1..D /\ a <= c /\ c < e /\ e < k
  BY <1>1, WallIs
<1>3. \A t \in Int : t < k => Local(t) = t + z
  BY <1>1, WallIs
<1>4. PICK w \in Int : w = c + z + d
  OBVIOUS
<1>5. Local(c) = c + z
  BY <1>2, <1>3
<1>6. /\ w % DayLength = windows[i].to
      /\ \A v \in c + z .. w - 1 : QuietWall(v)
  BY <1>4, <1>5 DEF LinkTo
<1>7. e = c + d \/ (e = c + d - h /\ h > 0 /\ c + d >= k)
  BY <1>1, <1>2 DEF LinkTo
<1>8. \A v \in a + z .. w - 1 : QuietWall(v)
  <2> SUFFICES ASSUME NEW v \in a + z .. w - 1 PROVE QuietWall(v)
    OBVIOUS
  <2>1. CASE v < c + z
    <3>1. PICK t \in Int : t = v - z
      OBVIOUS
    <3>2. t \in sendAt .. c - 1 /\ t < k
      BY <1>1, <1>2, <2>1, <3>1
    <3>3. Quiet(t)
      BY <3>2 DEF QuietUntil
    <3>4. Local(t) = v
      BY <1>3, <3>1, <3>2
    <3>5. QED  BY <3>3, <3>4, QuietIs
  <2>2. CASE v >= c + z
    BY <1>4, <1>6, <2>2
  <2>3. QED  BY <2>1, <2>2
<1>9. QuietUntil(sendAt, e)
  <2> SUFFICES ASSUME NEW t \in sendAt .. e - 1 PROVE Quiet(t)
    BY DEF QuietUntil
  <2>1. t \in Int /\ a <= t /\ t < e
    BY <1>1
  <2>2. Local(t) = t + z
    BY <1>2, <1>3, <2>1
  <2>3. t + z \in a + z .. w - 1
    BY <1>2, <1>4, <1>7, <2>1
  <2>4. QED  BY <1>8, <2>2, <2>3, QuietIs
<1>10. PassedBefore(c) \subseteq PassedBefore(e)
  <2>1. \A x, y, u, v \in Int : x <= y => Passed(u, x) \subseteq Passed(u, y)
    BY DEF Passed
  <2>2. /\ a + z \in Int /\ k + z - 1 \in Int /\ c + z \in Int /\ e + z \in Int
        /\ c + z + h \in Int /\ e + z + h \in Int
        /\ c + z <= e + z /\ c + z + h <= e + z + h
    BY <1>2
  <2>3. /\ Passed(a + z, c + z) \subseteq Passed(a + z, e + z)
        /\ Passed(k + z - 1, c + z + h) \subseteq Passed(k + z - 1, e + z + h)
    BY <2>1, <2>2
  <2>4. QED  BY <1>1, <2>3 DEF PassedBefore
<1>11. i \in PassedBefore(e)
  <2>1. CASE e = c + d
    <3>1. w \in sendAt + zone + 1 .. e + zone
      BY <1>1, <1>2, <1>4, <2>1
    <3>2. QED  BY <1>6, <3>1 DEF PassedBefore, Passed
  <2>2. CASE e = c + d - h /\ h > 0 /\ c + d >= k
    <3>1. w \in (ClockChange + zone - 1) + 1 .. e + zone + shift
      BY <1>1, <1>2, <1>4, <2>2
    <3>2. QED  BY <1>6, <3>1 DEF PassedBefore, Passed
  <2>3. QED  BY <1>7, <2>1, <2>2
<1>12. i \notin PassedBefore(c)
  <2>1. i \notin Passed(a + z, c + z)
    <3>1. PICK b \in Int, n \in Int : b = a + z /\ n = c + z
      OBVIOUS
    <3>2. n < w /\ \A v \in b .. w - 1 : QuietWall(v)
      BY <1>2, <1>4, <1>8, <3>1
    <3>3. i \notin Passed(b, n)
      BY <1>6, <3>2, EndIsNew
    <3>4. QED  BY <3>1, <3>3
  <2>2. i \notin Passed(k + z - 1, c + z + h)
    <3> SUFFICES ASSUME NEW v \in (k + z - 1) + 1 .. c + z + h, v % DayLength = windows[i].to
                 PROVE FALSE
      BY DEF Passed
    <3>1. v \in Int /\ k + z <= v /\ v <= c + z + h
      OBVIOUS
    <3>2. v % D = w % D
      BY <1>1, <1>6
    <3>3. v < w => w - v >= D
      BY <3>1, <3>2, SameSlotApart
    <3>4. w < v => v - w >= D
      BY <3>1, <3>2, SameSlotApart
    <3>5. CASE e = c + d
      BY <1>2, <1>4, <3>1, <3>3, <3>4, <3>5
    <3>6. CASE e = c + d - h
      BY <1>2, <1>4, <3>1, <3>3, <3>4, <3>6
    <3>7. QED  BY <1>7, <3>5, <3>6
  <2>3. QED  BY <1>1, <2>1, <2>2 DEF PassedBefore
<1>13. QED  BY <1>9, <1>10, <1>11, <1>12

LEMMA LinkAfter ==
    ASSUME QuietTyped, ~AllDay, NEW b \in Int, NEW c \in Int, NEW e \in Int,
           ClockChange <= b, b <= c, QuietUntil(b, c), e = NextActive(c),
           NEW i \in DOMAIN windows, NEW d \in 1..DayLength, LinkTo(c, i, d)
    PROVE  /\ QuietUntil(b, e)
           /\ PassedAfter(b, c) \subseteq PassedAfter(b, e)
           /\ i \in PassedAfter(b, e) /\ i \notin PassedAfter(b, c)
<1>1. PICK z \in Int, h \in Int, k \in Int, D \in Nat \ {0}, o \in Int :
        z = zone /\ h = shift /\ k = ClockChange /\ D = DayLength /\ o = z + h
  BY WallIs
<1>2. d \in 1..D /\ b <= c /\ k <= b
  BY <1>1
<1>3. \A t \in Int : t >= k => Local(t) = t + o
  BY <1>1, WallIs
<1>4. PICK w \in Int : w = c + o + d
  OBVIOUS
<1>5. Local(c) = c + o
  BY <1>2, <1>3
<1>6. /\ w % DayLength = windows[i].to
      /\ \A v \in c + o .. w - 1 : QuietWall(v)
  BY <1>4, <1>5 DEF LinkTo
<1>7. e = c + d
  BY <1>1, <1>2 DEF LinkTo
<1>8. \A v \in b + o .. w - 1 : QuietWall(v)
  <2> SUFFICES ASSUME NEW v \in b + o .. w - 1 PROVE QuietWall(v)
    OBVIOUS
  <2>1. CASE v < c + o
    <3>1. PICK t \in Int : t = v - o
      OBVIOUS
    <3>2. t \in b .. c - 1 /\ t >= k
      BY <1>1, <1>2, <2>1, <3>1
    <3>3. Quiet(t)
      BY <3>2 DEF QuietUntil
    <3>4. Local(t) = v
      BY <1>3, <3>1, <3>2
    <3>5. QED  BY <3>3, <3>4, QuietIs
  <2>2. CASE v >= c + o
    BY <1>4, <1>6, <2>2
  <2>3. QED  BY <2>1, <2>2
<1>9. QuietUntil(b, e)
  <2> SUFFICES ASSUME NEW t \in b .. e - 1 PROVE Quiet(t)
    BY DEF QuietUntil
  <2>1. t \in Int /\ t >= k /\ b <= t /\ t < e
    BY <1>2
  <2>2. Local(t) = t + o
    BY <1>3, <2>1
  <2>3. t + o \in b + o .. w - 1
    BY <1>4, <1>7, <2>1
  <2>4. QED  BY <1>8, <2>2, <2>3, QuietIs
<1>10. PICK x \in Int, n \in Int, m \in Int : x = b + o /\ n = c + o /\ m = e + o
  OBVIOUS
<1>11. PassedAfter(b, c) = Passed(x, n) /\ PassedAfter(b, e) = Passed(x, m)
  <2>1. b + zone + shift = x /\ c + zone + shift = n /\ e + zone + shift = m
    BY <1>1, <1>10
  <2>2. QED  BY <2>1 DEF PassedAfter
<1>12. Passed(x, n) \subseteq Passed(x, m)
  BY <1>2, <1>7, <1>10 DEF Passed
<1>13. i \in Passed(x, m)
  <2>1. w \in x + 1 .. m
    BY <1>2, <1>4, <1>7, <1>10
  <2>2. QED  BY <1>6, <2>1 DEF Passed
<1>14. i \notin Passed(x, n)
  <2>1. n < w /\ \A v \in x .. w - 1 : QuietWall(v)
    BY <1>2, <1>4, <1>8, <1>10
  <2>2. QED  BY <1>6, <2>1, EndIsNew
<1>15. QED  BY <1>9, <1>11, <1>12, <1>13, <1>14

LEMMA PassedAreWindows ==
    ASSUME QuietTyped
    PROVE  /\ \A c : PassedBefore(c) \in SUBSET DOMAIN windows
           /\ \A b, c : PassedAfter(b, c) \in SUBSET DOMAIN windows
  BY DEF PassedBefore, PassedAfter, Passed

\* The first time found after the change begins a count of its own.
LEMMA CountsAnew ==
    ASSUME QuietTyped, NEW e \in Int, ClockChange <= e, NEW n \in Nat, n <= Windows
    PROVE  ChainAfter(e, n)
<1>1. QuietUntil(e, e)
  BY DEF QuietUntil
<1>2. Cardinality(PassedAfter(e, e)) \in Nat /\ Windows \in Nat
  BY PassedAreWindows, FewWindows
<1>3. n <= Windows + Cardinality(PassedAfter(e, e))
  BY <1>2
<1>4. QED  BY <1>1, <1>3 DEF ChainAfter

LEMMA ChainStarts ==
    ASSUME QuietTyped, NEW c \in Int, c = sendAt, Quiet(c)
    PROVE  ChainOf(NextActive(c), 0)
<1>1. PICK e \in Int, i \in DOMAIN windows, d \in 1..DayLength :
        e = NextActive(c) /\ c < e /\ LinkTo(c, i, d)
  BY LinkIsQuiet
<1>2. ClockChange \in Int
  BY WallIs
<1>3. ASSUME ~AllDay, e < ClockChange PROVE ChainBefore(e, 0)
  <2>1. QuietUntil(sendAt, c) /\ sendAt <= c
    BY DEF QuietUntil
  <2>2. QuietUntil(sendAt, e) /\ i \in PassedBefore(e) /\ i \notin PassedBefore(c)
        /\ PassedBefore(c) \subseteq PassedBefore(e)
    BY <1>1, <1>3, <2>1, LinkBefore
  <2>3. Cardinality(PassedBefore(c)) < Cardinality(PassedBefore(e))
    BY <2>2, PassedAreWindows, FewWindows
  <2>4. Cardinality(PassedBefore(c)) \in Nat /\ Cardinality(PassedBefore(e)) \in Nat
    BY PassedAreWindows, FewWindows
  <2>5. 0 < Cardinality(PassedBefore(e))
    BY <2>3, <2>4
  <2>6. QED  BY <2>2, <2>5 DEF ChainBefore
<1>4. ASSUME ClockChange <= e PROVE ChainAfter(e, 0)
  <2>1. PICK n \in Nat : n = 0
    OBVIOUS
  <2>2. n <= Windows
    BY <2>1, FewWindows
  <2>3. ChainAfter(e, n)
    BY <1>4, <2>2, CountsAnew
  <2>4. QED  BY <2>1, <2>3
<1>5. ChainOf(e, 0)
  BY <1>1, <1>2, <1>3, <1>4 DEF ChainOf
<1>6. QED  BY <1>1, <1>5

LEMMA ChainGrows ==
    ASSUME QuietTyped, NEW c \in Int, NEW n \in Nat, ChainOf(c, n), Quiet(c)
    PROVE  ChainOf(NextActive(c), n + 1)
<1>1. PICK e \in Int, i \in DOMAIN windows, d \in 1..DayLength :
        e = NextActive(c) /\ c < e /\ LinkTo(c, i, d)
  BY LinkIsQuiet
<1>2. ClockChange \in Int /\ sendAt \in Int /\ sendAt <= c /\ sendAt <= e
  BY <1>1, WallIs DEF ChainOf
<1>3. Windows \in Nat /\ \A x : Cardinality(PassedBefore(x)) \in Nat
                              /\ Cardinality(PassedBefore(x)) <= Windows
  BY PassedAreWindows, FewWindows
<1>4. \A b, x : Cardinality(PassedAfter(b, x)) \in Nat
  BY PassedAreWindows, FewWindows
<1>5. ASSUME ~AllDay, e < ClockChange PROVE ChainBefore(e, n + 1)
  <2>1. ChainBefore(c, n)
    BY <1>1, <1>2, <1>5 DEF ChainOf
  <2>2. QuietUntil(sendAt, c) /\ n < Cardinality(PassedBefore(c))
    BY <2>1 DEF ChainBefore
  <2>3. QuietUntil(sendAt, e) /\ i \in PassedBefore(e) /\ i \notin PassedBefore(c)
        /\ PassedBefore(c) \subseteq PassedBefore(e)
    BY <1>1, <1>2, <1>5, <2>2, LinkBefore
  <2>4. Cardinality(PassedBefore(c)) < Cardinality(PassedBefore(e))
    BY <2>3, PassedAreWindows, FewWindows
  <2>5. n + 1 < Cardinality(PassedBefore(e))
    BY <1>3, <2>2, <2>4
  <2>6. QED  BY <2>3, <2>5 DEF ChainBefore
<1>6. ASSUME ~AllDay, ClockChange <= e PROVE ChainAfter(e, n + 1)
  <2>1. PICK m \in Nat : m = n + 1
    OBVIOUS
  <2>2. CASE c < ClockChange
    <3>1. n < Cardinality(PassedBefore(c))
      BY <1>6, <2>2 DEF ChainOf, ChainBefore
    <3>2. m <= Windows
      BY <1>3, <2>1, <3>1
    <3>3. QED  BY <1>6, <2>1, <3>2, CountsAnew
  <2>3. CASE ~(c < ClockChange)
    <3>1. PICK b \in Int : /\ ClockChange <= b /\ b <= c /\ QuietUntil(b, c)
                           /\ n <= Windows + Cardinality(PassedAfter(b, c))
      BY <1>6, <2>3 DEF ChainOf, ChainAfter
    <3>2. QuietUntil(b, e) /\ i \in PassedAfter(b, e) /\ i \notin PassedAfter(b, c)
          /\ PassedAfter(b, c) \subseteq PassedAfter(b, e)
      BY <1>1, <1>6, <3>1, LinkAfter
    <3>3. Cardinality(PassedAfter(b, c)) < Cardinality(PassedAfter(b, e))
      BY <3>2, PassedAreWindows, FewWindows
    <3>4. n + 1 <= Windows + Cardinality(PassedAfter(b, e)) /\ b <= e
      BY <1>1, <1>3, <1>4, <3>1, <3>3
    <3>5. QED  BY <3>1, <3>2, <3>4 DEF ChainAfter
  <2>4. QED  BY <2>2, <2>3
<1>7. ChainOf(e, n + 1)
  BY <1>1, <1>2, <1>5, <1>6 DEF ChainOf
<1>8. QED  BY <1>1, <1>7

LEMMA ChainEnds ==
    ASSUME QuietTyped, ~AllDay, NEW c \in Int, NEW n \in Nat, ChainOf(c, n), Quiet(c)
    PROVE  n < 2 * MaxWindows
<1>1. PICK e \in Int, i \in DOMAIN windows, d \in 1..DayLength :
        e = NextActive(c) /\ c < e /\ LinkTo(c, i, d)
  BY LinkIsQuiet
<1>2. ClockChange \in Int
  BY WallIs
<1>3. Windows \in Nat /\ MaxWindows \in Nat /\ Windows <= MaxWindows
      /\ \A x : Cardinality(PassedBefore(x)) \in Nat /\ Cardinality(PassedBefore(x)) <= Windows
  BY PassedAreWindows, FewWindows, QuietAssumption
<1>4. \A b, x : Cardinality(PassedAfter(b, x)) \in Nat /\ Cardinality(PassedAfter(b, x)) <= Windows
  BY PassedAreWindows, FewWindows
<1>5. CASE c < ClockChange
  <2>1. n < Cardinality(PassedBefore(c))
    BY <1>5 DEF ChainOf, ChainBefore
  <2>2. QED  BY <1>3, <2>1
<1>6. CASE ~(c < ClockChange)
  <2>1. PICK b \in Int : /\ ClockChange <= b /\ b <= c /\ QuietUntil(b, c)
                         /\ n <= Windows + Cardinality(PassedAfter(b, c))
    BY <1>6 DEF ChainOf, ChainAfter
  <2>2. i \in PassedAfter(b, e) /\ i \notin PassedAfter(b, c)
        /\ PassedAfter(b, c) \subseteq PassedAfter(b, e)
    BY <1>1, <2>1, LinkAfter
  <2>3. Cardinality(PassedAfter(b, c)) < Cardinality(PassedAfter(b, e))
    BY <2>2, PassedAreWindows, FewWindows
  <2>4. QED  BY <1>3, <1>4, <2>1, <2>3
<1>7. QED  BY <1>5, <1>6

LEMMA QuietInvInit == QuietInit => QuietInv
<1> SUFFICES ASSUME QuietInit PROVE QuietInv
  OBVIOUS
<1>1. /\ zone \in Int /\ shift \in Int /\ shift <= DayLength /\ sendAt \in Int /\ candidate = sendAt /\ turn = 0
      /\ stage = "asked" /\ 0 \in 0..MaxChain
  BY QuietAssumption DEF QuietInit
<1>2. QuietTyped
  BY <1>1 DEF QuietInit, QuietTyped
<1>3. QuietSoFar
  BY <1>1 DEF QuietSoFar
<1>4. QED  BY <1>2, <1>3 DEF QuietInv

LEMMA QuietRest ==
    ASSUME UNCHANGED <<windows, zone, shift, sendAt>>
    PROVE  /\ \A t : Quiet(t)' <=> Quiet(t)
           /\ \A t : NearChange(t)' <=> NearChange(t)
  BY DEF Quiet, SlotOf, Local, Offset, NearChange, Jump

LEMMA QuietStep == QuietInv /\ [QuietNext]_quietVars => QuietInv'
<1> SUFFICES ASSUME QuietInv, [QuietNext]_quietVars PROVE QuietInv'
  OBVIOUS
<1>1. UNCHANGED <<windows, zone, shift, sendAt>>
  BY DEF QuietNext, CheckFirst, FollowChain, quietVars
<1>2. /\ \A t : Quiet(t)' <=> Quiet(t)
      /\ \A t : NearChange(t)' <=> NearChange(t)
  BY <1>1, QuietRest
<1>3. /\ QuietTyped /\ candidate \in Int /\ sendAt \in Int /\ turn \in 0..MaxChain
      /\ MaxChain \in Nat
  BY QuietAssumption DEF QuietInv, QuietTyped
<1>4. CASE CheckFirst
  <2>1. stage = "asked" /\ candidate = sendAt /\ turn' = turn
    BY <1>4 DEF CheckFirst, QuietInv, QuietSoFar
  <2>2. CASE Quiet(sendAt)
    <3>1. stage' = "chain" /\ candidate' = NextActive(sendAt)
      BY <1>4, <2>2 DEF CheckFirst
    <3>2. /\ NextActive(sendAt) \in Int
          /\ \A t \in sendAt .. NextActive(sendAt) - 1 : Quiet(t) \/ NearChange(t)
      BY <1>3, <2>2, LinkIsQuiet
    <3>3. QuietTyped'
      BY <1>1, <2>1, <3>1, <3>2 DEF QuietInv, QuietTyped, Slots
    <3>4. QuietSoFar'
      BY <1>1, <1>2, <3>1, <3>2 DEF QuietSoFar
    <3>5. QED  BY <3>3, <3>4 DEF QuietInv
  <2>3. CASE ~Quiet(sendAt)
    <3>1. stage' = "out" /\ candidate' = candidate
      BY <1>4, <2>3 DEF CheckFirst
    <3>2. QuietTyped'
      BY <1>1, <2>1, <3>1 DEF QuietInv, QuietTyped, Slots
    <3>3. ~Quiet(candidate)'
      <4>1. PICK c \in Int : c = candidate
        BY <1>3
      <4>2. ~Quiet(c) /\ ~(Quiet(c)') /\ candidate' = c
        BY <1>2, <2>1, <2>3, <3>1, <4>1
      <4>3. QED  BY <4>2 DEF Quiet
    <3>4. QuietSoFar'
      BY <3>1, <3>3 DEF QuietSoFar
    <3>5. QED  BY <3>2, <3>4 DEF QuietInv
  <2>4. QED  BY <2>2, <2>3
<1>5. CASE FollowChain
  <2>1. /\ stage = "chain"
        /\ \A t \in sendAt .. candidate - 1 : Quiet(t) \/ NearChange(t)
    BY <1>5 DEF FollowChain, QuietInv, QuietSoFar
  <2>2. CASE turn < MaxChain /\ Quiet(candidate)
    <3>1. PICK c \in Int : c = candidate
      BY <1>3
    <3>2. PICK n \in Int : n = NextActive(c) /\ n > c
                          /\ \A t \in c .. n - 1 : Quiet(t) \/ NearChange(t)
      BY <1>3, <2>2, <3>1, LinkIsQuiet
    <3>3. candidate' = n /\ turn' = turn + 1 /\ stage' = "chain"
      BY <1>5, <2>1, <2>2, <3>1, <3>2 DEF FollowChain
    <3>4. \A t \in sendAt .. n - 1 : Quiet(t) \/ NearChange(t)
      <4>1. \A t \in sendAt .. n - 1 : t \in sendAt .. c - 1 \/ t \in c .. n - 1
        BY <1>3
      <4>2. QED  BY <2>1, <3>1, <3>2, <4>1
    <3>5. QuietTyped'
      BY <1>1, <1>3, <2>2, <3>3 DEF QuietInv, QuietTyped, Slots
    <3>6. QuietSoFar'
      BY <1>1, <1>2, <3>3, <3>4 DEF QuietSoFar
    <3>7. QED  BY <3>5, <3>6 DEF QuietInv
  <2>3. CASE ~(turn < MaxChain /\ Quiet(candidate))
    <3>1. stage' = "held" /\ candidate' = candidate /\ turn' = turn
      BY <1>5, <2>3 DEF FollowChain
    <3>2. QuietTyped'
      BY <1>1, <3>1 DEF QuietInv, QuietTyped, Slots
    <3>3. ~Quiet(candidate)' \/ turn' = MaxChain
      <4>1. CASE turn < MaxChain
        <5>1. PICK c \in Int : c = candidate
          BY <1>3
        <5>2. ~(Quiet(c)') /\ candidate' = c
          BY <1>2, <2>3, <3>1, <4>1, <5>1
        <5>3. QED  BY <5>2 DEF Quiet
      <4>2. QED  BY <1>3, <3>1, <4>1
    <3>4. \A t \in sendAt' .. candidate' - 1 : Quiet(t)' \/ NearChange(t)'
      BY <1>1, <1>2, <2>1, <3>1
    <3>5. QuietSoFar'
      BY <3>1, <3>3, <3>4 DEF QuietSoFar
    <3>6. QED  BY <3>2, <3>5 DEF QuietInv
  <2>4. QED  BY <2>2, <2>3
<1>6. CASE UNCHANGED quietVars
  <2>1. UNCHANGED <<windows, zone, shift, sendAt, candidate, turn, stage>>
    BY <1>6 DEF quietVars
  <2>2. QuietTyped'
    BY <2>1 DEF QuietInv, QuietTyped, Slots
  <2>3. QuietSoFar'
    BY <2>1 DEF QuietInv, QuietSoFar, Quiet, SlotOf, Local, Offset, NearChange, Jump
  <2>4. QED  BY <2>2, <2>3 DEF QuietInv
<1>7. QED  BY <1>4, <1>5, <1>6 DEF QuietNext

LEMMA ChainRest ==
    ASSUME UNCHANGED <<windows, zone, shift, sendAt>>
    PROVE  /\ AllDay' <=> AllDay
           /\ \A c, n : ChainOf(c, n)' <=> ChainOf(c, n)
<1>1. windows' = windows /\ zone' = zone /\ shift' = shift /\ sendAt' = sendAt
  OBVIOUS
<1>2. AllDay' <=> AllDay
  BY <1>1 DEF AllDay
<1>3. Windows' = Windows
  BY <1>1 DEF Windows
<1>4. \A b, e : Passed(b, e)' = Passed(b, e)
  BY <1>1 DEF Passed
<1>5. /\ \A c : PassedBefore(c)' = PassedBefore(c)
      /\ \A b, c : PassedAfter(b, c)' = PassedAfter(b, c)
  BY <1>1, <1>4 DEF PassedBefore, PassedAfter, Passed
<1>6. \A b, c : QuietUntil(b, c)' <=> QuietUntil(b, c)
  BY QuietRest DEF QuietUntil
<1>7. \A c, n : ChainBefore(c, n)' <=> ChainBefore(c, n)
  BY <1>1, <1>5, <1>6 DEF ChainBefore, QuietUntil, Quiet, SlotOf, Local, Offset
<1>8. \A c, n : ChainAfter(c, n)' <=> ChainAfter(c, n)
  BY <1>1, <1>3, <1>5, <1>6 DEF ChainAfter
<1>9. QED  BY <1>1, <1>2, <1>7, <1>8 DEF ChainOf

\* With MaxChain at least twice the number of windows a chain comes to its end.
LEMMA ChainStep ==
    ASSUME 2 * MaxWindows <= MaxChain, QuietInv, ChainInv, [QuietNext]_quietVars
    PROVE  ChainInv'
<1>1. UNCHANGED <<windows, zone, shift, sendAt>>
  BY DEF QuietNext, CheckFirst, FollowChain, quietVars
<1>2. /\ \A t : Quiet(t)' <=> Quiet(t)
      /\ AllDay' <=> AllDay
      /\ \A c, n : ChainOf(c, n)' <=> ChainOf(c, n)
  BY <1>1, QuietRest, ChainRest
<1>3. /\ QuietTyped /\ candidate \in Int /\ sendAt \in Int /\ turn \in 0..MaxChain
      /\ MaxChain \in Nat /\ MaxWindows \in Nat
  BY QuietAssumption DEF QuietInv, QuietTyped
<1>4. PICK c \in Int, n \in Nat : c = candidate /\ n = turn
  BY <1>3
<1>5. ASSUME stage' = "chain", ChainOf(candidate', turn') PROVE ChainInv'
  <2>1. PICK x, m : x = candidate' /\ m = turn'
    OBVIOUS
  <2>2. ChainOf(x, m)'
    BY <1>2, <1>5, <2>1
  <2>3. (stage = "chain" => ChainOf(candidate, turn))'
    BY <1>5, <2>1, <2>2 DEF ChainOf, ChainBefore, ChainAfter, QuietUntil, PassedBefore,
       PassedAfter, Passed, Windows, Quiet, SlotOf, Local, Offset, AllDay
  <2>4. QED  BY <1>5, <2>3 DEF ChainInv
<1>6. ASSUME candidate' = candidate, stage' # "chain", AllDay \/ ~Quiet(c) PROVE ChainInv'
  <2>1. candidate' = c /\ (AllDay' \/ ~(Quiet(c)'))
    BY <1>2, <1>4, <1>6
  <2>2. (stage \in {"out", "held"} /\ ~AllDay => ~Quiet(candidate))'
    <3>1. ~(Quiet(c)') => ~(Quiet(candidate)')
      BY <2>1 DEF Quiet
    <3>2. QED  BY <2>1, <3>1
  <2>3. QED  BY <1>6, <2>2 DEF ChainInv
<1>7. CASE CheckFirst
  <2>1. stage = "asked" /\ candidate = sendAt /\ turn = 0 /\ turn' = turn
    BY <1>7 DEF CheckFirst, QuietInv, QuietSoFar
  <2>2. CASE Quiet(sendAt)
    <3>1. stage' = "chain" /\ candidate' = NextActive(c)
      BY <1>4, <1>7, <2>1, <2>2 DEF CheckFirst
    <3>2. Quiet(c) /\ c = sendAt
      BY <1>4, <2>1, <2>2
    <3>3. ChainOf(NextActive(c), 0)
      BY <1>3, <3>2, ChainStarts
    <3>4. QED  BY <1>5, <2>1, <3>1, <3>3
  <2>3. CASE ~Quiet(sendAt)
    <3>1. stage' = "out" /\ candidate' = candidate
      BY <1>7, <2>3 DEF CheckFirst
    <3>2. ~Quiet(c)
      BY <1>4, <2>1, <2>3
    <3>3. QED  BY <1>6, <3>1, <3>2
  <2>4. QED  BY <2>2, <2>3
<1>8. CASE FollowChain
  <2>1. stage = "chain" /\ ChainOf(c, n)
    BY <1>4, <1>8 DEF FollowChain, ChainInv
  <2>2. CASE turn < MaxChain /\ Quiet(candidate)
    <3>1. Quiet(c)
      BY <1>4, <2>2
    <3>2. NextActive(c) \in Int /\ NextActive(c) > c
      BY <1>3, <3>1, LinkIsQuiet
    <3>3. candidate' = NextActive(c) /\ turn' = n + 1 /\ stage' = "chain"
      BY <1>4, <1>8, <2>1, <2>2, <3>2 DEF FollowChain
    <3>4. ChainOf(NextActive(c), n + 1)
      BY <1>3, <2>1, <3>1, ChainGrows
    <3>5. QED  BY <1>5, <3>3, <3>4
  <2>3. CASE ~(turn < MaxChain /\ Quiet(candidate))
    <3>1. stage' = "held" /\ candidate' = candidate
      BY <1>8, <2>3 DEF FollowChain
    <3>2. ASSUME ~AllDay, Quiet(c) PROVE FALSE
      <4>1. n = MaxChain
        BY <1>3, <1>4, <2>3, <3>2
      <4>2. n < 2 * MaxWindows
        BY <1>3, <2>1, <3>2, ChainEnds
      <4>3. QED  BY <1>3, <4>1, <4>2
    <3>3. QED  BY <1>6, <3>1, <3>2
  <2>4. QED  BY <2>2, <2>3
<1>9. CASE UNCHANGED quietVars
  <2>1. UNCHANGED <<windows, zone, shift, sendAt, candidate, turn, stage>>
    BY <1>9 DEF quietVars
  <2>2. CASE stage = "chain"
    <3>1. ChainOf(candidate', turn') /\ stage' = "chain"
      BY <2>1, <2>2 DEF ChainInv
    <3>2. QED  BY <1>5, <3>1
  <2>3. CASE stage # "chain" /\ stage \in {"out", "held"}
    <3>1. AllDay \/ ~Quiet(c)
      BY <1>4, <2>3 DEF ChainInv
    <3>2. QED  BY <1>6, <2>1, <2>3, <3>1
  <2>4. CASE stage # "chain" /\ stage \notin {"out", "held"}
    BY <2>1, <2>4 DEF ChainInv
  <2>5. QED  BY <2>2, <2>3, <2>4
<1>10. QED  BY <1>7, <1>8, <1>9 DEF QuietNext

\* A send held back is not held past the first moment its recipient may be
\* reached, but for the hour the clocks skip or repeat; and it goes out outside
\* their quiet hours, unless MaxChain windows were followed one after another
\* (quiet-hours.ts, 131-150). For any windows, zones and changes of the clocks.
THEOREM QuietHoursKept ==
    QuietSpec => [](/\ NotOverdue
                    /\ stage \in {"out", "held"} /\ turn < MaxChain => ~Quiet(candidate))
<1>1. QuietInv => /\ NotOverdue
                  /\ stage \in {"out", "held"} /\ turn < MaxChain => ~Quiet(candidate)
  <2> SUFFICES ASSUME QuietInv
               PROVE  /\ NotOverdue
                      /\ stage \in {"out", "held"} /\ turn < MaxChain => ~Quiet(candidate)
    OBVIOUS
  <2>1. NotOverdue
    BY DEF QuietInv, QuietSoFar, NotOverdue, NearChange
  <2>2. turn < MaxChain => turn # MaxChain
    BY QuietAssumption DEF QuietInv, QuietTyped
  <2>3. QED  BY <2>1, <2>2 DEF QuietInv, QuietSoFar
<1>2. QED  BY <1>1, QuietInvInit, QuietStep, PTL DEF QuietSpec

\* A user whose windows are at most half of MaxChain is sent nothing within them,
\* and nothing later than they end (quiet-hours.ts, 131-150): the chain of 10 is
\* long enough for 5 windows, however they overlap, wrap midnight and meet a
\* change of the clocks.
THEOREM SentWhenDue == QuietSpec => [](2 * MaxWindows <= MaxChain => SentInDueTime)
<1> DEFINE I == QuietInv /\ (2 * MaxWindows <= MaxChain => ChainInv)
<1>1. QuietInit => I
  <2>1. QuietInit => ChainInv
    BY DEF QuietInit, ChainInv
  <2>2. QED  BY <2>1, QuietInvInit
<1>2. I /\ [QuietNext]_quietVars => I'
  <2> SUFFICES ASSUME I, [QuietNext]_quietVars PROVE I'
    OBVIOUS
  <2>1. QuietInv'
    BY QuietStep
  <2>2. ASSUME 2 * MaxWindows <= MaxChain PROVE ChainInv'
    BY <2>2, ChainStep
  <2>3. QED  BY <2>1, <2>2
<1>3. I => (2 * MaxWindows <= MaxChain => SentInDueTime)
  <2> SUFFICES ASSUME QuietInv, ChainInv PROVE SentInDueTime
    OBVIOUS
  <2>1. NotOverdue
    BY DEF QuietInv, QuietSoFar, NotOverdue, NearChange
  <2>2. QuietKept
    BY DEF ChainInv, QuietKept
  <2>3. QED  BY <2>1, <2>2 DEF SentInDueTime
<1> HIDE DEF I
<1>4. QED  BY <1>1, <1>2, <1>3, PTL DEF QuietSpec
=============================================================================
