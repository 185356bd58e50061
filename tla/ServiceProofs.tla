--------------------------- MODULE ServiceProofs ----------------------------
(***************************************************************************)
(* Proofs about the primitives, the caches, the AI worker, the live event  *)
(* stream, the providers' transports, the start and stop of a server and   *)
(* its migrations, for any calls, batches, lookups, consumers, prompts,    *)
(* timeouts, clients, texts, sends, services, messages and schemas.        *)
(***************************************************************************)
EXTENDS Primitives, Caches, AiWorker, LiveStream, Providers, Operations,
        FiniteSetTheorems, SequenceTheorems, TLAPS

-----------------------------------------------------------------------------
(* The caches.                                                             *)

\* Nothing a reader holds or was told of is from the future, and no change is
\* announced that was not made.
FromThePast ==
    /\ told <= row /\ entry.version <= row /\ unpublished + onWire <= row
    /\ \A l \in Lookups : lookup[l].saw <= row

\* The answer of a lookup that an invalidation overtook is marked, or will not
\* be stored.
StaleIsMarked ==
    \A l \in Lookups : lookup[l].at = "answered" /\ lookup[l].saw < told =>
        IF cacheKind = "settings" THEN l \notin current ELSE lookup[l].overtaken

CachesInv == CachesTypeOK /\ FromThePast /\ StaleIsMarked /\ FreshAfterInvalidate

LEMMA CachesInvInit == CachesInit => CachesInv
<1> SUFFICES ASSUME CachesInit PROVE CachesInv
  OBVIOUS
<1>1. CachesTypeOK
  BY CachesAssumption DEF CachesInit, CachesTypeOK, CacheKinds, NoEntry, Idle
<1>2. FromThePast /\ StaleIsMarked /\ FreshAfterInvalidate
  BY DEF CachesInit, FromThePast, StaleIsMarked, FreshAfterInvalidate, NoEntry, Idle
<1>3. QED  BY <1>1, <1>2 DEF CachesInv

LEMMA CachesInvStep == CachesInv /\ [CachesNext]_cachesVars => CachesInv'
<1> SUFFICES ASSUME CachesInv, [CachesNext]_cachesVars PROVE CachesInv'
  OBVIOUS
<1> USE CachesAssumption DEF CachesInv, CachesTypeOK, FromThePast, StaleIsMarked, FreshAfterInvalidate
<1>1. CASE Change \/ ChangeSilently
  BY <1>1 DEF Change, ChangeSilently
<1>2. CASE Publish
  <2>1. onWire' \in {onWire, onWire + 1} /\ unpublished' = unpublished - 1 /\ unpublished > 0
    BY <1>2 DEF Publish
  <2>2. UNCHANGED <<cacheKind, row, entry, lookup, current, told>>
    BY <1>2 DEF Publish
  <2>3. unpublished' \in 0..MaxVersion /\ onWire' \in 0..MaxVersion /\ unpublished' + onWire' <= row
    <3>1. /\ row \in Nat /\ unpublished \in Nat /\ onWire \in Nat /\ MaxVersion \in Nat
          /\ row <= MaxVersion /\ unpublished + onWire <= row
      OBVIOUS
    <3>2. unpublished' \in 0..MaxVersion
      BY <2>1, <3>1
    <3>3. onWire' \in 0..MaxVersion
      BY <2>1, <3>1
    <3>4. unpublished' + onWire' <= row
      <4>1. CASE onWire' = onWire      BY <2>1, <3>1, <4>1
      <4>2. CASE onWire' = onWire + 1  BY <2>1, <3>1, <4>2
      <4>3. QED  BY <2>1, <4>1, <4>2
    <3>5. QED  BY <3>2, <3>3, <3>4
  <2>4. QED  BY <2>2, <2>3
<1>3. CASE Invalidate
  <2>1. \A l \in Lookups :
           /\ lookup'[l] \in [at : {"idle", "asked", "answered"}, saw : 0..MaxVersion,
                              overtaken : BOOLEAN]
           /\ lookup'[l].at = lookup[l].at /\ lookup'[l].saw = lookup[l].saw
           /\ cacheKind # "settings" /\ lookup[l].at = "answered" => lookup'[l].overtaken
    BY <1>3 DEF Invalidate
  <2>2. lookup' \in [Lookups -> [at : {"idle", "asked", "answered"}, saw : 0..MaxVersion,
                                 overtaken : BOOLEAN]]
    BY <1>3, <2>1 DEF Invalidate
  <2>3. /\ entry' = NoEntry /\ current' = {} /\ told' = row /\ onWire' = onWire - 1 /\ onWire > 0
        /\ UNCHANGED <<cacheKind, row, unpublished>>
    BY <1>3 DEF Invalidate
  <2>4. CachesTypeOK'
    BY <2>2, <2>3 DEF NoEntry
  <2>5. FromThePast' /\ StaleIsMarked' /\ FreshAfterInvalidate'
    BY <2>1, <2>3 DEF NoEntry
  <2>6. QED  BY <2>4, <2>5
<1>4. CASE Drop
  BY <1>4 DEF Drop, NoEntry
<1>5. ASSUME NEW l \in Lookups, Ask(l) PROVE CachesInv'
  BY <1>5 DEF Ask
<1>6. ASSUME NEW l \in Lookups, Query(l) PROVE CachesInv'
  <2>1. /\ lookup'[l].saw = row /\ lookup'[l].overtaken = lookup[l].overtaken
        /\ \A k \in Lookups \ {l} : lookup'[k] = lookup[k]
    BY <1>6 DEF Query
  <2>2. CachesTypeOK'
    BY <1>6 DEF Query
  <2>3. FromThePast' /\ StaleIsMarked' /\ FreshAfterInvalidate'
    BY <1>6, <2>1 DEF Query
  <2>4. QED  BY <2>2, <2>3
<1>7. ASSUME NEW l \in Lookups, Store(l) PROVE CachesInv'
  BY <1>7 DEF Store, StoreEntry, Idle
<1>8. ASSUME NEW l \in Lookups, LookupFails(l) PROVE CachesInv'
  BY <1>8 DEF LookupFails, Idle
<1>9. CASE UNCHANGED cachesVars
  BY <1>9 DEF cachesVars
<1>10. QED
  BY <1>1, <1>2, <1>3, <1>4, <1>5, <1>6, <1>7, <1>8, <1>9 DEF CachesNext

\* After an invalidation has arrived nothing older than it is cached, but the
\* answers it overtook, and in the settings cache (project-settings-cache.ts) not
\* even those, however lookups, changes and messages cross each other.
THEOREM CachesStayFresh == CachesSpec => []FreshAfterInvalidate
<1>1. CachesInv => FreshAfterInvalidate
  BY DEF CachesInv
<1>2. QED  BY <1>1, CachesInvInit, CachesInvStep, PTL DEF CachesSpec

-----------------------------------------------------------------------------
(***************************************************************************)
(* The AI worker.                                                          *)
(***************************************************************************)

\* A run that generates, hands on or is about to mark the task.
Working(c) == aiRun[c].pc \in {"generate", "handOn", "mark"}

\* The ticks a run has taken, at most.
Elapsed(c) == aiRun[c].generated * Timeout + aiRun[c].spent

\* The lease is sized for all of it: it outlasts the run that took it.
LeaseCovers ==
    \A c \in Consumers : Working(c) =>
        /\ ~aiDone
        /\ aiLease + Elapsed(c) >= LeaseTicks
        /\ IF aiRun[c].pc = "generate"
           THEN aiRun[c].generated < AskedPrompts /\ aiRun[c].spent <= Timeout
           ELSE aiRun[c].spent < Margin

WorksAlone == \A c, d \in Consumers : Working(c) /\ Working(d) => c = d

\* Every bill but one is explained by a run that failed; the one is the run at
\* work, or the one that finished.
PaidSoFar ==
    \A p \in 1..AskedPrompts :
        \/ billed[p] <= mishaps
        \/ /\ billed[p] <= mishaps + 1
           /\ aiDone \/ \E c \in Consumers : Working(c) /\ p <= aiRun[c].generated

HandedSoFar ==
    \/ tasks <= mishaps
    \/ tasks <= mishaps + 1 /\ (aiDone \/ \E c \in Consumers : aiRun[c].pc = "mark")

HandedBefore ==
    aiDone \/ (\E c \in Consumers : aiRun[c].pc \in {"mark", "ack"}) => tasks > 0

AiInv ==
    /\ AiTypeOK /\ LeaseCovers /\ WorksAlone
    /\ PaidSoFar /\ HandedSoFar /\ HandedBefore /\ Accounted

AiRuns == [pc : {"idle", "generate", "handOn", "mark", "ack"},
           generated : 0..AskedPrompts, spent : 0..(Timeout + Margin)]

LEMMA AskedFits ==
    /\ AskedPrompts \in Nat /\ AskedPrompts <= MaxPrompts /\ MaxPrompts \in Nat
    /\ Timeout \in Nat /\ Margin \in Nat /\ Margin > 0 /\ MaxRuns \in Nat
BY AiAssumption DEF AskedPrompts, Min2

LEMMA Times ==
    /\ \A g \in Nat : g * Timeout \in Nat /\ (g + 1) * Timeout = g * Timeout + Timeout
    /\ \A g \in Nat : g <= MaxPrompts => g * Timeout <= Timeout * MaxPrompts
    /\ LeaseTicks \in Nat /\ LeaseTicks = Timeout * MaxPrompts + Margin
    /\ Timeout * MaxPrompts \in Nat
<1>1. Timeout \in Nat /\ MaxPrompts \in Nat /\ Margin \in Nat
  BY AskedFits
<1>2. \A g, t \in Nat : g * t \in Nat /\ (g + 1) * t = g * t + t
  OBVIOUS
<1>3. \A g, m, t \in Nat : g <= m => g * t <= t * m
  <2>1. SUFFICES ASSUME NEW g \in Nat, NEW m \in Nat, NEW t \in Nat, g <= m PROVE g * t <= t * m
    OBVIOUS
  <2>2. PICK d \in Nat : m = g + d
    <3>1. m - g \in Nat /\ m = g + (m - g)
      BY <2>1
    <3>2. QED  BY <3>1
  <2>3. t * m = g * t + t * d /\ t * d \in Nat /\ g * t \in Nat
    BY <2>2
  <2>4. QED  BY <2>3
<1>4. QED  BY <1>1, <1>2, <1>3 DEF LeaseTicks

\* While a run works its lease has not run out.
LEMMA LeaseLasts == ASSUME AiInv, NEW c \in Consumers, Working(c) PROVE aiLease > 0
<1> DEFINE g == aiRun[c].generated
           s == aiRun[c].spent
<1>1. g \in Nat /\ s \in Nat /\ g <= AskedPrompts /\ aiLease \in Nat
  BY AskedFits DEF AiInv, AiTypeOK
<1>2. aiLease + g * Timeout + s >= LeaseTicks
  BY <1>1, Times DEF AiInv, LeaseCovers, Elapsed
<1>3. CASE aiRun[c].pc = "generate"
  <2>1. g < AskedPrompts /\ s <= Timeout
    BY <1>3 DEF AiInv, LeaseCovers
  <2>2. g + 1 \in Nat /\ g + 1 <= MaxPrompts
    BY <1>1, <2>1, AskedFits
  <2>3. g * Timeout + Timeout <= Timeout * MaxPrompts /\ g * Timeout \in Nat
    BY <1>1, <2>2, Times
  <2> DEFINE past == g * Timeout
             all  == Timeout * MaxPrompts
  <2>4. /\ past \in Nat /\ all \in Nat /\ past + Timeout <= all
        /\ LeaseTicks = all + Margin /\ aiLease + past + s >= LeaseTicks
    BY <1>2, <2>3, Times
  <2> HIDE DEF past, all
  <2>5. QED  BY <1>1, <2>1, <2>4, AskedFits
<1>4. CASE aiRun[c].pc # "generate"
  <2>1. s < Margin
    BY <1>4 DEF AiInv, LeaseCovers
  <2>a. g <= MaxPrompts
    BY <1>1, AskedFits
  <2>2. g * Timeout <= Timeout * MaxPrompts /\ g * Timeout \in Nat
    BY <1>1, <2>a, Times
  <2>3. QED  BY <1>1, <1>2, <2>1, <2>2, Times, AskedFits
<1>5. QED  BY <1>3, <1>4

LEMMA AiInvInit == AiInit => AiInv
<1> SUFFICES ASSUME AiInit PROVE AiInv
  OBVIOUS
<1>1. RunIdle \in AiRuns
  BY AskedFits DEF RunIdle, AiRuns
<1>2. AiTypeOK
  <2>1. aiRun \in [Consumers -> AiRuns]
    BY <1>1 DEF AiInit
  <2>2. runs \in 0..MaxRuns /\ aiLease \in 0..LeaseTicks
    BY AskedFits, Times DEF AiInit
  <2>3. /\ pendingAt = "stream" /\ aiDone = FALSE /\ tasks = 0 /\ toldFailures = 0 /\ mishaps = 0
        /\ billed \in [1..AskedPrompts -> Nat]
    BY DEF AiInit
  <2>4. {tasks, toldFailures, mishaps} \subseteq Nat
    BY <2>3
  <2>5. aiDone \in BOOLEAN /\ pendingAt \in {"stream", "acked", "dead"}
    BY <2>3, Zenon
  <2>6. QED  BY <2>1, <2>2, <2>3, <2>4, <2>5 DEF AiTypeOK, AiRuns
<1>3. QED
  BY <1>2 DEF AiInv, AiInit, LeaseCovers, WorksAlone, PaidSoFar, HandedSoFar, HandedBefore, Accounted,
     Working, RunIdle

\* What a step of one consumer does to the runs, and the lease it needs.
AiSteps(c, r) == aiRun'[c] = r /\ \A d \in Consumers : d # c => aiRun'[d] = aiRun[d]

LEMMA RunSteps ==
    ASSUME AiTypeOK, NEW c \in Consumers, NEW r, aiRun' = [aiRun EXCEPT ![c] = r]
    PROVE  AiSteps(c, r) /\ (r \in AiRuns => aiRun' \in [Consumers -> AiRuns])
BY DEF AiTypeOK, AiSteps, AiRuns

\* A run that ends without a trace but the mishaps it counts.
Stops(c) ==
    /\ aiRun[c].pc # "idle"
    /\ aiRun' = [aiRun EXCEPT ![c] = RunIdle]
    /\ aiDone' = aiDone /\ tasks' = tasks /\ runs' = runs
    /\ mishaps' = mishaps + 1
    /\ \/ billed' = billed
       \/ aiRun[c].pc = "generate" /\ billed' = [billed EXCEPT ![aiRun[c].generated + 1] = @ + 1]
    /\ \/ /\ aiLease' \in {0, aiLease} /\ (aiLease' # aiLease => Working(c))
          /\ UNCHANGED <<pendingAt, toldFailures>>
       \/ /\ Working(c)
          /\ aiLease' = 0 /\ pendingAt' = "acked" /\ toldFailures' = toldFailures + 1

LEMMA StopsAre ==
    ASSUME NEW c \in Consumers, GenerationFails(c) \/ AiCallFails(c) \/ AiCrash(c)
    PROVE  Stops(c)
BY DEF GenerationFails, AiCallFails, AiCrash, Stops, Working

LEMMA AiStops == ASSUME AiInv, NEW c \in Consumers, Stops(c) PROVE AiInv'
<1> DEFINE g == aiRun[c].generated
<1>1. AiSteps(c, RunIdle) /\ aiRun' \in [Consumers -> AiRuns]
  <2>1. RunIdle \in AiRuns
    BY AskedFits DEF RunIdle, AiRuns
  <2>2. QED  BY <2>1, RunSteps DEF AiInv, Stops
<1>2. aiRun'[c].pc = "idle" /\ ~Working(c)'
  BY <1>1 DEF AiSteps, RunIdle, Working
<1>3. \A d \in Consumers : d # c => (Working(d)' <=> Working(d)) /\ aiRun'[d] = aiRun[d]
  BY <1>1 DEF AiSteps, Working
<1>4. /\ runs \in 0..MaxRuns /\ aiLease \in 0..LeaseTicks /\ aiDone \in BOOLEAN
      /\ tasks \in Nat /\ toldFailures \in Nat /\ mishaps \in Nat
      /\ billed \in [1..AskedPrompts -> Nat] /\ g \in Nat
      /\ pendingAt \in {"stream", "acked", "dead"}
  BY AskedFits DEF AiInv, AiTypeOK
<1>5. aiRun[c].pc = "generate" => g + 1 \in 1..AskedPrompts
  BY <1>4, AskedFits DEF AiInv, LeaseCovers, Working
<1>6. \A p \in 1..AskedPrompts :
        /\ billed[p] \in Nat
        /\ billed'[p] = billed[p] \/ (billed'[p] = billed[p] + 1 /\ p = g + 1 /\ aiRun[c].pc = "generate")
  BY <1>4, <1>5 DEF Stops
<1>7. AiTypeOK'
  <2>1. billed' \in [1..AskedPrompts -> Nat]
    BY <1>4, <1>5 DEF Stops
  <2>2. aiLease' \in 0..LeaseTicks
    <3>1. aiLease' \in {0, aiLease}
      BY DEF Stops
    <3>2. LeaseTicks \in Nat
      BY Times
    <3>3. QED  BY <1>4, <3>1, <3>2
  <2>3. {tasks', toldFailures', mishaps'} \subseteq Nat /\ pendingAt' \in {"stream", "acked", "dead"}
    BY <1>4 DEF Stops
  <2>4. QED  BY <1>1, <1>4, <2>1, <2>2, <2>3 DEF Stops, AiTypeOK, AiRuns
<1>8. LeaseCovers'
  <2>1. SUFFICES ASSUME NEW d \in Consumers, Working(d)'
        PROVE  /\ ~aiDone' /\ aiLease' + Elapsed(d)' >= LeaseTicks
               /\ IF aiRun'[d].pc = "generate"
                  THEN aiRun'[d].generated < AskedPrompts /\ aiRun'[d].spent <= Timeout
                  ELSE aiRun'[d].spent < Margin
    BY DEF LeaseCovers
  <2>2. d # c /\ Working(d) /\ aiRun'[d] = aiRun[d]
    BY <1>2, <1>3, <2>1
  <2>3. ~Working(c)
    BY <2>2 DEF AiInv, WorksAlone
  <2>4. aiLease' = aiLease /\ aiDone' = aiDone
    BY <2>3 DEF Stops
  <2>5. QED  BY <2>2, <2>4 DEF AiInv, LeaseCovers, Elapsed
<1>9. WorksAlone'
  BY <1>2, <1>3 DEF AiInv, WorksAlone
<1>10. PaidSoFar'
  <2>1. mishaps' = mishaps + 1 /\ aiDone' = aiDone
    BY DEF Stops
  <2>2. SUFFICES ASSUME NEW p \in 1..AskedPrompts PROVE billed'[p] <= mishaps + 1
    BY <2>1 DEF PaidSoFar
  <2>3. CASE billed'[p] = billed[p]
    BY <1>4, <1>6, <2>3 DEF AiInv, PaidSoFar
  <2>4. CASE billed'[p] = billed[p] + 1 /\ p = g + 1 /\ aiRun[c].pc = "generate"
    <3>1. ~aiDone /\ \A d \in Consumers : Working(d) => d = c
      BY <2>4 DEF AiInv, LeaseCovers, WorksAlone, Working
    <3>2. ~(p <= g)
      BY <1>4, <2>4
    <3>3. billed[p] <= mishaps
      BY <3>1, <3>2 DEF AiInv, PaidSoFar
    <3>4. QED  BY <1>4, <1>6, <2>4, <3>3
  <2>5. QED  BY <1>6, <2>3, <2>4
<1>11. HandedSoFar'
  BY <1>4 DEF AiInv, HandedSoFar, Stops
<1>12. HandedBefore'
  BY <1>2, <1>3 DEF AiInv, HandedBefore, Stops
<1>13. Accounted'
  BY <1>4 DEF AiInv, Accounted, Stops
<1>14. QED  BY <1>7, <1>8, <1>9, <1>10, <1>11, <1>12, <1>13 DEF AiInv

LEMMA AiBegins == ASSUME AiInv, NEW c \in Consumers, AiBegin(c) PROVE AiInv'
<1>1. CASE aiDone
  <2>1. AiTypeOK'
    <3>1. runs' \in 0..MaxRuns
      BY <1>1, AskedFits DEF AiBegin, AiInv, AiTypeOK
    <3>2. QED  BY <1>1, <3>1 DEF AiBegin, AiInv, AiTypeOK
  <2>2. Accounted'
    BY <1>1 DEF AiBegin, AiInv, HandedBefore, Accounted, AiTypeOK
  <2>3. QED
    BY <1>1, <2>1, <2>2 DEF AiBegin, AiInv, LeaseCovers, WorksAlone, Working, Elapsed, PaidSoFar,
       HandedSoFar, HandedBefore
<1>2. CASE ~aiDone /\ aiLease > 0
  <2>1. AiTypeOK'
    <3>1. runs' \in 0..MaxRuns
      BY <1>2, AskedFits DEF AiBegin, AiInv, AiTypeOK
    <3>2. QED  BY <1>2, <3>1 DEF AiBegin, AiInv, AiTypeOK
  <2>2. UNCHANGED <<pendingAt, aiLease, aiRun, aiDone, tasks, toldFailures, billed, mishaps>>
    BY <1>2 DEF AiBegin
  <2>3. QED
    BY <2>1, <2>2 DEF AiInv, LeaseCovers, WorksAlone, Working, Elapsed, PaidSoFar, HandedSoFar,
       HandedBefore, Accounted
<1>3. CASE ~aiDone /\ aiLease = 0
  <2> DEFINE r == [RunIdle EXCEPT !.pc = IF AskedPrompts = 0 THEN "handOn" ELSE "generate"]
  <2>1. /\ runs < MaxRuns /\ runs' = runs + 1 /\ aiLease' = LeaseTicks
        /\ aiRun' = [aiRun EXCEPT ![c] = r]
        /\ UNCHANGED <<pendingAt, aiDone, tasks, toldFailures, billed, mishaps>>
    BY <1>3 DEF AiBegin
  <2>2. r \in AiRuns /\ r.generated = 0 /\ r.spent = 0
        /\ r.pc = IF AskedPrompts = 0 THEN "handOn" ELSE "generate"
    BY AskedFits DEF RunIdle, AiRuns
  <2>3. AiSteps(c, r) /\ aiRun' \in [Consumers -> AiRuns]
    BY <2>1, <2>2, RunSteps DEF AiInv
  <2>4. \A d \in Consumers : ~Working(d)
    BY <1>3, LeaseLasts
  <2>5. \A d \in Consumers : Working(d)' => d = c
    BY <2>3, <2>4 DEF AiSteps, Working
  <2>6. AiTypeOK'
    <3>1. runs' \in 0..MaxRuns
      BY <2>1, AskedFits DEF AiInv, AiTypeOK
    <3>2. aiLease' \in 0..LeaseTicks
      <4>1. LeaseTicks \in Nat
        BY Times
      <4>2. QED  BY <2>1, <4>1
    <3>3. QED  BY <2>1, <2>3, <3>1, <3>2 DEF AiInv, AiTypeOK, AiRuns
  <2>7. LeaseCovers'
    <3>1. ~aiDone' /\ aiRun'[c].generated = 0 /\ aiRun'[c].spent = 0 /\ aiLease' = LeaseTicks
          /\ (aiRun'[c].pc = "generate" => AskedPrompts # 0)
      BY <1>3, <2>1, <2>2, <2>3 DEF AiSteps
    <3>2. Elapsed(c)' = 0
      BY <3>1, AskedFits DEF Elapsed
    <3>3. LeaseTicks \in Nat /\ AskedPrompts \in Nat /\ Timeout \in Nat /\ Margin \in Nat /\ Margin > 0
      BY AskedFits, Times
    <3>4. IF aiRun'[c].pc = "generate"
          THEN aiRun'[c].generated < AskedPrompts /\ aiRun'[c].spent <= Timeout
          ELSE aiRun'[c].spent < Margin
      BY <3>1, <3>3
    <3>5. aiLease' + Elapsed(c)' >= LeaseTicks
      BY <3>1, <3>2, <3>3
    <3>6. QED  BY <2>5, <3>1, <3>4, <3>5 DEF LeaseCovers
  <2>8. WorksAlone'
    BY <2>5 DEF WorksAlone
  <2>9. PaidSoFar'
    <3>1. \A p \in 1..AskedPrompts : billed[p] <= mishaps
      BY <1>3, <2>4 DEF AiInv, PaidSoFar
    <3>2. QED  BY <2>1, <3>1 DEF PaidSoFar
  <2>10. HandedSoFar'
    BY <1>3, <2>1, <2>4 DEF AiInv, HandedSoFar, Working
  <2>11. HandedBefore' /\ Accounted'
    BY <1>3, <2>1, <2>2, <2>3 DEF AiInv, HandedBefore, Accounted, AiSteps
  <2>12. QED  BY <2>6, <2>7, <2>8, <2>9, <2>10, <2>11 DEF AiInv
<1>4. QED  BY <1>1, <1>2, <1>3 DEF AiBegin

LEMMA AiGenerates == ASSUME AiInv, NEW c \in Consumers, Generated(c) PROVE AiInv'
<1> DEFINE g == aiRun[c].generated
           n == g + 1
           r == [pc |-> IF n = AskedPrompts THEN "handOn" ELSE "generate",
                 generated |-> n, spent |-> 0]
<1>1. /\ aiRun[c].pc = "generate" /\ Working(c)
      /\ aiRun' = [aiRun EXCEPT ![c] = r] /\ billed' = [billed EXCEPT ![n] = @ + 1]
      /\ UNCHANGED <<pendingAt, runs, aiLease, aiDone, tasks, toldFailures, mishaps>>
  BY DEF Generated, Working
<1>2. /\ g \in Nat /\ n \in 1..AskedPrompts /\ aiRun[c].spent <= Timeout /\ aiRun[c].spent \in Nat
      /\ ~aiDone /\ aiLease \in Nat /\ aiLease + (g * Timeout + aiRun[c].spent) >= LeaseTicks
  BY <1>1, AskedFits DEF AiInv, AiTypeOK, LeaseCovers, Elapsed
<1>3. r \in AiRuns /\ r.pc \in {"handOn", "generate"}
  BY <1>2, AskedFits DEF AiRuns
<1>4. AiSteps(c, r) /\ aiRun' \in [Consumers -> AiRuns]
  BY <1>1, <1>3, RunSteps DEF AiInv
<1>5. \A d \in Consumers : Working(d) => d = c
  BY <1>1 DEF AiInv, WorksAlone
<1>6. Working(c)' /\ \A d \in Consumers : Working(d)' => d = c
  BY <1>3, <1>4, <1>5 DEF AiSteps, Working
<1>7. billed \in [1..AskedPrompts -> Nat] /\ mishaps \in Nat
  BY DEF AiInv, AiTypeOK
<1>8. AiTypeOK'
  BY <1>1, <1>2, <1>4, <1>7 DEF AiInv, AiTypeOK, AiRuns
<1>9. LeaseCovers'
  <2>1. aiRun'[c].generated = n /\ aiRun'[c].spent = 0
        /\ (aiRun'[c].pc = "generate" => n # AskedPrompts)
    BY <1>4 DEF AiSteps
  <2>2. Elapsed(c)' = n * Timeout + 0
    BY <2>1 DEF Elapsed
  <2>3. n * Timeout = g * Timeout + Timeout /\ g * Timeout \in Nat /\ LeaseTicks \in Nat
    BY <1>2, Times
  <2>4. aiLease' + Elapsed(c)' >= LeaseTicks
    BY <1>1, <1>2, <2>2, <2>3, AskedFits
  <2>5. aiRun'[c].pc = "generate" => n < AskedPrompts
    <3>1. n \in Nat /\ n <= AskedPrompts /\ AskedPrompts \in Nat
      BY <1>2, AskedFits
    <3> HIDE DEF n
    <3>2. QED  BY <2>1, <3>1
  <2>6. QED  BY <1>1, <1>2, <1>6, <2>1, <2>4, <2>5, AskedFits DEF LeaseCovers
<1>10. WorksAlone'
  BY <1>6 DEF WorksAlone
<1>11. PaidSoFar'
  <2>1. SUFFICES ASSUME NEW p \in 1..AskedPrompts
                 PROVE  \/ billed'[p] <= mishaps
                        \/ billed'[p] <= mishaps + 1 /\ p <= aiRun'[c].generated
    BY <1>1, <1>6 DEF PaidSoFar
  <2>2. aiRun'[c].generated = n
    BY <1>4 DEF AiSteps
  <2>3. billed[p] <= mishaps \/ (billed[p] <= mishaps + 1 /\ p <= g)
    BY <1>2, <1>5 DEF AiInv, PaidSoFar
  <2>4. CASE p = n
    BY <1>1, <1>2, <1>7, <2>2, <2>3, <2>4
  <2>5. CASE p # n
    <3>1. billed'[p] = billed[p]
      BY <1>1, <1>7, <2>5
    <3>2. QED  BY <1>2, <2>2, <2>3, <3>1
  <2>6. QED  BY <2>4, <2>5
<1>12. HandedSoFar' /\ HandedBefore' /\ Accounted'
  <2>1. ~\E d \in Consumers : aiRun[d].pc = "mark"
    BY <1>1, <1>5 DEF Working
  <2>2. QED
    BY <1>1, <1>2, <1>3, <1>4, <2>1 DEF AiInv, HandedSoFar, HandedBefore, Accounted, AiSteps
<1>13. QED  BY <1>8, <1>9, <1>10, <1>11, <1>12 DEF AiInv

LEMMA AiRest ==
    ASSUME AiInv, NEW c \in Consumers, HandOn(c) \/ MarkTask(c) \/ AiAck(c)
    PROVE  AiInv'
<1>1. /\ aiRun[c] \in AiRuns /\ aiRun \in [Consumers -> AiRuns]
      /\ tasks \in Nat /\ mishaps \in Nat /\ LeaseTicks \in Nat
  BY Times DEF AiInv, AiTypeOK, AiRuns
<1>2. CASE HandOn(c)
  <2> DEFINE r == [aiRun[c] EXCEPT !.pc = "mark"]
  <2>1. /\ aiRun[c].pc = "handOn" /\ Working(c) /\ tasks' = tasks + 1
        /\ aiRun' = [aiRun EXCEPT ![c] = r]
        /\ UNCHANGED <<pendingAt, runs, aiLease, aiDone, toldFailures, billed, mishaps>>
    BY <1>2 DEF HandOn, Working
  <2>2. r \in AiRuns /\ r.pc = "mark" /\ r.generated = aiRun[c].generated /\ r.spent = aiRun[c].spent
    BY <1>1 DEF AiRuns
  <2>3. AiSteps(c, r) /\ aiRun' \in [Consumers -> AiRuns]
    BY <2>1, <2>2, RunSteps DEF AiInv
  <2>4. \A d \in Consumers : (Working(d) => d = c) /\ (Working(d)' <=> Working(d))
    BY <2>1, <2>2, <2>3 DEF AiInv, WorksAlone, AiSteps, Working
  <2>5. \A d \in Consumers : aiRun'[d].generated = aiRun[d].generated /\ aiRun'[d].spent = aiRun[d].spent
    BY <2>2, <2>3 DEF AiSteps
  <2>6. AiTypeOK'
    BY <1>1, <2>1, <2>3 DEF AiInv, AiTypeOK, AiRuns
  <2>7. LeaseCovers'
    BY <2>1, <2>2, <2>3, <2>4, <2>5 DEF AiInv, LeaseCovers, Elapsed, AiSteps
  <2>8. WorksAlone'
    BY <2>4 DEF AiInv, WorksAlone
  <2>9. PaidSoFar'
    BY <2>1, <2>4, <2>5 DEF AiInv, PaidSoFar
  <2>10. HandedSoFar'
    <3>1. ~aiDone /\ \A d \in Consumers : aiRun[d].pc # "mark"
      BY <2>1, <2>4 DEF AiInv, LeaseCovers, Working
    <3>2. tasks <= mishaps
      BY <3>1 DEF AiInv, HandedSoFar
    <3>3. QED  BY <1>1, <2>1, <2>2, <2>3, <3>2 DEF HandedSoFar, AiSteps
  <2>11. HandedBefore' /\ Accounted'
    BY <1>1, <2>1 DEF HandedBefore, Accounted
  <2>12. QED  BY <2>6, <2>7, <2>8, <2>9, <2>10, <2>11 DEF AiInv
<1>3. CASE MarkTask(c)
  <2> DEFINE r == [aiRun[c] EXCEPT !.pc = "ack"]
  <2>1. /\ aiRun[c].pc = "mark" /\ Working(c) /\ aiDone' /\ aiLease' = 0
        /\ aiRun' = [aiRun EXCEPT ![c] = r]
        /\ UNCHANGED <<pendingAt, runs, tasks, toldFailures, billed, mishaps>>
    BY <1>3 DEF MarkTask, Working
  <2>2. r \in AiRuns /\ r.pc = "ack"
    BY <1>1 DEF AiRuns
  <2>3. AiSteps(c, r) /\ aiRun' \in [Consumers -> AiRuns]
    BY <2>1, <2>2, RunSteps DEF AiInv
  <2>4. \A d \in Consumers : ~Working(d)'
    BY <2>1, <2>2, <2>3 DEF AiInv, WorksAlone, AiSteps, Working
  <2>5. AiTypeOK'
    <3>1. aiLease' \in 0..LeaseTicks
      BY <1>1, <2>1
    <3>2. aiDone' \in BOOLEAN
      BY <1>3 DEF MarkTask
    <3>3. QED  BY <2>1, <2>3, <3>1, <3>2 DEF AiInv, AiTypeOK, AiRuns
  <2>6. LeaseCovers' /\ WorksAlone'
    BY <2>4 DEF LeaseCovers, WorksAlone
  <2>7. PaidSoFar' /\ HandedSoFar'
    BY <2>1 DEF AiInv, PaidSoFar, HandedSoFar
  <2>8. HandedBefore' /\ Accounted'
    BY <2>1 DEF AiInv, HandedBefore, Accounted
  <2>9. QED  BY <2>5, <2>6, <2>7, <2>8 DEF AiInv
<1>4. CASE AiAck(c)
  <2>1. /\ aiRun[c].pc = "ack" /\ aiRun' = [aiRun EXCEPT ![c] = RunIdle]
        /\ pendingAt' \in {"acked", "dead"}
        /\ UNCHANGED <<runs, aiLease, aiDone, tasks, toldFailures, billed, mishaps>>
    BY <1>4 DEF AiAck
  <2>2. RunIdle \in AiRuns /\ RunIdle.pc = "idle"
    BY AskedFits DEF RunIdle, AiRuns
  <2>3. AiSteps(c, RunIdle) /\ aiRun' \in [Consumers -> AiRuns]
    BY <2>1, <2>2, RunSteps DEF AiInv
  <2>4. \A d \in Consumers : (Working(d)' <=> Working(d)) /\ (Working(d) => aiRun'[d] = aiRun[d])
    BY <2>1, <2>2, <2>3 DEF AiSteps, Working
  <2>5. AiTypeOK'
    BY <2>1, <2>3 DEF AiInv, AiTypeOK, AiRuns
  <2>6. LeaseCovers' /\ WorksAlone'
    BY <2>1, <2>4 DEF AiInv, LeaseCovers, WorksAlone, Elapsed
  <2>7. PaidSoFar' /\ HandedSoFar'
    BY <2>1, <2>4 DEF AiInv, PaidSoFar, HandedSoFar, Working
  <2>8. HandedBefore' /\ Accounted'
    BY <2>1 DEF AiInv, HandedBefore, Accounted
  <2>9. QED  BY <2>5, <2>6, <2>7, <2>8 DEF AiInv
<1>5. QED  BY <1>2, <1>3, <1>4

LEMMA AiTicks == ASSUME AiInv, AiTick PROVE AiInv'
<1>1. /\ aiLease > 0 /\ aiLease' = aiLease - 1 /\ aiLease \in 0..LeaseTicks /\ LeaseTicks \in Nat
      /\ UNCHANGED <<pendingAt, runs, aiDone, tasks, toldFailures, billed, mishaps>>
  BY Times DEF AiTick, AiInv, AiTypeOK
<1>2. aiRun \in [Consumers -> AiRuns]
  BY DEF AiInv, AiTypeOK, AiRuns
<1>3. ASSUME NEW c \in Consumers
      PROVE  /\ aiRun'[c] \in AiRuns
             /\ aiRun'[c].pc = aiRun[c].pc /\ aiRun'[c].generated = aiRun[c].generated
             /\ aiRun[c].pc # "idle" =>
                   /\ aiRun'[c].spent = aiRun[c].spent + 1
                   /\ aiRun[c].spent < IF aiRun[c].pc = "generate" THEN Timeout ELSE Margin - 1
  <2>1. CASE aiRun[c].pc = "idle"
    <3>1. aiRun'[c] = aiRun[c]
      BY <2>1 DEF AiTick
    <3>2. QED  BY <1>2, <2>1, <3>1
  <2>2. CASE aiRun[c].pc # "idle"
    <3>1. aiRun'[c] = [aiRun[c] EXCEPT !.spent = @ + 1]
      BY <2>2 DEF AiTick
    <3>2. aiRun[c].spent < IF aiRun[c].pc = "generate" THEN Timeout ELSE Margin - 1
      BY <2>2 DEF AiTick
    <3>3. aiRun[c].spent \in Nat
      BY <1>2 DEF AiRuns
    <3>4. aiRun[c].spent + 1 \in 0..(Timeout + Margin)
      BY <3>2, <3>3, AskedFits
    <3>5. QED  BY <1>2, <3>1, <3>2, <3>4 DEF AiRuns
  <2>3. QED  BY <2>1, <2>2
<1>4. AiTypeOK'
  <2>1. aiRun' \in [Consumers -> AiRuns]
    BY <1>3 DEF AiTick
  <2>2. aiLease' \in 0..LeaseTicks
    BY <1>1
  <2>3. QED  BY <1>1, <2>1, <2>2 DEF AiInv, AiTypeOK, AiRuns
<1>5. \A c \in Consumers : Working(c)' <=> Working(c)
  BY <1>3 DEF Working
<1>6. LeaseCovers'
  <2>1. SUFFICES ASSUME NEW c \in Consumers, Working(c)
                 PROVE  /\ ~aiDone /\ aiLease' + Elapsed(c)' >= LeaseTicks
                        /\ IF aiRun'[c].pc = "generate"
                           THEN aiRun'[c].generated < AskedPrompts /\ aiRun'[c].spent <= Timeout
                           ELSE aiRun'[c].spent < Margin
    BY <1>1, <1>5 DEF LeaseCovers
  <2>2. /\ aiRun[c].pc # "idle" /\ ~aiDone /\ aiLease + Elapsed(c) >= LeaseTicks
        /\ aiRun[c].pc = "generate" => aiRun[c].generated < AskedPrompts
    BY <2>1 DEF AiInv, LeaseCovers, Working
  <2>3. aiRun[c].generated \in Nat /\ aiRun[c].spent \in Nat
    BY <1>2 DEF AiRuns
  <2>4. aiRun[c].generated * Timeout \in Nat
    BY <2>3, Times
  <2>5. Elapsed(c)' = aiRun[c].generated * Timeout + (aiRun[c].spent + 1)
    BY <1>3, <2>2 DEF Elapsed
  <2>6. aiLease' + Elapsed(c)' >= LeaseTicks
    BY <1>1, <2>2, <2>3, <2>4, <2>5 DEF Elapsed
  <2>7. IF aiRun'[c].pc = "generate"
        THEN aiRun'[c].generated < AskedPrompts /\ aiRun'[c].spent <= Timeout
        ELSE aiRun'[c].spent < Margin
    BY <1>3, <2>2, <2>3, AskedFits
  <2>8. QED  BY <2>2, <2>6, <2>7
<1>7. WorksAlone'
  BY <1>5 DEF AiInv, WorksAlone
<1>8. PaidSoFar' /\ HandedSoFar' /\ HandedBefore' /\ Accounted'
  BY <1>1, <1>3, <1>5 DEF AiInv, PaidSoFar, HandedSoFar, HandedBefore, Accounted
<1>9. QED  BY <1>4, <1>6, <1>7, <1>8 DEF AiInv

LEMMA AiInvStep == AiInv /\ [AiNext]_aiVars => AiInv'
<1> SUFFICES ASSUME AiInv, [AiNext]_aiVars PROVE AiInv'
  OBVIOUS
<1>1. CASE AiGiveUp
  <2>1. pendingAt' = "dead" /\ UNCHANGED <<runs, aiLease, aiDone, aiRun, tasks, toldFailures, billed, mishaps>>
    BY <1>1 DEF AiGiveUp
  <2>2. QED
    BY <2>1 DEF AiInv, AiTypeOK, LeaseCovers, WorksAlone, Working, Elapsed, PaidSoFar, HandedSoFar,
       HandedBefore, Accounted
<1>2. CASE UNCHANGED aiVars
  BY <1>2 DEF aiVars, AiInv, AiTypeOK, LeaseCovers, WorksAlone, Working, Elapsed, PaidSoFar, HandedSoFar,
     HandedBefore, Accounted
<1>3. QED
  BY <1>1, <1>2, AiTicks, AiBegins, AiGenerates, AiRest, AiStops, StopsAre DEF AiNext

\* No prompt is billed twice and no task handed on twice but for a run that
\* failed, and no message is acknowledged in silence (ai/main.ts:136-142, 253):
\* the lease outlasts every generation, for any timeout and number of prompts.
THEOREM AiPaidAndAccounted == AiSpec => []PaidAndAccounted
<1>1. AiInv => PaidAndAccounted
  <2> SUFFICES ASSUME AiInv PROVE PaidAndAccounted
    OBVIOUS
  <2>1. tasks \in Nat /\ mishaps \in Nat /\ \A p \in 1..AskedPrompts : billed[p] \in Nat
    BY DEF AiInv, AiTypeOK
  <2>2. \A p \in 1..AskedPrompts : billed[p] <= 1 + mishaps
    BY <2>1 DEF AiInv, PaidSoFar
  <2>3. tasks <= 1 + mishaps
    BY <2>1 DEF AiInv, HandedSoFar
  <2>4. QED  BY <2>2, <2>3 DEF AiInv, PaidAndAccounted, PaidOnce
<1>2. QED  BY <1>1, AiInvInit, AiInvStep, PTL DEF AiSpec

-----------------------------------------------------------------------------
(***************************************************************************)
(* The live event stream.                                                  *)
(***************************************************************************)

Subscribe == <<"SUBSCRIBE">>
Unsubscribe == <<"UNSUBSCRIBE">>
Again == <<"UNSUBSCRIBE", "SUBSCRIBE">>

\* Clients that wait for the subscription keep it from being ended.
SomeoneWaits == \E c \in Clients : client[c] \in {"listening", "left"}

\* The subscription that is on its way is the last command, and only the last
\* listener's leaving can be one.
CommandsFit ==
    /\ commands \in {<< >>, Subscribe, Unsubscribe, Again}
    /\ commands \in {Subscribe, Again} <=> promise = "subscribing"
    /\ commands = Unsubscribe => Listeners = {} /\ promise = "none"
    /\ promise \in {"subscribing", "waking"} => SomeoneWaits
    /\ promise = "settled" => Listeners # {}

\* Between commands, who listens is heard unless the subscription failed.
Heard == commands = << >> /\ Listeners # {} => connected \/ failedSub

LiveTypes ==
    /\ client \in [Clients -> {"idle", "listening", "left", "open", "closed"}]
    /\ promise \in {"none", "subscribing", "waking", "settled"}
    /\ wanted \in Nat

LiveInv == LiveTypes /\ CommandsFit /\ Heard /\ NotQuiet

LEMMA CommandShapes ==
    /\ Subscribe # << >> /\ Unsubscribe # << >> /\ Again # << >>
    /\ Subscribe # Unsubscribe /\ Subscribe # Again /\ Unsubscribe # Again
    /\ Head(Subscribe) = "SUBSCRIBE" /\ Head(Unsubscribe) = "UNSUBSCRIBE"
    /\ Head(Again) = "UNSUBSCRIBE"
    /\ Tail(Subscribe) = << >> /\ Tail(Unsubscribe) = << >> /\ Tail(Again) = Subscribe
    /\ Append(<< >>, "SUBSCRIBE") = Subscribe /\ Append(<< >>, "UNSUBSCRIBE") = Unsubscribe
    /\ Append(Unsubscribe, "SUBSCRIBE") = Again
    /\ Subscribe[Len(Subscribe)] = "SUBSCRIBE" /\ Again[Len(Again)] = "SUBSCRIBE"
<1>1. Len(Subscribe) = 1 /\ Len(Unsubscribe) = 1 /\ Len(Again) = 2
  BY DEF Subscribe, Unsubscribe, Again
<1>2. Subscribe # << >> /\ Unsubscribe # << >> /\ Again # << >>
  BY <1>1
<1>3. /\ Subscribe[1] = "SUBSCRIBE" /\ Unsubscribe[1] = "UNSUBSCRIBE"
      /\ Again[1] = "UNSUBSCRIBE" /\ Again[2] = "SUBSCRIBE"
  BY DEF Subscribe, Unsubscribe, Again
<1>4. Subscribe # Unsubscribe /\ Subscribe # Again /\ Unsubscribe # Again
  BY <1>1, <1>3
<1>5. Head(Subscribe) = "SUBSCRIBE" /\ Head(Unsubscribe) = "UNSUBSCRIBE" /\ Head(Again) = "UNSUBSCRIBE"
  BY DEF Subscribe, Unsubscribe, Again
<1>6. Tail(Subscribe) = << >> /\ Tail(Unsubscribe) = << >> /\ Tail(Again) = Subscribe
  BY DEF Subscribe, Unsubscribe, Again
<1>7. /\ Append(<< >>, "SUBSCRIBE") = Subscribe /\ Append(<< >>, "UNSUBSCRIBE") = Unsubscribe
      /\ Append(Unsubscribe, "SUBSCRIBE") = Again
  <2> DEFINE C == {"SUBSCRIBE", "UNSUBSCRIBE"}
  <2>1. Append(<< >>, "SUBSCRIBE") = Subscribe /\ Append(<< >>, "UNSUBSCRIBE") = Unsubscribe
    BY DEF Subscribe, Unsubscribe
  <2>2. Unsubscribe \in Seq(C) /\ Again \in Seq(C) /\ "SUBSCRIBE" \in C
    BY DEF Unsubscribe, Again
  <2>3. Append(Unsubscribe, "SUBSCRIBE") \in Seq(C)
    BY <2>2
  <2>4. /\ Len(Append(Unsubscribe, "SUBSCRIBE")) = 2
        /\ Append(Unsubscribe, "SUBSCRIBE")[1] = "UNSUBSCRIBE"
        /\ Append(Unsubscribe, "SUBSCRIBE")[2] = "SUBSCRIBE"
    BY <1>1, <1>3, <2>2, AppendProperties
  <2>5. Append(Unsubscribe, "SUBSCRIBE") = Again
    BY <1>1, <1>3, <2>2, <2>3, <2>4, SeqEqual
  <2>6. QED  BY <2>1, <2>5
<1>8. QED  BY <1>1, <1>2, <1>3, <1>4, <1>5, <1>6, <1>7

LEMMA LiveInvInit == LiveStreamInit => LiveInv
BY CommandShapes DEF LiveStreamInit, LiveInv, LiveTypes, CommandsFit, Heard, NotQuiet, Listeners

\* One client changes: who listens afterwards.
LEMMA ClientChanges ==
    ASSUME LiveTypes, NEW c \in Clients, NEW to, client' = [client EXCEPT ![c] = to]
    PROVE  /\ client'[c] = to /\ \A d \in Clients : d # c => client'[d] = client[d]
           /\ to \in {"listening", "left", "open"} => Listeners' = Listeners \cup {c}
           /\ to = "closed" => Listeners' = Listeners \ {c}
<1>1. client'[c] = to /\ \A d \in Clients : d # c => client'[d] = client[d]
  BY DEF LiveTypes
<1>2. QED  BY <1>1 DEF Listeners

LEMMA ClientListens == ASSUME LiveInv, NEW c \in Clients, Listen(c) PROVE LiveInv'
<1>1. /\ client[c] = "idle" /\ client' = [client EXCEPT ![c] = "listening"]
      /\ UNCHANGED <<connected, failedSub, quiet, replies, wanted, outcomes, crossed>>
  BY DEF Listen, deliverySide
<1>2. Listeners' = Listeners \cup {c} /\ SomeoneWaits'
  BY <1>1, ClientChanges DEF LiveInv, SomeoneWaits
<1>3. LiveTypes'
  BY <1>1 DEF Listen, LiveInv, LiveTypes
<1>4. CASE promise = "none"
  <2>1. promise' = "subscribing" /\ commands' = Append(commands, "SUBSCRIBE")
    BY <1>4 DEF Listen
  <2>2. commands \in {<< >>, Unsubscribe}
    BY <1>4 DEF LiveInv, CommandsFit
  <2>3. commands' \in {Subscribe, Again}
    BY <2>1, <2>2, CommandShapes
  <2>4. QED  BY <1>2, <1>3, <2>1, <2>3, CommandShapes DEF LiveInv, CommandsFit, Heard, NotQuiet
<1>5. CASE promise # "none"
  <2>1. UNCHANGED <<promise, commands>> /\ Listeners # {}
    BY <1>5 DEF Listen, LiveInv, CommandsFit, LiveTypes, SomeoneWaits, Listeners
  <2>2. QED  BY <1>1, <1>2, <1>3, <1>5, <2>1 DEF LiveInv, CommandsFit, Heard, NotQuiet
<1>6. QED  BY <1>4, <1>5

LEMMA ClientGoesOn == 
    ASSUME LiveInv, NEW c \in Clients, NEW to \in {"open", "left"},
           \/ client[c] = "listening" /\ (to = "open" => promise \in {"settled", "none"}),
           client' = [client EXCEPT ![c] = to],
           UNCHANGED <<promise, commands, connected, failedSub, quiet, wanted, crossed>>
    PROVE  LiveInv'
<1>1. Listeners' = Listeners
  BY ClientChanges DEF LiveInv, Listeners
<1>2. LiveTypes'
  BY DEF LiveInv, LiveTypes
<1>3. promise \in {"subscribing", "waking"} => SomeoneWaits'
  <2>1. client'[c] = to
    BY ClientChanges DEF LiveInv
  <2>2. QED  BY <2>1 DEF SomeoneWaits
<1>4. QED  BY <1>1, <1>2, <1>3 DEF LiveInv, CommandsFit, Heard, NotQuiet

\* A client leaves; if it was the last, nobody waits for the subscription.
LEMMA ClientLeaves ==
    ASSUME LiveInv, NEW c \in Clients, client[c] = "open" \/ promise \in {"settled", "none"},
           client[c] \in {"open", "left"}, Unlisten(c, "closed"),
           UNCHANGED <<connected, failedSub, quiet, wanted, crossed>>
    PROVE  LiveInv'
<1>1. client' = [client EXCEPT ![c] = "closed"]
  BY DEF Unlisten
<1>2. /\ Listeners' = Listeners \ {c} /\ c \in Listeners /\ client'[c] = "closed"
      /\ \A d \in Clients : d # c => client'[d] = client[d]
  BY <1>1, ClientChanges DEF LiveInv, Listeners
<1>3. LiveTypes'
  BY <1>1 DEF Unlisten, LiveInv, LiveTypes
<1>4. CASE Listeners = {c}
  <2>1. promise' = "none" /\ commands' = Append(commands, "UNSUBSCRIBE") /\ Listeners' = {}
    BY <1>2, <1>4 DEF Unlisten
  <2>2. promise \notin {"subscribing", "waking"}
    BY <1>4 DEF LiveInv, CommandsFit, SomeoneWaits, Listeners
  <2>3. commands = << >>
    BY <1>4, <2>2 DEF LiveInv, CommandsFit
  <2>4. commands' = Unsubscribe
    BY <2>1, <2>3, CommandShapes
  <2>5. QED  BY <1>3, <2>1, <2>4, CommandShapes DEF LiveInv, CommandsFit, Heard, NotQuiet
<1>5. CASE Listeners # {c}
  <2>1. UNCHANGED <<promise, commands>> /\ Listeners' # {}
    BY <1>2, <1>5 DEF Unlisten
  <2>2. promise \in {"subscribing", "waking"} => SomeoneWaits'
    BY <1>2 DEF LiveInv, CommandsFit, SomeoneWaits
  <2>3. QED
    BY <1>2, <1>3, <2>1, <2>2 DEF LiveInv, CommandsFit, Heard, NotQuiet
<1>6. QED  BY <1>4, <1>5

LEMMA Connects == ASSUME LiveInv, RunCommand \/ SubscribeFails PROVE LiveInv'
<1>1. UNCHANGED <<client, quiet, wanted, crossed>> /\ Listeners' = Listeners /\ (SomeoneWaits' <=> SomeoneWaits)
  BY DEF RunCommand, SubscribeFails, deliverySide, Listeners, SomeoneWaits
<1>2. LiveTypes'
  BY <1>1 DEF RunCommand, SubscribeFails, LiveInv, LiveTypes
<1>3. commands \in {Subscribe, Unsubscribe, Again} /\ commands' = Tail(commands)
  BY DEF RunCommand, SubscribeFails, LiveInv, CommandsFit
<1>4. CASE commands = Subscribe
  <2>1. /\ commands' = << >> /\ promise' \in {"waking", "none"} /\ SomeoneWaits
        /\ connected' \/ failedSub'
    BY <1>3, <1>4, CommandShapes DEF RunCommand, SubscribeFails, LiveInv, CommandsFit
  <2>2. QED  BY <1>1, <1>2, <2>1, CommandShapes DEF LiveInv, CommandsFit, Heard, NotQuiet
<1>5. CASE commands = Unsubscribe
  <2>1. commands' = << >> /\ UNCHANGED promise /\ Listeners = {} /\ promise = "none"
    BY <1>3, <1>5, CommandShapes DEF RunCommand, SubscribeFails, LiveInv, CommandsFit
  <2>2. QED  BY <1>1, <1>2, <2>1, CommandShapes DEF LiveInv, CommandsFit, Heard, NotQuiet
<1>6. CASE commands = Again
  <2>1. commands' = Subscribe /\ UNCHANGED promise /\ promise = "subscribing"
    BY <1>3, <1>6, CommandShapes DEF RunCommand, SubscribeFails, LiveInv, CommandsFit
  <2>2. QED  BY <1>1, <1>2, <2>1, CommandShapes DEF LiveInv, CommandsFit, Heard, NotQuiet
<1>7. QED  BY <1>3, <1>4, <1>5, <1>6

LEMMA LiveInvStep == LiveInv /\ [LiveStreamNext]_liveStreamVars => LiveInv'
<1> SUFFICES ASSUME LiveInv, [LiveStreamNext]_liveStreamVars PROVE LiveInv'
  OBVIOUS
<1> USE DEF deliverySide
<1>1. ASSUME NEW c \in Clients, Listening(c) \/ Close(c) PROVE LiveInv'
  <2>1. CASE client[c] = "listening"
    <3>1. PICK to \in {"open", "left"} :
             client' = [client EXCEPT ![c] = to] /\ (to = "open" => promise \in {"settled", "none"})
      BY <1>1, <2>1 DEF Listening, Close
    <3>2. UNCHANGED <<promise, commands, connected, failedSub, quiet, wanted, crossed>>
      BY <1>1, <2>1 DEF Listening, Close
    <3>3. QED  BY <2>1, <3>1, <3>2, ClientGoesOn
  <2>2. CASE client[c] # "listening"
    BY <1>1, <2>2, ClientLeaves DEF Listening, Close
  <2>3. QED  BY <2>1, <2>2
<1>2. CASE Wake \/ WakeFails
  <2>1. UNCHANGED <<client, commands, connected, failedSub, quiet, crossed>>
        /\ promise = "waking" /\ Listeners' = Listeners
    BY <1>2 DEF Wake, WakeFails, Listeners
  <2>2. commands = << >> /\ Listeners # {}
    BY <2>1 DEF LiveInv, CommandsFit, SomeoneWaits, Listeners
  <2>3. \/ promise' = "settled" /\ wanted' = wanted + 1
        \/ promise' = "none" /\ wanted' = wanted
    BY <1>2 DEF Wake, WakeFails
  <2>4. wanted \in Nat
    BY DEF LiveInv, LiveTypes
  <2>5. QED
    BY <2>1, <2>2, <2>3, <2>4, CommandShapes DEF LiveInv, LiveTypes, CommandsFit, Heard, NotQuiet
<1>3. CASE Emit \/ Reply \/ Woken \/ QuietEnds
  <2>1. UNCHANGED <<client, promise, commands, connected, failedSub>>
        /\ Listeners' = Listeners /\ (SomeoneWaits' <=> SomeoneWaits)
    BY <1>3 DEF Emit, Reply, Woken, QuietEnds, Listeners, SomeoneWaits
  <2>2. wanted' \in Nat /\ (quiet' /\ connected => wanted' = wanted /\ (crossed' \/ (quiet /\ crossed' = crossed)))
    BY <1>3 DEF Emit, Reply, Woken, QuietEnds, LiveInv, LiveTypes
  <2>3. QED
    BY <2>1, <2>2 DEF LiveInv, LiveTypes, CommandsFit, Heard, NotQuiet
<1>4. CASE UNCHANGED liveStreamVars
  BY <1>4 DEF liveStreamVars, LiveInv, LiveTypes, CommandsFit, Heard, NotQuiet, Listeners, SomeoneWaits
<1>5. QED  BY <1>1, <1>2, <1>3, <1>4, ClientListens, Connects DEF LiveStreamNext

\* Whoever watches the live stream sees the outcomes: the subscription lasts as
\* long as a stream is open (api/live-events.ts:36-40) and delivery is not quiet
\* beside it but for the crossing named there, for any number of clients.
THEOREM StreamsStayFed == LiveStreamSpec => []StreamsAreFed
<1>1. LiveInv => StreamsAreFed
  <2> SUFFICES ASSUME LiveInv PROVE StreamsAreFed
    OBVIOUS
  <2>1. ASSUME NEW c \in Clients, client[c] = "open", ~failedSub
        PROVE  IF commands = << >> THEN connected ELSE commands[Len(commands)] = "SUBSCRIBE"
    <3>1. Listeners # {}
      BY <2>1 DEF Listeners
    <3>2. commands = << >> => connected
      BY <2>1, <3>1 DEF LiveInv, Heard
    <3>3. commands # << >> => commands \in {Subscribe, Again}
      BY <3>1 DEF LiveInv, CommandsFit
    <3>4. QED  BY <3>2, <3>3, CommandShapes
  <2>2. QED  BY <2>1 DEF StreamsAreFed, OpenIsHeard, LiveInv
<1>2. QED  BY <1>1, LiveInvInit, LiveInvStep, PTL DEF LiveStreamSpec

(***************************************************************************)
(* How the transports read their providers' answers.                       *)
(***************************************************************************)

\* What send() can make of an answer that is no acceptance.
SendAgain   == Failed(TRUE, FALSE)
GiveUp      == Failed(FALSE, FALSE)
DeadAddress == Failed(FALSE, TRUE)
DeadButAgain == Failed(TRUE, TRUE)

BadMoment(t) == Busy(t) \cup {Lost}

\* A transport repeats what failed for the moment, and what it gives up or calls
\* dead was no bad moment.
Judges(t) ==
    /\ \A r \in BadMoment(t) : Verdict(t, r) = SendAgain
    /\ Verdict(t, Accepts(t)) = Sent /\ Accepts(t) \notin BadMoment(t)
    /\ \A r \in Unsound(t) \cup Dead(t) :
          Verdict(t, r) \in {GiveUp, DeadAddress} /\ r \notin BadMoment(t)
    /\ \A r \in Unsound(t) : Verdict(t, r) = GiveUp \/ r.code \in Ambiguous
    /\ t = "twilio" => \A r \in {AnswerOf(400, "21610")} :
          Verdict(t, r) \in {GiveUp, DeadAddress} /\ r \notin BadMoment(t)

LEMMA AnswerFields ==
    /\ \A s, c : AnswerOf(s, c).status = s /\ AnswerOf(s, c).code = c
    /\ Lost = AnswerOf(0, "none")
BY DEF AnswerOf, Lost

LEMMA FailedBy ==
    ASSUME NEW P \in BOOLEAN, NEW Q \in BOOLEAN
    PROVE  Failed(P, Q) = IF Q THEN IF P THEN DeadButAgain ELSE DeadAddress
                          ELSE IF P THEN SendAgain ELSE GiveUp
<1>1. (P = TRUE \/ P = FALSE) /\ (Q = TRUE \/ Q = FALSE)
  OBVIOUS
<1> QED
  BY <1>1, Zenon DEF SendAgain, GiveUp, DeadAddress, DeadButAgain

LEMMA ResendJudges == Judges("resend")
<1>1. /\ Accepts("resend") = AnswerOf(200, "none")
      /\ Busy("resend") = {AnswerOf(408, "none"), AnswerOf(429, "none"), AnswerOf(500, "none")}
      /\ Unsound("resend") = {AnswerOf(401, "none"), AnswerOf(422, "none")}
      /\ Dead("resend") = {AnswerOf(422, "none")}
  BY DEF Accepts, Busy, Unsound, Dead
<1>2. ASSUME NEW r
      PROVE  Verdict("resend", r) =
        IF r.status = 200 THEN Sent
        ELSE IF IsPermanentStatus(r.status) THEN GiveUp ELSE SendAgain
  <2> DEFINE dead == FALSE
             again == ~IsPermanentStatus(r.status)
  <2>1. Verdict("resend", r) = ResendSend(r)
    BY DEF Verdict
  <2>2. ResendSend(r) = IF r.status = 200 THEN Sent ELSE Failed(again, dead)
    BY Zenon DEF ResendSend
  <2>3. Failed(again, dead) = IF dead THEN IF again THEN DeadButAgain ELSE DeadAddress
                              ELSE IF again THEN SendAgain ELSE GiveUp
    <3>1. dead \in BOOLEAN /\ again \in BOOLEAN
      OBVIOUS
    <3> HIDE DEF dead, again
    <3> QED
      BY <3>1, FailedBy, Zenon
  <2> QED
    BY <2>1, <2>2, <2>3, Zenon
<1> USE <1>1, AnswerFields DEF IsPermanentStatus
<1>3. \A r \in BadMoment("resend") : Verdict("resend", r) = SendAgain
  BY <1>2 DEF BadMoment
<1>4. Verdict("resend", Accepts("resend")) = Sent
  BY <1>2
<1>5. Accepts("resend") \notin BadMoment("resend")
  BY DEF BadMoment
<1>6. \A r \in Unsound("resend") \cup Dead("resend") : r \notin BadMoment("resend")
  BY DEF BadMoment
<1>7. \A r \in Unsound("resend") \cup Dead("resend") : Verdict("resend", r) \in {GiveUp, DeadAddress}
  BY <1>2
<1>8. \A r \in Unsound("resend") : Verdict("resend", r) = GiveUp \/ r.code \in Ambiguous
  BY <1>2 DEF Ambiguous
<1> QED
  BY <1>3, <1>4, <1>5, <1>6, <1>7, <1>8 DEF Judges

LEMMA TwilioJudges == Judges("twilio")
<1>1. /\ Accepts("twilio") = AnswerOf(201, "none")
      /\ Busy("twilio") = {AnswerOf(408, "none"), AnswerOf(429, "none"), AnswerOf(500, "none")}
      /\ Unsound("twilio") = {AnswerOf(401, "20003"), AnswerOf(400, "21612")}
      /\ Dead("twilio") = {AnswerOf(400, "21211"), AnswerOf(400, "21614")}
  BY DEF Accepts, Busy, Unsound, Dead
<1>2. ASSUME NEW r
      PROVE  Verdict("twilio", r) =
        IF r.status = 201 THEN Sent
        ELSE IF r.code \in InvalidDestinationCodes THEN DeadAddress
        ELSE IF IsPermanentStatus(r.status) THEN GiveUp ELSE SendAgain
  <2> DEFINE dead == r.code \in InvalidDestinationCodes
             again == ~(dead \/ IsPermanentStatus(r.status))
  <2>1. Verdict("twilio", r) = TwilioSend(r)
    BY DEF Verdict
  <2>2. TwilioSend(r) = IF r.status = 201 THEN Sent ELSE Failed(again, dead)
    BY Zenon DEF TwilioSend
  <2>3. Failed(again, dead) = IF dead THEN IF again THEN DeadButAgain ELSE DeadAddress
                              ELSE IF again THEN SendAgain ELSE GiveUp
    <3>1. dead \in BOOLEAN /\ again \in BOOLEAN
      OBVIOUS
    <3> HIDE DEF dead, again
    <3> QED
      BY <3>1, FailedBy, Zenon
  <2> QED
    BY <2>1, <2>2, <2>3, Zenon
<1> USE <1>1, AnswerFields DEF InvalidDestinationCodes, IsPermanentStatus
<1>3. \A r \in BadMoment("twilio") : Verdict("twilio", r) = SendAgain
  BY <1>2 DEF BadMoment
<1>4. Verdict("twilio", Accepts("twilio")) = Sent
  BY <1>2
<1>5. Accepts("twilio") \notin BadMoment("twilio")
  BY DEF BadMoment
<1>6. \A r \in Unsound("twilio") \cup Dead("twilio") : r \notin BadMoment("twilio")
  BY DEF BadMoment
<1>7. \A r \in Unsound("twilio") \cup Dead("twilio") : Verdict("twilio", r) \in {GiveUp, DeadAddress}
  BY <1>2
<1>8. \A r \in Unsound("twilio") : Verdict("twilio", r) = GiveUp \/ r.code \in Ambiguous
  BY <1>2 DEF Ambiguous
<1>9. \A r \in {AnswerOf(400, "21610")} :
        Verdict("twilio", r) \in {GiveUp, DeadAddress} /\ r \notin BadMoment("twilio")
  BY <1>2 DEF BadMoment
<1> QED
  BY <1>3, <1>4, <1>5, <1>6, <1>7, <1>8, <1>9 DEF Judges

LEMMA SlackJudges == Judges("slack")
<1>1. /\ Accepts("slack") = AnswerOf(200, "ok")
      /\ Busy("slack") =
            {AnswerOf(200, "ratelimited"),
             AnswerOf(200, "internal_error"),
             AnswerOf(503, "none")}
      /\ Unsound("slack") = {AnswerOf(200, "invalid_auth"), AnswerOf(200, "account_inactive"),
                             AnswerOf(200, "not_in_channel")}
      /\ Dead("slack") = {AnswerOf(200, "channel_not_found"), AnswerOf(200, "is_archived")}
  BY DEF Accepts, Busy, Unsound, Dead
<1>2. ASSUME NEW r
      PROVE  Verdict("slack", r) =
        IF r.code = "ok" THEN Sent
        ELSE IF r.code = "none" \/ r.code \in RetryableErrors \/ r.status = 429 \/ r.status >= 500
        THEN IF r.code \in InvalidDestinationErrors THEN DeadButAgain ELSE SendAgain
        ELSE IF r.code \in InvalidDestinationErrors THEN DeadAddress ELSE GiveUp
  <2> DEFINE dead == r.code \in InvalidDestinationErrors
             again == r.code = "none" \/ r.code \in RetryableErrors \/ r.status = 429 \/ r.status >= 500
  <2>1. Verdict("slack", r) = SlackSend(r)
    BY DEF Verdict
  <2>2. SlackSend(r) = IF r.code = "ok" THEN Sent ELSE Failed(again, dead)
    BY Zenon DEF SlackSend
  <2>3. Failed(again, dead) = IF dead THEN IF again THEN DeadButAgain ELSE DeadAddress
                              ELSE IF again THEN SendAgain ELSE GiveUp
    <3>1. dead \in BOOLEAN /\ again \in BOOLEAN
      OBVIOUS
    <3> HIDE DEF dead, again
    <3> QED
      BY <3>1, FailedBy, Zenon
  <2> QED
    BY <2>1, <2>2, <2>3, Zenon
<1> USE <1>1, AnswerFields DEF InvalidDestinationErrors, RetryableErrors
<1>3. \A r \in BadMoment("slack") : Verdict("slack", r) = SendAgain
  BY <1>2 DEF BadMoment
<1>4. Verdict("slack", Accepts("slack")) = Sent
  BY <1>2
<1>5. Accepts("slack") \notin BadMoment("slack")
  BY DEF BadMoment
<1>6. \A r \in Unsound("slack") \cup Dead("slack") : r \notin BadMoment("slack")
  BY DEF BadMoment
<1>7. \A r \in Unsound("slack") \cup Dead("slack") : Verdict("slack", r) \in {GiveUp, DeadAddress}
  BY <1>2
<1>8. \A r \in Unsound("slack") : Verdict("slack", r) = GiveUp \/ r.code \in Ambiguous
  BY <1>2 DEF Ambiguous
<1> QED
  BY <1>3, <1>4, <1>5, <1>6, <1>7, <1>8 DEF Judges

LEMMA SlackHookJudges == Judges("slackHook")
<1>1. /\ Accepts("slackHook") = AnswerOf(200, "ok")
      /\ Busy("slackHook") =
            {AnswerOf(408, "none"),
             AnswerOf(429, "none"),
             AnswerOf(500, "none")}
      /\ Unsound("slackHook") =
            {AnswerOf(403, "invalid_token"),
             AnswerOf(400, "invalid_payload")}
      /\ Dead("slackHook") = {AnswerOf(404, "no_service"), AnswerOf(410, "channel_is_archived")}
  BY DEF Accepts, Busy, Unsound, Dead
<1>2. ASSUME NEW r
      PROVE  Verdict("slackHook", r) =
        IF r.status = 200 /\ r.code = "ok" THEN Sent
        ELSE IF r.code \in InvalidWebhookBodies THEN DeadAddress
        ELSE IF IsPermanentStatus(r.status) THEN GiveUp ELSE SendAgain
  <2> DEFINE dead == r.code \in InvalidWebhookBodies
             again == ~(dead \/ IsPermanentStatus(r.status))
  <2>1. Verdict("slackHook", r) = SlackHookSend(r)
    BY DEF Verdict
  <2>2. SlackHookSend(r) = IF r.status = 200 /\ r.code = "ok" THEN Sent ELSE Failed(again, dead)
    BY Zenon DEF SlackHookSend
  <2>3. Failed(again, dead) = IF dead THEN IF again THEN DeadButAgain ELSE DeadAddress
                              ELSE IF again THEN SendAgain ELSE GiveUp
    <3>1. dead \in BOOLEAN /\ again \in BOOLEAN
      OBVIOUS
    <3> HIDE DEF dead, again
    <3> QED
      BY <3>1, FailedBy, Zenon
  <2> QED
    BY <2>1, <2>2, <2>3, Zenon
<1> USE <1>1, AnswerFields DEF InvalidWebhookBodies, IsPermanentStatus
<1>3. \A r \in BadMoment("slackHook") : Verdict("slackHook", r) = SendAgain
  BY <1>2 DEF BadMoment
<1>4. Verdict("slackHook", Accepts("slackHook")) = Sent
  BY <1>2
<1>5. Accepts("slackHook") \notin BadMoment("slackHook")
  BY DEF BadMoment
<1>6. \A r \in Unsound("slackHook") \cup Dead("slackHook") : r \notin BadMoment("slackHook")
  BY DEF BadMoment
<1>7. \A r \in Unsound("slackHook") \cup Dead("slackHook") : Verdict("slackHook", r) \in {GiveUp, DeadAddress}
  BY <1>2
<1>8. \A r \in Unsound("slackHook") : Verdict("slackHook", r) = GiveUp \/ r.code \in Ambiguous
  BY <1>2 DEF Ambiguous
<1> QED
  BY <1>3, <1>4, <1>5, <1>6, <1>7, <1>8 DEF Judges

LEMMA WhatsAppJudges == Judges("whatsapp")
<1>1. /\ Accepts("whatsapp") = AnswerOf(200, "none")
      /\ Busy("whatsapp") = {AnswerOf(400, "130429"), AnswerOf(429, "4"), AnswerOf(500, "none")}
      /\ Unsound("whatsapp") = {AnswerOf(401, "190"), AnswerOf(400, "100")}
      /\ Dead("whatsapp") = {AnswerOf(400, "131026")}
  BY DEF Accepts, Busy, Unsound, Dead
<1>2. ASSUME NEW r
      PROVE  Verdict("whatsapp", r) =
        IF r.status = 200 THEN Sent
        ELSE IF r.code \notin RetryableGraphCodes /\ IsPermanentStatus(r.status) THEN GiveUp ELSE SendAgain
  <2> DEFINE dead == FALSE
             again == r.code \in RetryableGraphCodes \/ ~IsPermanentStatus(r.status)
  <2>1. Verdict("whatsapp", r) = WhatsAppSend(r)
    BY DEF Verdict
  <2>2. WhatsAppSend(r) = IF r.status = 200 THEN Sent ELSE Failed(again, dead)
    BY Zenon DEF WhatsAppSend
  <2>3. Failed(again, dead) = IF dead THEN IF again THEN DeadButAgain ELSE DeadAddress
                              ELSE IF again THEN SendAgain ELSE GiveUp
    <3>1. dead \in BOOLEAN /\ again \in BOOLEAN
      OBVIOUS
    <3> HIDE DEF dead, again
    <3> QED
      BY <3>1, FailedBy, Zenon
  <2> QED
    BY <2>1, <2>2, <2>3, Zenon
<1> USE <1>1, AnswerFields DEF RetryableGraphCodes, IsPermanentStatus
<1>3. \A r \in BadMoment("whatsapp") : Verdict("whatsapp", r) = SendAgain
  BY <1>2 DEF BadMoment
<1>4. Verdict("whatsapp", Accepts("whatsapp")) = Sent
  BY <1>2
<1>5. Accepts("whatsapp") \notin BadMoment("whatsapp")
  BY DEF BadMoment
<1>6. \A r \in Unsound("whatsapp") \cup Dead("whatsapp") : r \notin BadMoment("whatsapp")
  BY DEF BadMoment
<1>7. \A r \in Unsound("whatsapp") \cup Dead("whatsapp") : Verdict("whatsapp", r) \in {GiveUp, DeadAddress}
  BY <1>2
<1>8. \A r \in Unsound("whatsapp") : Verdict("whatsapp", r) = GiveUp \/ r.code \in Ambiguous
  BY <1>2 DEF Ambiguous
<1> QED
  BY <1>3, <1>4, <1>5, <1>6, <1>7, <1>8 DEF Judges

LEMMA TelegramJudges == Judges("telegram")
<1>1. /\ Accepts("telegram") = AnswerOf(200, "none")
      /\ Busy("telegram") =
            {AnswerOf(408, "none"),
             AnswerOf(429, "none"),
             AnswerOf(500, "none")}
      /\ Unsound("telegram") = {AnswerOf(401, "none"), AnswerOf(422, "none")}
      /\ Dead("telegram") = {AnswerOf(403, "none"), AnswerOf(400, "chat_not_found")}
  BY DEF Accepts, Busy, Unsound, Dead
<1>2. ASSUME NEW r
      PROVE  Verdict("telegram", r) =
        IF r.status = 200 THEN Sent
        ELSE IF r.status = 403 \/ (r.status = 400 /\ r.code = "chat_not_found") THEN DeadAddress
        ELSE IF IsPermanentStatus(r.status) THEN GiveUp ELSE SendAgain
  <2> DEFINE dead == r.status = 403 \/ (r.status = 400 /\ r.code = "chat_not_found")
             again == ~(dead \/ IsPermanentStatus(r.status))
  <2>1. Verdict("telegram", r) = TelegramSend(r)
    BY DEF Verdict
  <2>2. TelegramSend(r) = IF r.status = 200 THEN Sent ELSE Failed(again, dead)
    BY Zenon DEF TelegramSend
  <2>3. Failed(again, dead) = IF dead THEN IF again THEN DeadButAgain ELSE DeadAddress
                              ELSE IF again THEN SendAgain ELSE GiveUp
    <3>1. dead \in BOOLEAN /\ again \in BOOLEAN
      OBVIOUS
    <3> HIDE DEF dead, again
    <3> QED
      BY <3>1, FailedBy, Zenon
  <2>4. Verdict("telegram", r) = IF r.status = 200 THEN Sent
          ELSE IF dead THEN IF again THEN DeadButAgain ELSE DeadAddress
          ELSE IF again THEN SendAgain ELSE GiveUp
    <3> HIDE DEF dead, again
    <3> QED
      BY <2>1, <2>2, <2>3, Zenon
  <2> QED
    BY <2>4
<1> USE <1>1, AnswerFields DEF IsPermanentStatus
<1>3. \A r \in BadMoment("telegram") : Verdict("telegram", r) = SendAgain
  BY <1>2 DEF BadMoment
<1>4. Verdict("telegram", Accepts("telegram")) = Sent
  BY <1>2
<1>5. Accepts("telegram") \notin BadMoment("telegram")
  BY DEF BadMoment
<1>6. \A r \in Unsound("telegram") \cup Dead("telegram") : r \notin BadMoment("telegram")
  BY DEF BadMoment
<1>7. \A r \in Unsound("telegram") \cup Dead("telegram") : Verdict("telegram", r) \in {GiveUp, DeadAddress}
  BY <1>2
<1>8. \A r \in Unsound("telegram") : Verdict("telegram", r) = GiveUp \/ r.code \in Ambiguous
  BY <1>2 DEF Ambiguous
<1> QED
  BY <1>3, <1>4, <1>5, <1>6, <1>7, <1>8 DEF Judges

LEMMA DiscordJudges == Judges("discord")
<1>1. /\ Accepts("discord") = AnswerOf(200, "none")
      /\ Busy("discord") = {AnswerOf(408, "none"), AnswerOf(429, "none"), AnswerOf(500, "none")}
      /\ Unsound("discord") = {AnswerOf(400, "none")}
      /\ Dead("discord") = {AnswerOf(404, "none"), AnswerOf(401, "none")}
  BY DEF Accepts, Busy, Unsound, Dead
<1>2. ASSUME NEW r
      PROVE  Verdict("discord", r) =
        IF r.status = 200 THEN Sent ELSE IF IsPermanentStatus(r.status)
        THEN IF r.status \in {401, 404} THEN DeadAddress ELSE GiveUp
        ELSE IF r.status \in {401, 404} THEN DeadButAgain ELSE SendAgain
  <2> DEFINE dead == r.status \in {401, 404}
             again == ~IsPermanentStatus(r.status)
  <2>1. Verdict("discord", r) = DiscordSend(r)
    BY DEF Verdict
  <2>2. DiscordSend(r) = IF r.status = 200 THEN Sent ELSE Failed(again, dead)
    BY Zenon DEF DiscordSend
  <2>3. Failed(again, dead) = IF dead THEN IF again THEN DeadButAgain ELSE DeadAddress
                              ELSE IF again THEN SendAgain ELSE GiveUp
    <3>1. dead \in BOOLEAN /\ again \in BOOLEAN
      OBVIOUS
    <3> HIDE DEF dead, again
    <3> QED
      BY <3>1, FailedBy, Zenon
  <2>4. Verdict("discord", r) = IF r.status = 200 THEN Sent
          ELSE IF dead THEN IF again THEN DeadButAgain ELSE DeadAddress
          ELSE IF again THEN SendAgain ELSE GiveUp
    <3> HIDE DEF dead, again
    <3> QED
      BY <2>1, <2>2, <2>3, Zenon
  <2> QED
    BY <2>4
<1> USE <1>1, AnswerFields DEF IsPermanentStatus
<1>3. \A r \in BadMoment("discord") : Verdict("discord", r) = SendAgain
  BY <1>2 DEF BadMoment
<1>4. Verdict("discord", Accepts("discord")) = Sent
  BY <1>2
<1>5. Accepts("discord") \notin BadMoment("discord")
  BY DEF BadMoment
<1>6. \A r \in Unsound("discord") \cup Dead("discord") : r \notin BadMoment("discord")
  BY DEF BadMoment
<1>7. \A r \in Unsound("discord") \cup Dead("discord") : Verdict("discord", r) \in {GiveUp, DeadAddress}
  BY <1>2
<1>8. \A r \in Unsound("discord") : Verdict("discord", r) = GiveUp \/ r.code \in Ambiguous
  BY <1>2 DEF Ambiguous
<1> QED
  BY <1>3, <1>4, <1>5, <1>6, <1>7, <1>8 DEF Judges

LEMMA FcmJudges == Judges("fcm")
<1>1. /\ Accepts("fcm") = AnswerOf(200, "none")
      /\ Busy("fcm") =
            {AnswerOf(429, "messaging/quota-exceeded"),
             AnswerOf(503, "messaging/server-unavailable")}
      /\ Unsound("fcm") =
            {AnswerOf(401, "messaging/third-party-auth-error"),
             AnswerOf(400, "messaging/invalid-argument")}
      /\ Dead("fcm") = {AnswerOf(404, "messaging/registration-token-not-registered")}
  BY DEF Accepts, Busy, Unsound, Dead
<1>2. ASSUME NEW r
      PROVE  Verdict("fcm", r) =
        IF r.status = 200 THEN Sent
        ELSE IF r.code \in InvalidTokenCodes THEN DeadAddress
        ELSE IF r.code \in MessagingCodes \ RetryableCodes THEN GiveUp ELSE SendAgain
  <2> DEFINE dead == r.code \in InvalidTokenCodes
             again == ~(dead \/ r.code \in MessagingCodes \ RetryableCodes)
  <2>1. Verdict("fcm", r) = FcmSend(r)
    BY DEF Verdict
  <2>2. FcmSend(r) = IF r.status = 200 THEN Sent ELSE Failed(again, dead)
    BY Zenon DEF FcmSend
  <2>3. Failed(again, dead) = IF dead THEN IF again THEN DeadButAgain ELSE DeadAddress
                              ELSE IF again THEN SendAgain ELSE GiveUp
    <3>1. dead \in BOOLEAN /\ again \in BOOLEAN
      OBVIOUS
    <3> HIDE DEF dead, again
    <3> QED
      BY <3>1, FailedBy, Zenon
  <2> QED
    BY <2>1, <2>2, <2>3, Zenon
<1> USE <1>1, AnswerFields DEF InvalidTokenCodes, MessagingCodes, RetryableCodes
<1>3. \A r \in BadMoment("fcm") : Verdict("fcm", r) = SendAgain
  BY <1>2 DEF BadMoment
<1>4. Verdict("fcm", Accepts("fcm")) = Sent
  BY <1>2
<1>5. Accepts("fcm") \notin BadMoment("fcm")
  BY DEF BadMoment
<1>6. \A r \in Unsound("fcm") \cup Dead("fcm") : r \notin BadMoment("fcm")
  BY DEF BadMoment
<1>7. \A r \in Unsound("fcm") \cup Dead("fcm") : Verdict("fcm", r) \in {GiveUp, DeadAddress}
  BY <1>2
<1>8. \A r \in Unsound("fcm") : Verdict("fcm", r) = GiveUp \/ r.code \in Ambiguous
  BY <1>2 DEF Ambiguous
<1> QED
  BY <1>3, <1>4, <1>5, <1>6, <1>7, <1>8 DEF Judges

\* The four things an answer can be taken for.
LEMMA VerdictFields ==
    /\ Sent.success /\ ~Sent.retry /\ ~Sent.invalid
    /\ ~SendAgain.success /\ SendAgain.retry /\ ~SendAgain.invalid
    /\ ~GiveUp.success /\ ~GiveUp.retry /\ ~GiveUp.invalid
    /\ ~DeadAddress.success /\ ~DeadAddress.retry /\ DeadAddress.invalid
    /\ {Sent, SendAgain, GiveUp, DeadAddress} \subseteq
          [success : BOOLEAN, retry : BOOLEAN, invalid : BOOLEAN]
BY DEF Sent, SendAgain, GiveUp, DeadAddress, Failed

LEMMA AllJudge == \A t \in Transports : Judges(t)
BY ResendJudges, TwilioJudges, SlackJudges, SlackHookJudges, WhatsAppJudges, TelegramJudges,
   DiscordJudges, FcmJudges DEF Transports

\* An acceptance that cannot be read is an acceptance or tried again, and is none
\* of the other answers; a text that is too long is given up.
LEMMA UnreadJudged ==
    ASSUME NEW t \in Transports
    PROVE  /\ Outcome(t, Garbled) \in {Sent, SendAgain}
           /\ Garbled \notin BadMoment(t) \cup {Accepts(t), TooLong, AnswerOf(400, "21610")}
           /\ Garbled \notin Unsound(t) \cup Dead(t)
<1> USE DEF Transports
<1>1. Garbled \notin BadMoment(t) \cup {Accepts(t), TooLong, AnswerOf(400, "21610")}
  BY DEF Garbled, TooLong, BadMoment, Busy, Lost, Accepts, AnswerOf
<1>2. Garbled \notin Unsound(t) \cup Dead(t)
  BY DEF Garbled, Unsound, Dead, AnswerOf
<1>6. Garbled.status = 200
  BY DEF Garbled, AnswerOf
<1>3. CASE t = "whatsapp"
  <2>1. Verdict(t, Garbled) = WhatsAppSend(Garbled)
    BY <1>3 DEF Verdict
  <2>2. WhatsAppSend(Garbled) = Sent
    BY <1>6, Zenon DEF WhatsAppSend
  <2>3. Outcome(t, Garbled) = Verdict(t, Garbled)
    BY <1>3, Zenon DEF Outcome, TakesGarbled
  <2> QED
    BY <1>1, <1>2, <2>1, <2>2, <2>3, Zenon
<1>4. CASE t = "discord"
  <2>1. Verdict(t, Garbled) = DiscordSend(Garbled)
    BY <1>4 DEF Verdict
  <2>2. DiscordSend(Garbled) = Sent
    BY <1>6, Zenon DEF DiscordSend
  <2>3. Outcome(t, Garbled) = Verdict(t, Garbled)
    BY <1>4, Zenon DEF Outcome, TakesGarbled
  <2> QED
    BY <1>1, <1>2, <2>1, <2>2, <2>3, Zenon
<1>5. CASE t \notin {"whatsapp", "discord"}
  <2>1. ~TakesGarbled(t)
    BY <1>5 DEF TakesGarbled
  <2> QED
    BY <1>1, <1>2, <2>1, Zenon DEF Outcome, SendAgain
<1> QED
  BY <1>1, <1>2, <1>3, <1>4, <1>5

LEMMA TooLongElsewhere ==
    ASSUME NEW t \in Transports
    PROVE  TooLong \notin BadMoment(t) \cup Unsound(t) \cup Dead(t) \cup {AnswerOf(400, "21610")}
<1>1. TooLong \notin BadMoment(t) \cup {AnswerOf(400, "21610")}
  BY DEF Transports, TooLong, BadMoment, Busy, Lost, AnswerOf
<1>2. TooLong \notin Unsound(t) \cup Dead(t)
  BY DEF Transports, TooLong, Unsound, Dead, AnswerOf
<1> QED
  BY <1>1, <1>2

LEMMA TooLongJudged ==
    ASSUME NEW t \in {"twilio", "telegram", "discord"}
    PROVE  Verdict(t, TooLong) = GiveUp /\ TooLong \notin BadMoment(t) /\ TooLong # Garbled
<1>1. TooLong.status = 400 /\ TooLong.code = "too_long" /\ TooLong # Garbled
  BY DEF TooLong, Garbled, AnswerOf
<1>2. TooLong \notin BadMoment(t)
  BY DEF TooLong, BadMoment, Busy, Lost, AnswerOf
<1>3. CASE t = "twilio"
  <2> DEFINE dead == TooLong.code \in InvalidDestinationCodes
             again == ~(dead \/ IsPermanentStatus(TooLong.status))
  <2>1. Verdict(t, TooLong) = TwilioSend(TooLong)
    BY <1>3 DEF Verdict
  <2>2. TooLong.status # 201 /\ ~dead /\ ~again
    BY <1>1 DEF IsPermanentStatus, InvalidDestinationCodes
  <2>3. TwilioSend(TooLong) = Failed(again, dead)
    BY <2>2, Zenon DEF TwilioSend
  <2>4. dead \in BOOLEAN /\ again \in BOOLEAN
    OBVIOUS
  <2> HIDE DEF dead, again
  <2>5. Failed(again, dead) = GiveUp
    BY <2>2, <2>4, FailedBy, Zenon
  <2> QED
    BY <1>2, <1>1, <2>1, <2>3, <2>5
<1>4. CASE t = "telegram"
  <2> DEFINE dead == TooLong.status = 403 \/ (TooLong.status = 400 /\ TooLong.code = "chat_not_found")
             again == ~(dead \/ IsPermanentStatus(TooLong.status))
  <2>1. Verdict(t, TooLong) = TelegramSend(TooLong)
    BY <1>4 DEF Verdict
  <2>2. TooLong.status # 200 /\ ~dead /\ ~again
    BY <1>1 DEF IsPermanentStatus
  <2>3. TelegramSend(TooLong) = Failed(again, dead)
    BY <2>2, Zenon DEF TelegramSend
  <2>4. dead \in BOOLEAN /\ again \in BOOLEAN
    OBVIOUS
  <2> HIDE DEF dead, again
  <2>5. Failed(again, dead) = GiveUp
    BY <2>2, <2>4, FailedBy, Zenon
  <2> QED
    BY <1>2, <1>1, <2>1, <2>3, <2>5
<1>5. CASE t = "discord"
  <2> DEFINE dead == TooLong.status \in {401, 404}
             again == ~IsPermanentStatus(TooLong.status)
  <2>1. Verdict(t, TooLong) = DiscordSend(TooLong)
    BY <1>5 DEF Verdict
  <2>2. TooLong.status # 200 /\ ~dead /\ ~again
    BY <1>1 DEF IsPermanentStatus
  <2>3. DiscordSend(TooLong) = Failed(again, dead)
    BY <2>2, Zenon DEF DiscordSend
  <2>4. dead \in BOOLEAN /\ again \in BOOLEAN
    OBVIOUS
  <2> HIDE DEF dead, again
  <2>5. Failed(again, dead) = GiveUp
    BY <2>2, <2>4, FailedBy, Zenon
  <2> QED
    BY <1>2, <1>1, <2>1, <2>3, <2>5
<1> QED
  BY <1>3, <1>4, <1>5

(***************************************************************************)
(* Callbacks.                                                              *)
(***************************************************************************)

LEMMA NotHard ==
    ASSUME NEW P \in BOOLEAN, ~P
    PROVE  ~Suppresses(Event("bounced", P))
<1>1. Event("bounced", P) = Event("bounced", FALSE)
  BY Zenon
<1> QED
  BY <1>1 DEF Suppresses, Event

LEMMA ResendSuppresses ==
    ASSUME NEW c, Suppresses(ResendEvent(c))
    PROVE  c.kind = "complained" \/ (c.kind = "bounced" /\ c.code = "Permanent")
<1>1. CASE c.kind = "opened"
  <2>1. ResendEvent(c) = Event("opened", FALSE)
    BY <1>1, Zenon DEF ResendEvent
  <2> QED
    BY <2>1 DEF Suppresses, Event
<1>2. CASE c.kind = "bounced" /\ c.code # "Permanent"
  <2>1. ResendEvent(c) = Event("bounced", c.code = "Permanent")
    BY <1>2, Zenon DEF ResendEvent
  <2> DEFINE hard == c.code = "Permanent"
  <2>2. hard \in BOOLEAN /\ ~hard
    BY <1>2
  <2>3. ResendEvent(c) = Event("bounced", hard)
    BY <2>1, Zenon
  <2> HIDE DEF hard
  <2>4. ~Suppresses(Event("bounced", hard))
    BY <2>2, NotHard, Zenon
  <2> QED
    BY <2>3, <2>4, Zenon
<1>3. CASE c.kind \notin {"opened", "bounced", "complained"}
  <2>1. ResendEvent(c) = Untracked
    BY <1>3, Zenon DEF ResendEvent
  <2> QED
    BY <2>1 DEF Suppresses, Event, Untracked
<1> QED
  BY <1>1, <1>2, <1>3

LEMMA TwilioSuppresses ==
    ASSUME NEW c, Suppresses(TwilioEvent(c))
    PROVE  c.code \in {"21610"} \cup HardBounceCodes
<1>1. CASE c.kind \in {"failed", "undelivered"} /\ c.code \notin {"21610"} \cup HardBounceCodes
  <2>1. TwilioEvent(c) = Event("bounced", c.code \in HardBounceCodes)
    BY <1>1, Zenon DEF TwilioEvent
  <2> DEFINE hard == c.code \in HardBounceCodes
  <2>2. hard \in BOOLEAN /\ ~hard
    BY <1>1
  <2>3. TwilioEvent(c) = Event("bounced", hard)
    BY <2>1, Zenon
  <2> HIDE DEF hard
  <2>4. ~Suppresses(Event("bounced", hard))
    BY <2>2, NotHard, Zenon
  <2> QED
    BY <2>3, <2>4, Zenon
<1>2. CASE c.kind = "opened"
  <2>1. TwilioEvent(c) = Event("opened", FALSE)
    BY <1>2, Zenon DEF TwilioEvent
  <2> QED
    BY <2>1 DEF Suppresses, Event
<1>3. CASE c.kind \notin {"failed", "undelivered", "opened"}
  <2>1. TwilioEvent(c) = Untracked
    BY <1>3, Zenon DEF TwilioEvent
  <2> QED
    BY <2>1 DEF Suppresses, Event, Untracked
<1> QED
  BY <1>1, <1>2, <1>3

LEMMA WhatsAppSuppresses ==
    ASSUME NEW c
    PROVE  ~Suppresses(WhatsAppEvent(c))
<1>1. CASE c.kind = "opened"
  <2>1. WhatsAppEvent(c) = Event("opened", FALSE)
    BY <1>1, Zenon DEF WhatsAppEvent
  <2> QED
    BY <2>1 DEF Suppresses, Event
<1>2. CASE c.kind = "failed"
  <2>1. WhatsAppEvent(c) = Event("bounced", FALSE)
    BY <1>2, Zenon DEF WhatsAppEvent
  <2> QED
    BY <2>1 DEF Suppresses, Event
<1>3. CASE c.kind \notin {"opened", "failed"}
  <2>1. WhatsAppEvent(c) = Untracked
    BY <1>3, Zenon DEF WhatsAppEvent
  <2> QED
    BY <2>1 DEF Suppresses, Event, Untracked
<1> QED
  BY <1>1, <1>2, <1>3

\* No report on somebody who can be reached suppresses the address.
LEMMA ReachableIsSpared ==
    ASSUME AcceptsFirst(transport), person = "reachable", NEW c \in Reports
    PROVE  ~Suppresses(EventOf(c))
<1>1. /\ c.kind # "complained" /\ ~(c.kind = "bounced" /\ c.code = "Permanent")
      /\ c.code \notin {"21610"} \cup HardBounceCodes
  <2>1. Reports = {Callback("bounced", "Transient"), Callback("bounced", "Undetermined"),
                   Callback("undelivered", "30003"), Callback("failed", "none"),
                   Callback("opened", "none"), Callback("sent", "none")}
    BY DEF Reports
  <2> QED
    BY <2>1 DEF Callback, HardBounceCodes
<1>2. CASE transport = "resend"
  <2>1. EventOf(c) = ResendEvent(c)
    BY <1>2, Zenon DEF EventOf
  <2> QED
    BY <2>1, <1>1, ResendSuppresses
<1>3. CASE transport = "twilio"
  <2>1. EventOf(c) = TwilioEvent(c)
    BY <1>3, Zenon DEF EventOf
  <2> QED
    BY <2>1, <1>1, TwilioSuppresses
<1>4. CASE transport = "whatsapp"
  <2>1. EventOf(c) = WhatsAppEvent(c)
    BY <1>4, Zenon DEF EventOf
  <2> QED
    BY <2>1, WhatsAppSuppresses
<1> QED
  BY <1>2, <1>3, <1>4 DEF AcceptsFirst

(***************************************************************************)
(* Bodies.                                                                 *)
(***************************************************************************)

\* truncate cuts to what is accepted, and not inside a pair.
LEMMA TruncateIsWhole ==
    ASSUME NEW s \in Texts
    PROVE  Len(Truncate(s)) <= MaxText /\ PairsWhole(Truncate(s))
<1>1. /\ s \in Seq(STRING) /\ MaxText \in Nat \ {0} /\ Len(s) \in Nat /\ DOMAIN s = 1..Len(s)
      /\ \A i \in 1..Len(s) : s[i] = "high" => i < Len(s) /\ s[i + 1] = "low"
  <2>1. s \in Seq(STRING) /\ PairsWhole(s) /\ MaxText \in Nat \ {0}
    BY ProviderBounds
  <2>2. Len(s) \in Nat /\ DOMAIN s = 1..Len(s)
    BY <2>1
  <2> QED
    BY <2>1, <2>2 DEF PairsWhole
<1>2. CASE Len(s) <= MaxText
  BY <1>1, <1>2 DEF Truncate, PairsWhole
<1>3. CASE Len(s) > MaxText
  <2> DEFINE kept == IF MaxText > 1 /\ s[MaxText - 1] = "high" THEN MaxText - 2 ELSE MaxText - 1
             head == SubSeq(s, 1, kept)
  <2>1. kept \in 0..MaxText - 1 /\ (kept > 0 => s[kept] # "high")
    BY <1>1, <1>3
  <2> HIDE DEF kept
  <2>2. /\ head \in Seq(STRING) /\ Len(head) = kept
        /\ \A i \in 1..kept : head[i] = s[i]
    <3>1. \A i \in 1..kept : s[i] \in STRING
      BY <1>1, <1>3, <2>1
    <3>2. /\ SubSeq(s, 1, kept) \in Seq(STRING)
          /\ Len(SubSeq(s, 1, kept)) = IF 1 <= kept THEN kept - 1 + 1 ELSE 0
          /\ \A i \in 1..(kept - 1 + 1) : SubSeq(s, 1, kept)[i] = s[1 + i - 1]
      BY <2>1, <3>1, SubSeqProperties
    <3> QED
      BY <3>2, <2>1
  <2>3. Truncate(s) = Append(head, "...")
    BY <1>1, <1>3 DEF Truncate, kept
  <2> HIDE DEF head
  <2>4. /\ Len(Truncate(s)) = kept + 1 /\ DOMAIN Truncate(s) = 1..(kept + 1)
        /\ \A i \in 1..kept : Truncate(s)[i] = s[i]
        /\ Truncate(s)[kept + 1] = "..."
    BY <2>1, <2>2, <2>3
  <2>5. ASSUME NEW i \in 1..(kept + 1), Truncate(s)[i] = "high"
        PROVE  i < kept + 1 /\ Truncate(s)[i + 1] = "low"
    <3>1. i \in 1..kept /\ s[i] = "high"
      BY <2>1, <2>4, <2>5
    <3>2. i # kept
      BY <3>1, <2>1
    <3> QED
      BY <1>1, <1>3, <2>1, <2>4, <3>1, <3>2
  <2> QED
    BY <1>1, <2>1, <2>4, <2>5 DEF PairsWhole
<1> QED
  BY <1>1, <1>2, <1>3

\* Only markup is too long for its provider.
LEMMA PlainFits ==
    ASSUME text \in Texts, formatted \in BOOLEAN, ~Fits
    PROVE  Limited /\ formatted
BY TruncateIsWhole DEF Fits, BodySent, Limited

(***************************************************************************)
(* The invariant.                                                          *)
(***************************************************************************)

ProvidersInv ==
    /\ ProvidersTypeOK /\ text \in Texts /\ copies <= sends
    /\ AnswersJudged

LEMMA ProvidersInvInit == ProvidersInit => ProvidersInv
<1> SUFFICES ASSUME ProvidersInit PROVE ProvidersInv
  OBVIOUS
<1> USE DEF ProvidersInit
<1>1. verdict = SendAgain
  BY DEF SendAgain
<1>2. ProvidersTypeOK
  <2>1. verdict \in [success : BOOLEAN, retry : BOOLEAN, invalid : BOOLEAN]
    BY <1>1, VerdictFields
  <2>2. /\ transport \in Transports /\ person \in {"reachable", "gone", "optedOut"}
        /\ sends \in 0..MaxSends /\ copies \in 0..MaxSends
    BY ProviderBounds
  <2> QED
    BY <2>1, <2>2, Zenon DEF ProvidersTypeOK
<1>3. NoFalseSuccess /\ SparesTheLiving
  BY <1>1, VerdictFields DEF NoFalseSuccess, SparesTheLiving
<1>5. BadMomentIsRetried
  BY <1>1, VerdictFields DEF BadMomentIsRetried
<1>6. MailedOnce /\ SuppressedRightly
  BY DEF MailedOnce, SuppressedRightly
<1>4. CutWhole
  BY ProviderBounds DEF CutWhole, PairsWhole, NoAnswer, TooLong, AnswerOf
<1> QED
  BY <1>2, <1>3, <1>4, <1>5, <1>6 DEF ProvidersInv, AnswersJudged

LEMMA RefuseStep == ASSUME ProvidersInv, RefuseTask PROVE ProvidersInv'
<1> USE DEF RefuseTask
<1>1. verdict' = GiveUp
  BY DEF GiveUp
<1>2. ProvidersTypeOK' /\ copies' <= sends'
  <2>1. verdict' \in [success : BOOLEAN, retry : BOOLEAN, invalid : BOOLEAN]
    BY <1>1, VerdictFields
  <2>2. /\ UNCHANGED <<transport, person>> /\ transport \in Transports
        /\ person \in {"reachable", "gone", "optedOut"}
        /\ sends' \in 0..MaxSends /\ copies' \in 0..MaxSends /\ copies' <= sends'
    BY ProviderBounds DEF ProvidersInv, ProvidersTypeOK, MaySend
  <2>3. formatted' \in BOOLEAN
    BY DEF ProvidersInv, ProvidersTypeOK
  <2> QED
    BY <2>1, <2>2, <2>3, Zenon DEF ProvidersTypeOK
<1>3. NoFalseSuccess' /\ BadMomentIsRetried' /\ SparesTheLiving' /\ MailedOnce' /\ SuppressedRightly'
  BY <1>1, VerdictFields DEF ProvidersInv, AnswersJudged, NoFalseSuccess, BadMomentIsRetried,
     Unsendable, SparesTheLiving, MailedOnce, SuppressedRightly
<1>4. CutWhole'
  BY DEF ProvidersInv, AnswersJudged, CutWhole, PairsWhole, Limited
<1> QED
  BY <1>2, <1>3, <1>4 DEF ProvidersInv, AnswersJudged

\* What an answer does, whatever it is: its verdict is one of the four, a bad
\* moment is repeated, and a dead address has a reason.
Fair(r) ==
    /\ Outcome(transport, r) \in {Sent, SendAgain, GiveUp, DeadAddress}
    /\ r \in BadMoment(transport) => Outcome(transport, r) = SendAgain
    /\ r = Garbled => Outcome(transport, r) \in {Sent, SendAgain}
    /\ Outcome(transport, r) = DeadAddress => person # "reachable" \/ r.code \in Ambiguous

LEMMA AnsweredStep ==
    ASSUME ProvidersInv, MaySend, NEW r, Answered(r), Fair(r),
           copies' \in {copies, copies + 1}, Outcome(transport, r) = Sent => copies' > 0,
           transport = "resend" => copies' <= 1,
           CutWhole'
    PROVE  ProvidersInv'
<1> USE DEF Answered
<1>1. /\ verdict' = Outcome(transport, r) /\ lastAnswer' = r /\ sends' = sends + 1
      /\ UNCHANGED <<transport, person, addressed, text, formatted, suppressed>>
  OBVIOUS
<1>2. ProvidersTypeOK' /\ copies' <= sends'
  BY <1>1, VerdictFields, ProviderBounds DEF ProvidersInv, ProvidersTypeOK, MaySend, Fair
<1>3. NoFalseSuccess'
  BY <1>1, VerdictFields DEF Fair, NoFalseSuccess
<1>4. BadMomentIsRetried'
  BY <1>1, VerdictFields DEF Fair, BadMomentIsRetried, BadMoment
<1>5. SparesTheLiving'
  BY <1>1, VerdictFields DEF Fair, SparesTheLiving
<1>6. MailedOnce' /\ SuppressedRightly'
  BY <1>1 DEF ProvidersInv, AnswersJudged, MailedOnce, SuppressedRightly
<1> QED
  BY <1>1, <1>2, <1>3, <1>4, <1>5, <1>6 DEF ProvidersInv, AnswersJudged

LEMMA AcceptedStep == ASSUME ProvidersInv, SendAccepted PROVE ProvidersInv'
<1>1. PICK r \in {Accepts(transport), Lost, Garbled} : Answered(r)
  BY DEF SendAccepted
<1>2. MaySend /\ copies' = (IF Keyed /\ copies > 0 THEN copies ELSE copies + 1) /\ bodyTaken' = BodySent
  BY DEF SendAccepted
<1>3. copies \in Nat /\ transport \in Transports /\ text \in Texts
  BY DEF ProvidersInv, ProvidersTypeOK
<1>4. Fair(r)
  <2>1. CASE r = Garbled
    BY <2>1, <1>3, UnreadJudged, VerdictFields DEF Fair
  <2>2. CASE r # Garbled
    <3>1. Outcome(transport, r) = Verdict(transport, r)
      BY <2>2 DEF Outcome
    <3> QED
      BY <2>2, <3>1, <1>1, <1>3, AllJudge, VerdictFields DEF Fair, Judges, BadMoment
  <2> QED
    BY <2>1, <2>2
<1>5. copies' \in {copies, copies + 1} /\ copies' > 0
  BY <1>2, <1>3
<1>6. transport = "resend" => copies' <= 1
  BY <1>2, <1>3 DEF ProvidersInv, AnswersJudged, MailedOnce, Keyed
<1>7. CutWhole'
  <2>1. UNCHANGED <<transport, text, formatted>> /\ lastAnswer' = r
    BY <1>1 DEF Answered
  <2>2. r # TooLong
    <3>1. TooLong # Garbled /\ TooLong # Lost
      BY DEF TooLong, Garbled, Lost, AnswerOf
    <3>2. TooLong # Accepts(transport)
      BY <1>3 DEF Accepts, TooLong, AnswerOf, Transports
    <3> QED
      BY <1>1, <3>1, <3>2
  <2>3. PairsWhole(BodySent)
    BY <1>3, TruncateIsWhole, ProviderBounds DEF BodySent
  <2>4. PairsWhole(bodyTaken')
    BY <2>3, <1>2
  <2>5. formatted => bodyTaken' = text
    BY <1>2 DEF BodySent
  <2>6. (lastAnswer' = TooLong => formatted') /\ (formatted' => bodyTaken' \in {<<>>, text'})
    BY <2>1, <2>2, <2>5
  <2>7. PairsWhole(bodyTaken)'
    BY <2>4 DEF PairsWhole
  <2> QED
    BY <2>6, <2>7 DEF CutWhole
<1> QED
  BY <1>1, <1>2, <1>4, <1>5, <1>6, <1>7, AnsweredStep

LEMMA RefusedStep == ASSUME ProvidersInv, SendRefused PROVE ProvidersInv'
<1>1. PICK r \in BadMoment(transport)
                  \cup (IF sound THEN {} ELSE Unsound(transport))
                  \cup (IF Fits THEN {} ELSE {TooLong})
                  \cup (IF person = "gone" THEN Dead(transport) ELSE {})
                  \cup (IF person = "optedOut" /\ transport = "twilio"
                          THEN {AnswerOf(400, "21610")} ELSE {}) : Answered(r)
  BY DEF SendRefused, BadMoment
<1>2. MaySend /\ UNCHANGED <<copies, bodyTaken>>
  BY DEF SendRefused
<1>3. copies \in Nat /\ transport \in Transports
  BY DEF ProvidersInv, ProvidersTypeOK
<1>7. text \in Texts /\ formatted \in BOOLEAN
  BY DEF ProvidersInv, ProvidersTypeOK
<1>4. Fair(r) /\ Outcome(transport, r) # Sent
  <2>1. Sent \notin {SendAgain, GiveUp, DeadAddress} /\ DeadAddress \notin {SendAgain, GiveUp}
    BY VerdictFields
  <2>6. CASE r = TooLong /\ ~Fits
    <3>1. transport \in {"twilio", "telegram", "discord"}
      BY <2>6, <1>7, PlainFits DEF Limited
    <3>2. Verdict(transport, r) = GiveUp /\ r \notin BadMoment(transport) /\ r # Garbled
      BY <2>6, <3>1, TooLongJudged
    <3>3. Outcome(transport, r) = GiveUp
      BY <3>2 DEF Outcome
    <3> QED
      BY <2>1, <3>2, <3>3 DEF Fair
  <2>7. ASSUME r # TooLong \/ Fits
        PROVE  r # Garbled /\ Outcome(transport, r) = Verdict(transport, r)
    <3>1. r # Garbled
      BY <1>1, <1>3, <2>7, UnreadJudged
    <3> QED
      BY <3>1 DEF Outcome
  <2>8. CASE r # TooLong \/ Fits
    <3>0. r # Garbled /\ Outcome(transport, r) = Verdict(transport, r)
      BY <2>7, <2>8
    <3>2. CASE r \in BadMoment(transport)
      BY <3>2, <3>0, <2>1, <1>3, AllJudge DEF Fair, Judges
    <3>3. CASE r \in Unsound(transport)
      BY <3>3, <3>0, <2>1, <1>3, AllJudge DEF Fair, Judges
    <3>4. CASE r \in Dead(transport) /\ person = "gone"
      BY <3>4, <3>0, <2>1, <1>3, AllJudge DEF Fair, Judges
    <3>5. CASE r = AnswerOf(400, "21610") /\ person = "optedOut" /\ transport = "twilio"
      <4>1. Verdict("twilio", r) \in {GiveUp, DeadAddress} /\ r \notin BadMoment("twilio")
        BY <3>5, <1>3, AllJudge DEF Judges
      <4> QED
        BY <4>1, <3>0, <2>1, <3>5 DEF Fair
    <3> QED
      BY <1>1, <2>8, <3>2, <3>3, <3>4, <3>5
  <2> QED
    BY <1>1, <2>6, <2>8
<1>5. transport = "resend" => copies' <= 1
  BY <1>2 DEF ProvidersInv, AnswersJudged, MailedOnce
<1>6. CutWhole'
  <2>1. UNCHANGED <<transport, text, formatted, bodyTaken>> /\ lastAnswer' = r
    BY <1>1, <1>2 DEF Answered
  <2>2. r = TooLong => formatted
    <3>1. ASSUME r = TooLong, Fits PROVE FALSE
      BY <1>1, <3>1, <1>3, TooLongElsewhere
    <3> QED
      BY <3>1, <1>7, PlainFits
  <2>3. (formatted => bodyTaken \in {<<>>, text}) /\ (Limited => PairsWhole(bodyTaken))
    BY DEF ProvidersInv, AnswersJudged, CutWhole
  <2>4. Limited' = Limited /\ PairsWhole(bodyTaken)' = PairsWhole(bodyTaken)
    BY <2>1 DEF Limited, PairsWhole
  <2> QED
    BY <2>1, <2>2, <2>3, <2>4 DEF CutWhole
<1> QED
  BY <1>1, <1>2, <1>3, <1>4, <1>5, <1>6, AnsweredStep

LEMMA CallbackStep == ASSUME ProvidersInv, ReceiveCallback PROVE ProvidersInv'
<1> USE DEF ReceiveCallback
<1>1. SuppressedRightly'
  BY ReachableIsSpared DEF ProvidersInv, AnswersJudged, SuppressedRightly
<1>2. /\ ProvidersTypeOK' /\ NoFalseSuccess' /\ BadMomentIsRetried' /\ SparesTheLiving'
      /\ MailedOnce' /\ CutWhole' /\ text' \in Texts /\ copies' <= sends'
  BY DEF ProvidersInv, ProvidersTypeOK, AnswersJudged, NoFalseSuccess, BadMomentIsRetried,
     Unsendable, SparesTheLiving, MailedOnce, CutWhole, PairsWhole, Limited
<1> QED
  BY <1>1, <1>2 DEF ProvidersInv, AnswersJudged

LEMMA ProvidersInvNext == ProvidersInv /\ [ProvidersNext]_providersVars => ProvidersInv'
<1> SUFFICES ASSUME ProvidersInv, [ProvidersNext]_providersVars PROVE ProvidersInv'
  OBVIOUS
<1>1. CASE UNCHANGED providersVars
  BY <1>1 DEF providersVars, ProvidersInv, ProvidersTypeOK, AnswersJudged, NoFalseSuccess,
     BadMomentIsRetried, Unsendable, SparesTheLiving, MailedOnce, CutWhole, PairsWhole, Limited,
     SuppressedRightly
<1> QED
  BY <1>1, RefuseStep, AcceptedStep, RefusedStep, CallbackStep DEF ProvidersNext

\* What a transport makes of its provider's answers and callbacks costs no
\* message that could be sent and no address that could be reached, repeats no
\* mail that has a key, and cuts no body inside a pair, however answers are lost
\* and sends repeated (provider-*/src/index.ts).
THEOREM AnswersRead == ProvidersSpec => []AnswersJudged
<1>1. ProvidersInv => AnswersJudged
  BY DEF ProvidersInv
<1> QED
  BY <1>1, ProvidersInvInit, ProvidersInvNext, PTL DEF ProvidersSpec

-----------------------------------------------------------------------------
(***************************************************************************)
(* The circuit breaker.                                                    *)
(***************************************************************************)

\* One call is the probe while the flag stands, and a breaker that is closed
\* beside it was closed by a call that outlived the opening.
LoneProbe ==
    /\ probeInFlight <=> Probes # {}
    /\ \A c, d \in Probes : c = d
ClosedIsOutlived == probeInFlight /\ circuit = "CLOSED" => outlived

BreakerInv == BreakerTypeOK /\ LoneProbe /\ ReopensAtOnce /\ ClosedIsOutlived

LEMMA BreakerInvInit == BreakerInit => BreakerInv
<1> SUFFICES ASSUME BreakerInit PROVE BreakerInv
  OBVIOUS
<1>1. Probes = {}
  BY DEF BreakerInit, Probes
<1>2. BreakerTypeOK
  <2>1. 0 \in 0..Threshold
    BY BreakerAssumption
  <2>2. QED  BY <2>1 DEF BreakerInit, BreakerTypeOK
<1>3. LoneProbe
  BY <1>1 DEF BreakerInit, LoneProbe
<1>4. QED
  BY <1>2, <1>3 DEF BreakerInit, BreakerInv, ReopensAtOnce, ClosedIsOutlived

LEMMA BreakerInvStep == BreakerInv /\ [BreakerNext]_breakerVars => BreakerInv'
<1> SUFFICES ASSUME BreakerInv, [BreakerNext]_breakerVars PROVE BreakerInv'
  OBVIOUS
<1> USE BreakerAssumption DEF BreakerInv, BreakerTypeOK
<1>1. ASSUME NEW c \in Calls, AdmitPlain(c) PROVE BreakerInv'
  BY <1>1 DEF AdmitPlain, LoneProbe, Probes, ReopensAtOnce, ClosedIsOutlived
<1>2. ASSUME NEW c \in Calls, AdmitProbe(c) PROVE BreakerInv'
  BY <1>2 DEF AdmitProbe, LoneProbe, Probes, ReopensAtOnce, ClosedIsOutlived
<1>3. ASSUME NEW c \in Calls, SettleCall(c), call[c] # "idle" PROVE LoneProbe'
  <2>1. Probes' = Probes \ {c}
    BY <1>3 DEF SettleCall, Probes
  <2>2. CASE call[c] = "probe"
    BY <2>1, <2>2, <1>3 DEF SettleCall, LoneProbe, Probes
  <2>3. CASE call[c] # "probe"
    BY <2>1, <2>3, <1>3 DEF SettleCall, LoneProbe, Probes
  <2>4. QED  BY <2>2, <2>3
<1>4. ASSUME NEW c \in Calls, SettleCall(c)
      PROVE  /\ call' \in [Calls -> {"idle", "plain", "probe"}]
             /\ probeInFlight' \in BOOLEAN
  BY <1>4 DEF SettleCall
<1>5. ASSUME NEW c \in Calls, Succeed(c) PROVE BreakerInv'
  <2>1. LoneProbe'
    BY <1>5, <1>3 DEF Succeed
  <2>2. /\ failures' = 0 /\ circuit' = "CLOSED" /\ UNCHANGED ripe
        /\ outlived' = (outlived \/ (probeInFlight /\ call[c] = "plain"))
    BY <1>5 DEF Succeed
  <2>3. outlived' \in BOOLEAN
    BY <2>2
  <2>4. ClosedIsOutlived'
    BY <1>5, <2>2 DEF Succeed, SettleCall, ClosedIsOutlived
  <2>5. QED
    BY <2>1, <2>2, <2>3, <2>4, <1>4, <1>5 DEF Succeed, ReopensAtOnce
<1>6. ASSUME NEW c \in Calls, Fail(c) PROVE BreakerInv'
  <2>1. LoneProbe'
    BY <1>6, <1>3 DEF Fail
  <2>2. /\ failures' \in 0..Threshold /\ ripe' \in BOOLEAN
        /\ \/ circuit' = "OPEN" /\ failures' = Threshold
           \/ circuit' = circuit /\ (failures = Threshold => failures' = Threshold)
        /\ outlived' = outlived
    <3> DEFINE n == IF failures < Threshold THEN failures + 1 ELSE Threshold
    <3>1. n \in 0..Threshold /\ (failures = Threshold => n = Threshold)
      OBVIOUS
    <3>2. /\ failures' = n /\ outlived' = outlived
          /\ IF n >= Threshold
             THEN circuit' = "OPEN" /\ ripe' = FALSE
             ELSE UNCHANGED <<circuit, ripe>>
      BY <1>6 DEF Fail
    <3> HIDE DEF n
    <3>3. ripe' \in BOOLEAN
      BY <3>2
    <3>4. QED  BY <3>1, <3>2, <3>3
  <2>3. ClosedIsOutlived'
    BY <1>6, <2>2 DEF Fail, SettleCall, ClosedIsOutlived
  <2>4. ReopensAtOnce'
    BY <2>2 DEF ReopensAtOnce
  <2>5. QED
    BY <2>1, <2>2, <2>3, <2>4, <1>4, <1>6 DEF Fail
<1>7. CASE Ripen
  BY <1>7 DEF Ripen, LoneProbe, Probes, ReopensAtOnce, ClosedIsOutlived
<1>8. CASE UNCHANGED breakerVars
  BY <1>8 DEF breakerVars, LoneProbe, Probes, ReopensAtOnce, ClosedIsOutlived
<1>9. QED  BY <1>1, <1>2, <1>5, <1>6, <1>7, <1>8 DEF BreakerNext

\* A flag that stands shuts out everyone until the breaker is closed again.
LEMMA NobodyPasses ==
    ASSUME BreakerInv, [BreakerNext]_breakerVars, NEW c \in Calls,
           probeInFlight, call[c] = "idle", call'[c] # "idle"
    PROVE  outlived
<1> USE DEF BreakerInv, BreakerTypeOK, ClosedIsOutlived
<1>1. ASSUME NEW d \in Calls, AdmitPlain(d) PROVE outlived
  BY <1>1 DEF AdmitPlain
<1>2. ASSUME NEW d \in Calls, AdmitProbe(d) PROVE outlived
  BY <1>2 DEF AdmitProbe
<1>3. ASSUME NEW d \in Calls, Succeed(d) \/ Fail(d) PROVE outlived
  BY <1>3 DEF Succeed, Fail, SettleCall
<1>4. CASE Ripen
  BY <1>4 DEF Ripen
<1>5. CASE UNCHANGED breakerVars
  BY <1>5 DEF breakerVars
<1>6. QED  BY <1>1, <1>2, <1>3, <1>4, <1>5 DEF BreakerNext

\* A provider that failed is tested by one call at a time and spared by all the
\* others, whatever answers come late (circuit-breaker.ts, execute).
THEOREM ProviderSpared == BreakerSpec => ProviderIsSpared
<1>1. BreakerInv => ProbeIsAlone /\ ReopensAtOnce
  <2> SUFFICES ASSUME BreakerInv PROVE Cardinality(Probes) <= 1
    BY DEF BreakerInv, LoneProbe, ProbeIsAlone
  <2>1. CASE Probes = {}
    BY <2>1, FS_EmptySet
  <2>2. ASSUME NEW c \in Probes PROVE Probes = {c}
    BY <2>2 DEF BreakerInv, LoneProbe
  <2>3. ASSUME NEW c \in Probes PROVE Cardinality(Probes) <= 1
    BY <2>2, <2>3, FS_Singleton
  <2>4. QED  BY <2>1, <2>3
<1>2. BreakerInv /\ [BreakerNext]_breakerVars =>
        [\A c \in Calls :
           (probeInFlight /\ call[c] = "idle" /\ call'[c] # "idle") => outlived]_breakerVars
  BY NobodyPasses
<1>3. QED
  BY <1>1, <1>2, BreakerInvInit, BreakerInvStep, PTL DEF BreakerSpec, ProviderIsSpared, NoCrowd

(***************************************************************************)
(* The loaders.                                                            *)
(***************************************************************************)

\* Who is in a batch has left the buffer, and is still to be asked for unless it
\* has its answer, but in a DataLoader, which tells everyone at the end.
StillToAsk ==
    \A b \in running : \A r \in b.requests :
        /\ request[r] \in {"loading", "resolved", "rejected"}
        /\ kind # "data" /\ request[r] = "loading" => ProjectOf[r] \in b.left

LoaderInv == LoaderTypeOK /\ NoneForgotten /\ Isolated /\ StillToAsk

LEMMA LoaderInvInit == LoaderInit => LoaderInv
  BY DEF LoaderInit, LoaderInv, LoaderTypeOK, NoneForgotten, Isolated, StillToAsk, Waiting

LEMMA DispatchStep ==
    ASSUME LoaderInv, NEW rq \in [Loads -> {"new", "waiting", "loading", "resolved", "rejected"}],
           \A r \in Loads : rq[r] = request[r] \/ (request[r] = "new" /\ rq[r] = "waiting"),
           Dispatch(rq), UNCHANGED <<kind, refused>>
    PROVE  LoaderInv'
<1> DEFINE new == [requests |-> Waiting(rq), left |-> {ProjectOf[r] : r \in Waiting(rq)}]
<1> USE DEF LoaderInv, LoaderTypeOK
<1>1. new \in [requests : SUBSET Loads, left : SUBSET Projects]
  BY LoaderAssumption DEF Waiting
<1>2. LoaderTypeOK'
  BY <1>1 DEF Dispatch
<1>3. NoneForgotten'
  <2>1. Waiting(request)' = {}
    BY DEF Dispatch, Waiting
  <2>2. ASSUME NEW r \in Loads, request'[r] = "loading" PROVE \E b \in running' : r \in b.requests
    <3>1. CASE rq[r] = "waiting"
      <4>1. r \in Waiting(rq)
        BY <3>1 DEF Waiting
      <4>2. new \in running' /\ r \in new.requests
        BY <4>1 DEF Dispatch
      <4>3. QED  BY <4>2
    <3>2. CASE rq[r] = "loading"
      BY <3>2, <2>2 DEF Dispatch, NoneForgotten
    <3>3. QED  BY <3>1, <3>2, <2>2 DEF Dispatch
  <2>3. QED  BY <2>1, <2>2 DEF NoneForgotten
<1>4. StillToAsk'
  <2> SUFFICES ASSUME NEW b \in running', NEW r \in b.requests
               PROVE  /\ request'[r] \in {"loading", "resolved", "rejected"}
                      /\ kind # "data" /\ request'[r] = "loading" => ProjectOf[r] \in b.left
    BY DEF StillToAsk
  <2>1. CASE b \in running
    <3>1. r \in Loads  BY <2>1
    <3>2. request'[r] = request[r]
      BY <3>1, <2>1 DEF Dispatch, StillToAsk
    <3>3. QED  BY <2>1, <3>2 DEF StillToAsk
  <2>2. CASE b = new /\ Waiting(rq) # {}
    BY <2>2 DEF Waiting, Dispatch
  <2>3. QED  BY <2>1, <2>2 DEF Dispatch
<1>5. Isolated'
  BY DEF Dispatch, Isolated
<1>6. QED  BY <1>2, <1>3, <1>4, <1>5

LEMMA LoadStep == ASSUME LoaderInv, NEW r \in Loads, Load(r) PROVE LoaderInv'
<1> DEFINE rq == [request EXCEPT ![r] = "waiting"]
<1> USE DEF LoaderInv, LoaderTypeOK
<1>1. /\ rq \in [Loads -> {"new", "waiting", "loading", "resolved", "rejected"}]
      /\ \A q \in Loads : rq[q] = request[q] \/ (request[q] = "new" /\ rq[q] = "waiting")
  BY DEF Load
<1>2. CASE Dispatch(rq)
  <2> HIDE DEF rq
  <2> QED  BY <1>1, <1>2, DispatchStep DEF Load
<1>3. CASE request' = rq /\ armed' = TRUE /\ UNCHANGED running
  <2>1. request[r] = "new" /\ UNCHANGED <<kind, refused, running>>
    BY <1>3 DEF Load
  <2>2. \A q \in Loads : request'[q] = IF q = r THEN "waiting" ELSE request[q]
    BY <1>3
  <2>3. LoaderTypeOK'
    BY <1>1, <1>3, <2>1
  <2>4. NoneForgotten' /\ Isolated'
    BY <1>3, <2>1, <2>2 DEF NoneForgotten, Isolated
  <2>5. StillToAsk'
    BY <2>1, <2>2 DEF StillToAsk
  <2>6. QED  BY <2>3, <2>4, <2>5
<1>4. QED  BY <1>2, <1>3 DEF Load

LEMMA TellFacts ==
    ASSUME LoaderInv, NEW rs, NEW result \in {"resolved", "rejected"}
    PROVE  /\ Tell(rs, result) \in [Loads -> {"new", "waiting", "loading", "resolved", "rejected"}]
           /\ Waiting(Tell(rs, result)) = Waiting(request)
           /\ \A r \in Loads : Tell(rs, result)[r] = IF r \in rs /\ request[r] = "loading"
                                                     THEN result ELSE request[r]
  BY DEF Tell, Waiting, LoaderInv, LoaderTypeOK

\* What is left of the batches: b itself, of which one project less is left, and
\* the others.
LEMMA WithoutFacts ==
    ASSUME LoaderInv, NEW b \in running, NEW p \in Projects
    PROVE  /\ Without(b, p) \subseteq [requests : SUBSET Loads, left : SUBSET Projects]
           /\ \A c \in Without(b, p) :
                 c \in running \/ (c.requests = b.requests /\ c.left = b.left \ {p})
           /\ \A c \in running : c # b => c \in Without(b, p)
           /\ b.left # {p} => [b EXCEPT !.left = @ \ {p}] \in Without(b, p)
           /\ [b EXCEPT !.left = @ \ {p}].requests = b.requests
  BY DEF Without, LoaderInv, LoaderTypeOK

LEMMA AnswerStep ==
    ASSUME LoaderInv, NEW b \in running, NEW p \in Projects, QueryAnswers(b, p)
    PROVE  LoaderInv'
<1> USE DEF LoaderInv, LoaderTypeOK
<1> DEFINE rs == IF kind # "data" THEN Of(b, p) ELSE IF b.left = {p} THEN b.requests ELSE {}
<1>1. /\ UNCHANGED <<kind, armed, refused>>
      /\ running' = Without(b, p) /\ p \in b.left
      /\ request' \in [Loads -> {"new", "waiting", "loading", "resolved", "rejected"}]
      /\ \A r \in Loads : request'[r] = IF r \in rs /\ request[r] = "loading"
                                        THEN "resolved" ELSE request[r]
  BY TellFacts DEF QueryAnswers
<1>2. LoaderTypeOK'
  BY <1>1, WithoutFacts
<1>3. NoneForgotten'
  <2>1. Waiting(request') = Waiting(request)
    BY <1>1 DEF Waiting
  <2>2. ASSUME NEW r \in Loads, request'[r] = "loading" PROVE \E c \in running' : r \in c.requests
    <3>1. request[r] = "loading" /\ r \notin rs
      BY <2>2, <1>1
    <3>2. PICK c \in running : r \in c.requests
      BY <3>1 DEF NoneForgotten
    <3>3. CASE c # b
      BY <3>2, <3>3, <1>1, WithoutFacts
    <3>4. CASE c = b
      <4>1. b.left # {p}
        BY <3>1, <3>2, <3>4 DEF Of, StillToAsk
      <4>2. QED  BY <4>1, <3>2, <3>4, <1>1, WithoutFacts
    <3>5. QED  BY <3>3, <3>4
  <2>3. QED  BY <2>1, <2>2, <1>1 DEF NoneForgotten
<1>4. StillToAsk'
  <2> SUFFICES ASSUME NEW c \in running', NEW r \in c.requests
               PROVE  /\ request'[r] \in {"loading", "resolved", "rejected"}
                      /\ kind # "data" /\ request'[r] = "loading" => ProjectOf[r] \in c.left
    BY <1>1 DEF StillToAsk
  <2>1. r \in Loads
    BY <1>2
  <2>2. CASE c \in running
    BY <1>1, <2>1, <2>2 DEF StillToAsk
  <2>3. CASE c.requests = b.requests /\ c.left = b.left \ {p}
    <3>1. r \in b.requests
      BY <2>3
    <3>2. ASSUME kind # "data", request'[r] = "loading" PROVE ProjectOf[r] \in b.left /\ ProjectOf[r] # p
      BY <1>1, <2>1, <3>1, <3>2 DEF StillToAsk, Of
    <3>3. request'[r] \in {"loading", "resolved", "rejected"}
      BY <1>1, <2>1, <3>1 DEF StillToAsk
    <3>4. QED  BY <2>3, <3>2, <3>3
  <2>4. c \in running \/ (c.requests = b.requests /\ c.left = b.left \ {p})
    <3>1. \A d \in Without(b, p) : d \in running \/ (d.requests = b.requests /\ d.left = b.left \ {p})
      BY WithoutFacts
    <3>2. QED  BY <3>1, <1>1
  <2>5. QED  BY <2>2, <2>3, <2>4
<1>5. Isolated'
  BY <1>1 DEF Isolated
<1>6. QED  BY <1>2, <1>3, <1>4, <1>5

LEMMA FailStep ==
    ASSUME LoaderInv, NEW b \in running, NEW p \in Projects, QueryFails(b, p)
    PROVE  LoaderInv'
<1> USE DEF LoaderInv, LoaderTypeOK
<1> DEFINE rs == IF kind = "user" THEN Of(b, p) ELSE b.requests
           left == IF kind = "user" THEN Without(b, p) ELSE running \ {b}
<1>1. /\ UNCHANGED <<kind, armed>>
      /\ running' = left /\ p \in b.left /\ refused' = refused \cup {p}
      /\ request' \in [Loads -> {"new", "waiting", "loading", "resolved", "rejected"}]
      /\ \A r \in Loads : request'[r] = IF r \in rs /\ request[r] = "loading"
                                        THEN "rejected" ELSE request[r]
  BY TellFacts DEF QueryFails
<1>2. LoaderTypeOK'
  BY <1>1, WithoutFacts
<1>3. NoneForgotten'
  <2>1. Waiting(request') = Waiting(request)
    BY <1>1 DEF Waiting
  <2>2. ASSUME NEW r \in Loads, request'[r] = "loading" PROVE \E c \in running' : r \in c.requests
    <3>1. request[r] = "loading" /\ r \notin rs
      BY <2>2, <1>1
    <3>2. PICK c \in running : r \in c.requests
      BY <3>1 DEF NoneForgotten
    <3>3. CASE c # b
      BY <3>2, <3>3, <1>1, WithoutFacts
    <3>4. CASE c = b
      <4>1. kind = "user" /\ b.left # {p}
        BY <3>1, <3>2, <3>4 DEF Of, StillToAsk
      <4>2. QED  BY <4>1, <3>2, <3>4, <1>1, WithoutFacts
    <3>5. QED  BY <3>3, <3>4
  <2>3. QED  BY <2>1, <2>2, <1>1 DEF NoneForgotten
<1>4. StillToAsk'
  <2> SUFFICES ASSUME NEW c \in running', NEW r \in c.requests
               PROVE  /\ request'[r] \in {"loading", "resolved", "rejected"}
                      /\ kind # "data" /\ request'[r] = "loading" => ProjectOf[r] \in c.left
    BY <1>1 DEF StillToAsk
  <2>1. r \in Loads
    BY <1>2
  <2>2. CASE c \in running
    BY <1>1, <2>1, <2>2 DEF StillToAsk
  <2>3. CASE kind = "user" /\ c.requests = b.requests /\ c.left = b.left \ {p}
    <3>1. r \in b.requests
      BY <2>3
    <3>2. ASSUME request'[r] = "loading" PROVE ProjectOf[r] \in b.left /\ ProjectOf[r] # p
      BY <1>1, <2>1, <2>3, <3>1, <3>2 DEF StillToAsk, Of
    <3>3. request'[r] \in {"loading", "resolved", "rejected"}
      BY <1>1, <2>1, <3>1 DEF StillToAsk
    <3>4. QED  BY <2>3, <3>2, <3>3
  <2>4. c \in running \/ (kind = "user" /\ c.requests = b.requests /\ c.left = b.left \ {p})
    <3>1. \A d \in Without(b, p) : d \in running \/ (d.requests = b.requests /\ d.left = b.left \ {p})
      BY WithoutFacts
    <3>2. QED  BY <3>1, <1>1
  <2>5. QED  BY <2>2, <2>3, <2>4
<1>5. Isolated'
  BY <1>1 DEF Isolated, Of
<1>6. QED  BY <1>2, <1>3, <1>4, <1>5

LEMMA LoaderInvStep == LoaderInv /\ [LoaderNext]_loaderVars => LoaderInv'
<1> SUFFICES ASSUME LoaderInv, [LoaderNext]_loaderVars PROVE LoaderInv'
  OBVIOUS
<1>1. CASE LoadTimer
  BY <1>1, DispatchStep DEF LoadTimer, LoaderInv, LoaderTypeOK
<1>2. CASE UNCHANGED loaderVars
  BY <1>2 DEF loaderVars, LoaderInv, LoaderTypeOK, NoneForgotten, Isolated, StillToAsk, Waiting
<1>3. QED  BY <1>1, <1>2, LoadStep, AnswerStep, FailStep DEF LoaderNext

\* Nobody who asked is forgotten, however batches fill, time out and fail, and in
\* the user batch a failure stays with its project (dataloader.ts,
\* enricher/main.ts:216-228).
THEOREM LoadsAnswered == LoaderSpec => []LoadsSettle
<1>1. LoaderInv => LoadsSettle
  BY DEF LoaderInv, LoadsSettle
<1>2. QED  BY <1>1, LoaderInvInit, LoaderInvStep, PTL DEF LoaderSpec

-----------------------------------------------------------------------------
(***************************************************************************)
(* The batch processor.                                                    *)
(***************************************************************************)

\* The batches on the way and the buffer are finite; a batch that was answered
\* holds nothing that is still being flushed.
BatchSizes ==
    /\ IsFiniteSet(answering) /\ IsFiniteSet(answered)
    /\ IsFiniteSet(Buffered(item))
AnsweredIsTold == \A b \in answered : \A i \in b : item[i] \in {"resolved", "rejected"}

BatchInv == BatchTypeOK /\ BatchSizes /\ AnsweredIsTold /\ NoneStuck /\ OneBatchEach

ItemStates == {"new", "buffered", "flushing", "resolved", "rejected"}

LEMMA BatchInvInit == BatchInit => BatchInv
<1> SUFFICES ASSUME BatchInit PROVE BatchInv
  OBVIOUS
<1>1. Buffered(item) = {} /\ InFlight = {} /\ Cardinality({}) = 0 /\ IsFiniteSet({})
  BY FS_EmptySet DEF BatchInit, Buffered, InFlight
<1>2. BatchTypeOK
  BY DEF BatchInit, BatchTypeOK
<1>3. {i \in Items : item[i] = "flushing"} = UNION answering
  BY DEF BatchInit
<1>4. Cardinality(InFlight) <= MaxConcurrent
  BY <1>1, BatchAssumption
<1>5. QED
  BY <1>1, <1>2, <1>3, <1>4
     DEF BatchInit, BatchInv, BatchSizes, AnsweredIsTold, NoneStuck, OneBatchEach

\* Batches that are on the way are not on the way twice.
LEMMA OnTheWay ==
    ASSUME BatchInv
    PROVE  /\ answering \cap answered = {} /\ IsFiniteSet(InFlight)
           /\ \A b \in answering : b # {} /\ \A i \in b : i \in Items /\ item[i] = "flushing"
           /\ \A b \in answered : b # {} /\ \A i \in b : i \in Items /\ item[i] \in {"resolved", "rejected"}
<1> USE DEF BatchInv
<1>1. \A b \in answering : b # {} /\ \A i \in b : i \in Items /\ item[i] = "flushing"
  BY DEF OneBatchEach, BatchTypeOK, Batches
<1>2. \A b \in answered : b # {} /\ \A i \in b : i \in Items /\ item[i] \in {"resolved", "rejected"}
  BY DEF AnsweredIsTold, BatchTypeOK, Batches
<1>3. answering \cap answered = {}
  BY <1>1, <1>2
<1>4. IsFiniteSet(InFlight)
  BY FS_Union DEF BatchSizes, InFlight
<1>5. QED  BY <1>1, <1>2, <1>3, <1>4

\* Taking the buffer makes one batch more, of items no other batch has.
LEMMA TakeStep ==
    ASSUME BatchInv, NEW it \in [Items -> ItemStates], Take(it), IsFiniteSet(Buffered(it)),
           Buffered(it) # {},
           \A i \in Items : it[i] = item[i] \/ (item[i] = "new" /\ it[i] = "buffered"),
           NEW rest, answered' = answered \ rest, rest \subseteq answered,
           Cardinality(answering \cup (answered \ rest)) < MaxConcurrent,
           batchTimer' \in BOOLEAN, draining' \in BOOLEAN, awaited' \subseteq Items
    PROVE  BatchInv'
<1> DEFINE batch == Buffered(it)
           old   == answering \cup (answered \ rest)
<1>1. /\ item' \in [Items -> ItemStates]
      /\ \A i \in Items : item'[i] = IF i \in batch THEN "flushing" ELSE item[i]
      /\ answering' = answering \cup {batch}
      /\ \A i \in batch : i \in Items /\ item[i] \in {"new", "buffered"}
  BY DEF Take, Buffered, ItemStates
<1>2. InFlight' = old \cup {batch} /\ old \subseteq InFlight
  BY <1>1 DEF InFlight
<1> HIDE DEF batch, old
<1>3. \A b \in InFlight : b # {} /\ \A i \in b : i \in Items /\ i \notin batch /\ item'[i] = item[i]
  <2>1. \A b \in InFlight : b # {} /\ \A i \in b : i \in Items /\ item[i] \in {"flushing", "resolved", "rejected"}
    BY OnTheWay DEF InFlight
  <2>2. QED  BY <2>1, <1>1
<1>4. BatchTypeOK'
  BY <1>1 DEF BatchInv, BatchTypeOK, Batches, ItemStates, batch
<1>5. Buffered(item)' = {}
  BY <1>1 DEF Buffered, batch
<1>6. IsFiniteSet(old) /\ Cardinality(old) \in Nat
  BY OnTheWay, <1>2, FS_Subset, FS_CardinalityType
<1>7. BatchSizes'
  <2>1. IsFiniteSet(answering') /\ IsFiniteSet(answered')
    BY <1>1, FS_AddElement, FS_Subset DEF BatchInv, BatchSizes
  <2>2. QED  BY <2>1, <1>5, FS_EmptySet DEF BatchSizes
<1>8. AnsweredIsTold'
  BY <1>3, OnTheWay DEF AnsweredIsTold, InFlight
<1>9. NoneStuck'
  BY <1>5 DEF NoneStuck
<1>10. OneBatchEach'
  <2>1. \A a, b \in InFlight' : a # b => a \cap b = {}
    <3>1. \A b \in old : b \cap batch = {}
      BY <1>2, <1>3
    <3>2. \A a, b \in old : a # b => a \cap b = {}
      BY <1>2 DEF BatchInv, OneBatchEach
    <3>3. QED  BY <1>2, <3>1, <3>2
  <2>2. {i \in Items : item'[i] = "flushing"} = UNION answering'
    <3>1. {i \in Items : item[i] = "flushing"} = UNION answering
      BY DEF BatchInv, OneBatchEach
    <3>2. \A i \in Items : item'[i] = "flushing" <=> i \in batch \/ item[i] = "flushing"
      BY <1>1
    <3>3. QED  BY <1>1, <3>1, <3>2
  <2>3. Cardinality(InFlight') <= MaxConcurrent
    <3>1. Cardinality(old \cup {batch}) <= Cardinality(old) + 1
      <4>1. Cardinality(old \cup {batch}) = IF batch \in old THEN Cardinality(old) ELSE Cardinality(old) + 1
        BY <1>6, FS_AddElement
      <4>2. QED  BY <4>1, <1>6
    <3>2. Cardinality(old \cup {batch}) \in Nat
      BY <1>6, FS_AddElement, FS_CardinalityType
    <3>3. Cardinality(old) < MaxConcurrent
      BY DEF old
    <3>4. QED  BY <1>2, <1>6, <3>1, <3>2, <3>3, BatchAssumption
  <2>4. QED  BY <2>1, <2>2, <2>3 DEF OneBatchEach
<1>11. QED  BY <1>4, <1>7, <1>8, <1>9, <1>10 DEF BatchInv

\* An item in the buffer is a buffer that is not empty, and no more.
LEMMA BufferCounts ==
    ASSUME NEW it \in [Items -> ItemStates], IsFiniteSet(Buffered(it))
    PROVE  /\ Cardinality(Buffered(it)) \in Nat
           /\ Cardinality(Buffered(it)) = 0 <=> Buffered(it) = {}
           /\ Cardinality(Buffered(it)) >= MaxSize => Buffered(it) # {}
  BY FS_EmptySet, FS_CardinalityType, BatchAssumption

LEMMA AddStep == ASSUME BatchInv, NEW i \in Items, Add(i) PROVE BatchInv'
<1> DEFINE it == [item EXCEPT ![i] = "buffered"]
<1>1. it \in [Items -> ItemStates] /\ UNCHANGED <<answered, draining, awaited>>
      /\ \A j \in Items : it[j] = item[j] \/ (item[j] = "new" /\ it[j] = "buffered")
  BY DEF Add, BatchInv, BatchTypeOK, ItemStates
<1>2. Buffered(it) = Buffered(item) \cup {i}
  BY DEF Buffered, BatchInv, BatchTypeOK
<1>3. IsFiniteSet(Buffered(it))
  BY <1>2, FS_AddElement DEF BatchInv, BatchSizes
<1>4. CASE /\ Cardinality(Buffered(it)) >= MaxSize /\ FreeSlot
           /\ batchTimer' = FALSE /\ Take(it)
  <2>1. answered' = answered \ {} /\ Cardinality(answering \cup (answered \ {})) < MaxConcurrent
    <3>1. answered \ {} = answered
      OBVIOUS
    <3>2. QED  BY <1>1, <1>4, <3>1 DEF FreeSlot, InFlight
  <2>2. Buffered(it) # {}
    BY <1>2
  <2>3. batchTimer' \in BOOLEAN /\ draining' \in BOOLEAN /\ awaited' \subseteq Items
    BY <1>1, <1>4 DEF BatchInv, BatchTypeOK
  <2> HIDE DEF it
  <2>4. QED  BY <1>1, <1>3, <1>4, <2>1, <2>2, <2>3, TakeStep
<1>5. CASE item' = it /\ batchTimer' = (batchTimer \/ FreeSlot) /\ UNCHANGED answering
  <2>1. BatchTypeOK'
    <3>1. batchTimer' \in BOOLEAN
      BY <1>5
    <3>2. QED  BY <3>1, <1>1, <1>5 DEF BatchInv, BatchTypeOK, ItemStates
  <2>2. BatchSizes' /\ NoneStuck'
    BY <1>1, <1>3, <1>5 DEF BatchInv, BatchSizes, NoneStuck, FreeSlot, InFlight
  <2>3. \A j \in Items : j # i => item'[j] = item[j]
    BY <1>5 DEF BatchInv, BatchTypeOK
  <2>4. item[i] = "new" /\ item'[i] = "buffered"
    BY <1>5 DEF Add, BatchInv, BatchTypeOK
  <2>5. AnsweredIsTold'
    BY <1>1, <2>3, <2>4, OnTheWay DEF AnsweredIsTold
  <2>6. OneBatchEach'
    <3>1. {j \in Items : item'[j] = "flushing"} = {j \in Items : item[j] = "flushing"}
      BY <2>3, <2>4
    <3>2. QED  BY <3>1, <1>1, <1>5 DEF BatchInv, OneBatchEach, InFlight
  <2>7. QED  BY <2>1, <2>2, <2>5, <2>6 DEF BatchInv
<1>6. QED  BY <1>4, <1>5 DEF Add

\* The steps that take the buffer as it is.
LEMMA TakeBuffer ==
    ASSUME BatchInv, Take(item), Buffered(item) # {},
           NEW rest \in SUBSET answered, answered' = answered \ rest,
           Cardinality(answering \cup (answered \ rest)) < MaxConcurrent,
           batchTimer' \in BOOLEAN, draining' \in BOOLEAN, awaited' \subseteq Items
    PROVE  BatchInv'
  BY TakeStep DEF BatchInv, BatchTypeOK, BatchSizes, ItemStates

LEMMA AllSlots ==
    ASSUME FreeSlot
    PROVE  answered \ {} = answered /\ Cardinality(answering \cup (answered \ {})) < MaxConcurrent
<1>1. answered \ {} = answered
  OBVIOUS
<1>2. QED  BY <1>1 DEF FreeSlot, InFlight

\* The steps that leave the items and the batches alone.
LEMMA TimerOnly ==
    ASSUME BatchInv, UNCHANGED <<item, answering, answered>>, NoneStuck',
           batchTimer' \in BOOLEAN, draining' \in BOOLEAN, awaited' \subseteq Items
    PROVE  BatchInv'
  BY DEF BatchInv, BatchTypeOK, BatchSizes, AnsweredIsTold, OneBatchEach, InFlight, Buffered

LEMMA TimerStep == ASSUME BatchInv, TimerFires PROVE BatchInv'
<1>1. /\ batchTimer' = FALSE /\ UNCHANGED <<answered, draining, awaited>>
      /\ draining' \in BOOLEAN /\ awaited' \subseteq Items
  BY DEF TimerFires, BatchInv, BatchTypeOK
<1>2. CASE Buffered(item) # {} /\ FreeSlot /\ Take(item)
  BY <1>1, <1>2, AllSlots, TakeBuffer
<1>3. CASE UNCHANGED <<item, answering>> /\ ~(Buffered(item) # {} /\ FreeSlot)
  <2>1. NoneStuck'
    BY <1>1, <1>3 DEF NoneStuck, FreeSlot, InFlight, Buffered
  <2>2. QED  BY <1>1, <1>3, <2>1, TimerOnly
<1>4. QED  BY <1>2, <1>3 DEF TimerFires

LEMMA AnswerBatchStep ==
    ASSUME BatchInv, NEW b \in Batches, NEW result \in {"resolved", "rejected"}, Answer(b, result)
    PROVE  BatchInv'
<1>1. /\ b \in answering /\ UNCHANGED <<batchTimer, draining, awaited>>
      /\ item' \in [Items -> ItemStates]
      /\ \A i \in Items : item'[i] = IF i \in b THEN result ELSE item[i]
      /\ answering' = answering \ {b} /\ answered' = answered \cup {b}
  BY DEF Answer, BatchInv, BatchTypeOK, ItemStates
<1>2. InFlight' = InFlight
  BY <1>1 DEF InFlight
<1>3. \A i \in b : i \in Items /\ item[i] = "flushing"
  BY <1>1, OnTheWay
<1>4. BatchTypeOK'
  BY <1>1 DEF BatchInv, BatchTypeOK, ItemStates
<1>5. Buffered(item)' = Buffered(item)
  BY <1>1, <1>3 DEF Buffered
<1>6. BatchSizes' /\ NoneStuck'
  BY <1>1, <1>2, <1>5, FS_AddElement, FS_RemoveElement DEF BatchInv, BatchSizes, NoneStuck, FreeSlot
<1>7. AnsweredIsTold'
  <2>1. \A c \in answered : \A i \in c : i \in Items
    BY OnTheWay
  <2>2. QED  BY <1>1, <1>3, <2>1 DEF BatchInv, AnsweredIsTold
<1>8. OneBatchEach'
  <2>1. {i \in Items : item'[i] = "flushing"} = {i \in Items : item[i] = "flushing"} \ b
    BY <1>1, <1>3
  <2>2. UNION (answering \ {b}) = (UNION answering) \ b
    BY <1>1 DEF BatchInv, OneBatchEach, InFlight
  <2>3. QED  BY <1>1, <1>2, <2>1, <2>2 DEF BatchInv, OneBatchEach
<1>9. QED  BY <1>4, <1>6, <1>7, <1>8 DEF BatchInv

LEMMA EndStep == ASSUME BatchInv, NEW b \in Batches, EndFlush(b) PROVE BatchInv'
<1>1. /\ b \in answered /\ answered' = answered \ {b} /\ UNCHANGED draining
      /\ awaited' \subseteq Items /\ draining' \in BOOLEAN
  BY DEF EndFlush, BatchInv, BatchTypeOK
<1>2. item \in [Items -> ItemStates] /\ IsFiniteSet(Buffered(item))
  BY DEF BatchInv, BatchTypeOK, BatchSizes, ItemStates
<1>3. Cardinality(answering \cup (answered \ {b})) < MaxConcurrent
  <2>1. answering \cup (answered \ {b}) = InFlight \ {b} /\ b \in InFlight
    BY <1>1, OnTheWay DEF InFlight
  <2>2. Cardinality(InFlight \ {b}) = Cardinality(InFlight) - 1
    BY <2>1, OnTheWay, FS_RemoveElement
  <2>3. Cardinality(InFlight) \in Nat /\ Cardinality(InFlight) <= MaxConcurrent
    BY OnTheWay, FS_CardinalityType DEF BatchInv, OneBatchEach
  <2>4. QED  BY <2>1, <2>2, <2>3, BatchAssumption
<1>4. CASE Cardinality(Buffered(item)) >= MaxSize /\ Take(item) /\ UNCHANGED batchTimer
  <2>1. Buffered(item) # {}
    BY <1>2, <1>4, BufferCounts
  <2>2. batchTimer' \in BOOLEAN
    BY <1>4 DEF BatchInv, BatchTypeOK
  <2>3. QED  BY <1>1, <1>3, <1>4, <2>1, <2>2, TakeBuffer
<1>5. ASSUME UNCHANGED <<item, answering>>, batchTimer' \in BOOLEAN,
             batchTimer' \/ Buffered(item) = {}
      PROVE  BatchInv'
  <2>1. BatchTypeOK' /\ BatchSizes' /\ AnsweredIsTold' /\ NoneStuck'
    BY <1>1, <1>5, FS_RemoveElement
       DEF BatchInv, BatchTypeOK, BatchSizes, AnsweredIsTold, NoneStuck, Buffered
  <2>2. InFlight' = answering \cup (answered \ {b}) /\ InFlight' \subseteq InFlight
    BY <1>1, <1>5 DEF InFlight
  <2>3. Cardinality(InFlight') <= MaxConcurrent
    <3>1. Cardinality(InFlight') \in Nat
      BY <2>2, OnTheWay, FS_Subset, FS_CardinalityType
    <3>2. QED  BY <3>1, <2>2, <1>3, BatchAssumption
  <2>4. OneBatchEach'
    BY <1>5, <2>2, <2>3 DEF BatchInv, OneBatchEach
  <2>5. QED  BY <2>1, <2>4 DEF BatchInv
<1>6. \/ Cardinality(Buffered(item)) >= MaxSize /\ Take(item) /\ UNCHANGED batchTimer
      \/ UNCHANGED <<item, answering>> /\ batchTimer' = TRUE
      \/ /\ UNCHANGED <<item, batchTimer, answering>>
         /\ Cardinality(Buffered(item)) = 0 \/ batchTimer
  BY DEF EndFlush
<1>7. QED
  BY <1>2, <1>4, <1>5, <1>6, BufferCounts DEF BatchInv, BatchTypeOK

LEMMA LoopStep == ASSUME BatchInv, FlushLoop PROVE BatchInv'
<1>1. CASE /\ FreeSlot /\ batchTimer' = FALSE /\ Take(item) /\ Buffered(item) # {}
           /\ awaited' = Buffered(item) /\ UNCHANGED <<draining, answered>>
  <2>1. draining' \in BOOLEAN /\ awaited' \subseteq Items
    BY <1>1 DEF BatchInv, BatchTypeOK, Buffered
  <2>2. QED  BY <1>1, <2>1, AllSlots, TakeBuffer
<1>2. CASE draining' = FALSE /\ UNCHANGED <<item, batchTimer, answering, answered, awaited>>
  <2>1. NoneStuck' /\ batchTimer' \in BOOLEAN /\ awaited' \subseteq Items
    BY <1>2 DEF BatchInv, BatchTypeOK, NoneStuck, FreeSlot, InFlight, Buffered
  <2>2. QED  BY <1>2, <2>1, TimerOnly
<1>3. QED  BY <1>1, <1>2 DEF FlushLoop

LEMMA BatchInvStep == BatchInv /\ [BatchNext]_batchVars => BatchInv'
<1> SUFFICES ASSUME BatchInv, [BatchNext]_batchVars PROVE BatchInv'
  OBVIOUS
<1>1. ASSUME UNCHANGED <<item, batchTimer, answering, answered, awaited>>,
             draining' \in BOOLEAN
      PROVE  BatchInv'
  <2>1. NoneStuck' /\ batchTimer' \in BOOLEAN /\ awaited' \subseteq Items
    BY <1>1 DEF BatchInv, BatchTypeOK, NoneStuck, FreeSlot, InFlight, Buffered
  <2>2. QED  BY <1>1, <2>1, TimerOnly
<1>2. CASE Flush
  BY <1>1, <1>2 DEF Flush
<1>3. CASE UNCHANGED batchVars
  BY <1>1, <1>3 DEF batchVars, BatchInv, BatchTypeOK
<1>4. QED
  BY <1>2, <1>3, AddStep, TimerStep, AnswerBatchStep, EndStep, LoopStep DEF BatchNext

\* Whatever adds, timers, answers and drains cross, an item has a timer or the
\* end of a flush to come for it, and is flushed in one batch (batch-processor.ts).
THEOREM BatchesSettled == BatchSpec => []BatchesSettle
<1>1. BatchInv => BatchesSettle
  BY DEF BatchInv, BatchesSettle
<1>2. QED  BY <1>1, BatchInvInit, BatchInvStep, PTL DEF BatchSpec

\* The breaker, the batches and the loaders keep all that is asked of them
\* (circuit-breaker.ts, batch-processor.ts, enricher/main.ts).
THEOREM PrimitivesKept == PrimitivesSpec => PrimitivesHold
  BY ProviderSpared, BatchesSettled, LoadsAnswered, PTL DEF PrimitivesSpec, PrimitivesHold

-----------------------------------------------------------------------------
(* Starting and stopping a server.                                         *)

ServicePhases == {"down", "open", "subscribing", "running", "draining", "stopped"}
StopPhases == {"idle", "turn", "drain", "close", "reject", "done", "failed"}
RedisClients == [refs : Nat, open : BOOLEAN]

ConnTypes ==
    /\ clients \in Seq(RedisClients)
    /\ sharedEntry \in 0..Len(clients)
    /\ heldOn \in [Services -> 0..Len(clients)]
    /\ released \subseteq Services

LifeTypes ==
    /\ chosen \subseteq Services
    /\ startup \in {"new", "migrating", "starting", "waiting", "done", "failed"}
    /\ toStart \subseteq chosen
    /\ service \in [Services -> ServicePhases]
    /\ pools \subseteq Services \cup {"migrations"}
    /\ subs \subseteq Services
    /\ inFlight \in [owner : Services \cup {"none", "recovery"}, stage : Services \cup {"none"}]
    /\ reclaiming \in Services \cup {"none"}
    /\ stopper \in [Stoppers -> [left : SUBSET chosen, phase : StopPhases]]

\* The services that have not given their handle back, by connection.
HasHandle(s) == heldOn[s] # 0 /\ s \notin released
Holders(i) == {s \in Services : heldOn[s] = i /\ s \notin released}

\* A connection is open as long as it has a reference, and it has one for each
\* handle at least.
RefsCover ==
    /\ \A i \in DOMAIN clients :
          /\ Cardinality(Holders(i)) <= clients[i].refs
          /\ clients[i].open <=> clients[i].refs # 0
    /\ sharedEntry # 0 => clients[sharedEntry].refs # 0

-----------------------------------------------------------------------------
Up(s) == service[s] \in {"open", "subscribing", "running", "draining"}
Opened(s) == HasHandle(s) \/ s \in pools \/ s \in subs
Shutting(s) == \E p \in Stoppers : StopsAt(p, "close", s)

\* What is so as long as no stop ran beside a start or another stop.

\* References are handles.
RefsAreHolders == \A i \in DOMAIN clients : clients[i].refs = Cardinality(Holders(i))

\* One stop at a time, of a server that is not being started.
OneStop ==
    /\ \A p \in Stoppers : stopper[p].phase \in {"idle", "turn", "drain", "close", "done"}
    /\ \A p, q \in Stoppers : Active(p) /\ Active(q) => p = q
    /\ \A p \in Stoppers : stopper[p].phase # "idle" => ~Starting
    /\ \A p \in Stoppers : stopper[p].phase = "done" => stopper[p].left = {}

\* Services come up in a start only, and those whose turn is past are up.
StartFits ==
    /\ startup # "starting" => toStart = {}
    /\ startup = "migrating" => \A s \in Services : ~Up(s)
    /\ startup \in {"starting", "waiting"} => \A s \in chosen : s \in toStart <=> ~Up(s)
    /\ ~Starting => \A s \in Services : service[s] \notin {"open", "subscribing"}
    /\ \A s \in Services : service[s] = "subscribing" => s \in subs
    /\ \A s \in Services : service[s] # "down" => s \in chosen

\* What a service has opened is open while it is up, or about to be closed.
OpenIsUp == \A s \in Services : Opened(s) => Up(s) \/ Shutting(s)

\* A stop has left nothing of the services whose turn is past.
PastIsShut == \A p \in Stoppers : stopper[p].phase # "idle" =>
    \A s \in Services \ stopper[p].left : ~Opened(s) /\ (Up(s) => timedOut)

\* A service that drains has a stop that waits for it, and no subscriber.
DrainIsAwaited ==
    \A s \in Services :
        /\ service[s] = "draining" /\ (s = "api" \/ ~timedOut) =>
             \E p \in Stoppers : StopsAt(p, "drain", s)
        /\ s # "api" => \A p \in Stoppers : StopsAt(p, "drain", s) => s \notin subs

ShuttingIsDown ==
    \A s \in Services : Shutting(s) => s \notin subs /\ (Up(s) => timedOut)

\* A service that is up has its connections, unless a drain timed out.
UpIsOpen == ~timedOut => \A s \in Services : Up(s) => s \in pools /\ HasHandle(s)

\* The stages of the pipeline come up and go down in an order in which each
\* finds the next one up.
NextIsUp ==
    ~timedOut /\ Pipeline \subseteq chosen =>
        /\ Up("enricher") => Up("engine")
        /\ Up("engine") => Up("delivery")

InOrder ==
    /\ OneStop /\ StartFits /\ OpenIsUp /\ PastIsShut /\ DrainIsAwaited
    /\ ShuttingIsDown /\ UpIsOpen /\ NextIsUp

Orderly == ~overlapped => RefsAreHolders /\ InOrder

-----------------------------------------------------------------------------
Works(s) == service[s] \in {"running", "draining"}
Reaches(owner, stage) ==
    \/ stage = owner
    \/ /\ inline
       /\ \/ owner = "enricher" /\ stage \in {"engine", "delivery"}
          \/ owner = "engine" /\ stage = "delivery"

InlineFits == inline => Pipeline \subseteq chosen

\* The message in flight is in a slot of a service that is up, and so is the
\* stage that works on it.
JobFits ==
    ~overlapped /\ ~timedOut /\ ~behindDrain =>
        /\ inFlight # NoJob =>
             /\ inFlight.owner \in Services \ {"api"} /\ inFlight.stage \in Services
             /\ Works(inFlight.owner)
             /\ Reaches(inFlight.owner, inFlight.stage)
             /\ Up(inFlight.stage)
        /\ reclaiming # "none" => reclaiming = inFlight.owner /\ inFlight # NoJob

JobsFit == InlineFits /\ JobFits /\ NoneCutShort
RefsFit == ConnTypes /\ RefsCover /\ (~overlapped => RefsAreHolders)

LifecycleInv == LifeTypes /\ ConnTypes /\ RefsCover /\ Orderly /\ JobsFit

-----------------------------------------------------------------------------
LEMMA ServicesAre ==
    /\ Services = {"api", "delivery", "engine", "enricher", "scheduler", "ai", "workflow", "events"}
    /\ "none" \notin Services /\ "recovery" \notin Services /\ "migrations" \notin Services
  BY DEF Services, StartTurn

LEMMA StopTurns ==
    ASSUME NEW left, NEW s \in Services, NEW t \in Services,
           IsNext(s, left, StopTurn), IsNext(t, left, StopTurn)
    PROVE  s = t
<1>1. StopTurn[s] \in Nat /\ StopTurn[t] \in Nat
  BY ServicesAre DEF StopTurn
<1>2. StopTurn[s] = StopTurn[t]
  BY <1>1 DEF IsNext
<1>3. QED  BY <1>2, ServicesAre DEF StopTurn

LEMMA HoldersFinite ==
    ASSUME NEW i
    PROVE  IsFiniteSet(Holders(i)) /\ Cardinality(Holders(i)) \in Nat
<1>1. IsFiniteSet(Services)
  <2> DEFINE a == {} \cup {"api"}
             b == a \cup {"delivery"}
             c == b \cup {"engine"}
             d == c \cup {"enricher"}
             e == d \cup {"scheduler"}
             f == e \cup {"ai"}
             g == f \cup {"workflow"}
             h == g \cup {"events"}
  <2>1. IsFiniteSet(a) /\ IsFiniteSet(b) /\ IsFiniteSet(c) /\ IsFiniteSet(d) /\ IsFiniteSet(e)
        /\ IsFiniteSet(f) /\ IsFiniteSet(g) /\ IsFiniteSet(h)
    <3> HIDE DEF a, b, c, d, e, f, g, h
    <3>1. IsFiniteSet(a)  BY FS_EmptySet, FS_AddElement DEF a
    <3>2. IsFiniteSet(b)  BY <3>1, FS_AddElement DEF b
    <3>3. IsFiniteSet(c)  BY <3>2, FS_AddElement DEF c
    <3>4. IsFiniteSet(d)  BY <3>3, FS_AddElement DEF d
    <3>5. IsFiniteSet(e)  BY <3>4, FS_AddElement DEF e
    <3>6. IsFiniteSet(f)  BY <3>5, FS_AddElement DEF f
    <3>7. IsFiniteSet(g)  BY <3>6, FS_AddElement DEF g
    <3>8. IsFiniteSet(h)  BY <3>7, FS_AddElement DEF h
    <3>9. QED  BY <3>1, <3>2, <3>3, <3>4, <3>5, <3>6, <3>7, <3>8
  <2>2. h = Services
    BY ServicesAre
  <2>3. QED  BY <2>1, <2>2
<1>2. Holders(i) \subseteq Services
  BY DEF Holders
<1>3. QED  BY <1>1, <1>2, FS_Subset, FS_CardinalityType

\* A service takes a handle.
LEMMA ShareKeeps ==
    ASSUME ConnTypes, RefsCover, NEW s \in Services, Share(s)
    PROVE  /\ ConnTypes' /\ RefsCover'
           /\ RefsAreHolders /\ ~HasHandle(s) => RefsAreHolders'
           /\ HasHandle(s)' /\ \A t \in Services \ {s} : HasHandle(t)' = HasHandle(t)
<1> USE DEF ConnTypes
<1>a. \A i \in DOMAIN clients : clients[i].refs \in Nat
  <2>1. \A i \in DOMAIN clients : clients[i] \in RedisClients
    OBVIOUS
  <2>2. QED  BY <2>1 DEF RedisClients
<1>b. \A i : Cardinality(Holders(i)) \in Nat
  BY HoldersFinite
<1> PICK conn : conn = sharedEntry'
  OBVIOUS
<1>1. conn \in Nat /\ conn # 0
  <2>1. Len(clients) \in Nat
    OBVIOUS
  <2>2. QED  BY <2>1 DEF Share
<1>2. /\ clients' \in Seq(RedisClients) /\ Len(clients') >= Len(clients)
      /\ conn \in 1..Len(clients')
  <2>1. CASE sharedEntry # 0
    <3>1. /\ clients' = [clients EXCEPT ![sharedEntry].refs = @ + 1]
          /\ conn = sharedEntry /\ sharedEntry \in 1..Len(clients)
      BY <2>1 DEF Share
    <3>2. clients[sharedEntry] \in RedisClients
      BY <3>1
    <3>3. [clients[sharedEntry] EXCEPT !.refs = @ + 1] \in RedisClients
      BY <3>2 DEF RedisClients
    <3>4. QED  BY <3>1, <3>3
  <2>2. CASE sharedEntry = 0
    <3>1. clients' = Append(clients, [refs |-> 1, open |-> TRUE]) /\ conn = Len(clients) + 1
      BY <2>2 DEF Share
    <3>2. [refs |-> 1, open |-> TRUE] \in RedisClients
      BY DEF RedisClients
    <3>3. QED  BY <3>1, <3>2
  <2>3. QED  BY <2>1, <2>2
<1>3. /\ heldOn' = [heldOn EXCEPT ![s] = conn]
      /\ released' = released \ {s}
  BY DEF Share
<1>4. ConnTypes'
  <2>1. heldOn' \in [Services -> 0..Len(clients')]
    BY <1>2, <1>3
  <2>2. QED  BY <2>1, <1>2, <1>3
<1>5. HasHandle(s)' /\ \A t \in Services \ {s} : HasHandle(t)' = HasHandle(t)
  BY <1>1, <1>3 DEF HasHandle
<1>6. /\ Holders(conn)' = (Holders(conn) \ {s}) \cup {s}
      /\ \A i : i # conn => Holders(i)' = Holders(i) \ {s}
      /\ ~HasHandle(s) => \A i \in Nat \ {0} : s \notin Holders(i)
  BY <1>1, <1>3 DEF Holders, HasHandle
<1>7. \A i : /\ Cardinality(Holders(i) \ {s}) \in Nat
             /\ Cardinality(Holders(i) \ {s}) <= Cardinality(Holders(i))
             /\ IsFiniteSet(Holders(i) \ {s})
  <2>1. ASSUME NEW i
        PROVE  /\ Cardinality(Holders(i) \ {s}) \in Nat
               /\ Cardinality(Holders(i) \ {s}) <= Cardinality(Holders(i))
               /\ IsFiniteSet(Holders(i) \ {s})
    <3>1. IsFiniteSet(Holders(i)) /\ Cardinality(Holders(i)) \in Nat
      BY HoldersFinite
    <3>2. /\ IsFiniteSet(Holders(i) \ {s})
          /\ Cardinality(Holders(i) \ {s}) \in {Cardinality(Holders(i)), Cardinality(Holders(i)) - 1}
      BY <3>1, FS_RemoveElement
    <3>3. Cardinality(Holders(i) \ {s}) \in Nat
      BY <3>2, FS_CardinalityType
    <3>4. QED  BY <3>1, <3>2, <3>3
  <2>2. QED  BY <2>1
<1>8. Cardinality(Holders(conn)') = Cardinality(Holders(conn) \ {s}) + 1
  BY <1>6, <1>7, FS_AddElement
<1>9. CASE sharedEntry # 0
  <2>1. /\ clients' = [clients EXCEPT ![sharedEntry].refs = @ + 1]
        /\ conn = sharedEntry /\ conn \in DOMAIN clients
    BY <1>9 DEF Share
  <2>2. /\ DOMAIN clients' = DOMAIN clients
        /\ clients'[conn].refs = clients[conn].refs + 1 /\ clients'[conn].open = clients[conn].open
        /\ \A i \in DOMAIN clients \ {conn} : clients'[i] = clients[i]
    <3>1. clients[conn] \in RedisClients
      BY <2>1
    <3>2. QED  BY <2>1, <3>1 DEF RedisClients
  <2>3. clients[conn].refs # 0
    BY <2>1, <1>9 DEF RefsCover
  <2>4. RefsCover'
    <3>1. ASSUME NEW i \in DOMAIN clients, i # conn
          PROVE  /\ Cardinality(Holders(i)') <= clients'[i].refs
                 /\ clients'[i].open <=> clients'[i].refs # 0
      <4>1. /\ Holders(i)' = Holders(i) \ {s}
            /\ clients'[i] = clients[i] /\ clients[i].refs \in Nat
        BY <3>1, <1>6, <2>2, <1>a
      <4>2. Cardinality(Holders(i) \ {s}) <= Cardinality(Holders(i))
        BY <1>7
      <4>3. Cardinality(Holders(i)) <= clients[i].refs /\ (clients[i].open <=> clients[i].refs # 0)
        BY DEF RefsCover
      <4>4. QED  BY <4>1, <4>2, <4>3, <1>7, <1>b
    <3>2. /\ Cardinality(Holders(conn)') <= clients'[conn].refs
          /\ clients'[conn].open <=> clients'[conn].refs # 0
      <4>1. Cardinality(Holders(conn) \ {s}) <= Cardinality(Holders(conn))
        BY <1>7
      <4>2. Cardinality(Holders(conn)) <= clients[conn].refs /\ clients[conn].open
            /\ clients[conn].refs \in Nat
        BY <2>1, <2>3, <1>a DEF RefsCover
      <4>3. QED  BY <4>1, <4>2, <1>7, <1>b, <1>8, <2>2
    <3>3. QED  BY <3>1, <3>2, <2>1, <2>2 DEF RefsCover
  <2>5. ASSUME RefsAreHolders, ~HasHandle(s) PROVE RefsAreHolders'
    <3>1. \A i \in DOMAIN clients : Holders(i) \ {s} = Holders(i)
      BY <1>6, <2>5
    <3>2. \A i \in DOMAIN clients \ {conn} : clients'[i].refs = Cardinality(Holders(i)')
      BY <1>6, <3>1, <2>2, <2>5 DEF RefsAreHolders
    <3>3. clients'[conn].refs = Cardinality(Holders(conn)')
      BY <1>8, <3>1, <2>1, <2>2, <2>5 DEF RefsAreHolders
    <3>4. QED  BY <3>2, <3>3, <2>2 DEF RefsAreHolders
  <2>6. QED  BY <1>4, <1>5, <2>4, <2>5
<1>10. CASE sharedEntry = 0
  <2>1. /\ clients' = Append(clients, [refs |-> 1, open |-> TRUE])
        /\ conn = Len(clients) + 1
    BY <1>10 DEF Share
  <2>2. /\ DOMAIN clients' = DOMAIN clients \cup {conn}
        /\ clients'[conn] = [refs |-> 1, open |-> TRUE]
        /\ \A i \in DOMAIN clients : i # conn /\ clients'[i] = clients[i]
    <3>1. [refs |-> 1, open |-> TRUE] \in RedisClients
      BY DEF RedisClients
    <3>2. QED  BY <2>1, <3>1
  <2>3. Holders(conn) = {}
    BY <2>1 DEF Holders
  <2>4. Cardinality(Holders(conn)') = 1
    <3>1. Holders(conn) \ {s} = {}
      BY <2>3
    <3>2. Cardinality(Holders(conn) \ {s}) = 0
      BY <3>1, FS_EmptySet
    <3>3. QED  BY <3>2, <1>8
  <2>5. RefsCover'
    <3>1. ASSUME NEW i \in DOMAIN clients
          PROVE  /\ Cardinality(Holders(i)') <= clients'[i].refs
                 /\ clients'[i].open <=> clients'[i].refs # 0
      <4>1. /\ Holders(i)' = Holders(i) \ {s}
            /\ clients'[i] = clients[i] /\ clients[i].refs \in Nat
        BY <1>6, <2>2, <1>a
      <4>2. Cardinality(Holders(i) \ {s}) <= Cardinality(Holders(i))
        BY <1>7
      <4>3. Cardinality(Holders(i)) <= clients[i].refs /\ (clients[i].open <=> clients[i].refs # 0)
        BY DEF RefsCover
      <4>4. QED  BY <4>1, <4>2, <4>3, <1>7, <1>b
    <3>2. QED  BY <3>1, <2>2, <2>4 DEF RefsCover
  <2>6. ASSUME RefsAreHolders, ~HasHandle(s) PROVE RefsAreHolders'
    <3>1. \A i \in DOMAIN clients : Holders(i) \ {s} = Holders(i)
      BY <1>6, <2>6
    <3>2. \A i \in DOMAIN clients : clients'[i].refs = Cardinality(Holders(i)')
      BY <1>6, <3>1, <2>2, <2>6 DEF RefsAreHolders
    <3>3. QED  BY <3>2, <2>2, <2>4 DEF RefsAreHolders
  <2>7. QED  BY <1>4, <1>5, <2>5, <2>6
<1>11. QED  BY <1>9, <1>10

\* A service gives its handle back, if it has one.
LEMMA DisconnectKeeps ==
    ASSUME ConnTypes, RefsCover, NEW s \in Services, Disconnect(s)
    PROVE  /\ ConnTypes' /\ RefsCover' /\ (RefsAreHolders => RefsAreHolders')
           /\ ~HasHandle(s)' /\ \A t \in Services \ {s} : HasHandle(t)' = HasHandle(t)
<1> USE DEF ConnTypes
<1>1. CASE ~HasHandle(s)
  <2>1. UNCHANGED connVars
    BY <1>1 DEF Disconnect, HasHandle
  <2>2. \A i : Holders(i)' = Holders(i)
    BY <2>1 DEF connVars, Holders
  <2>3. QED  BY <1>1, <2>1, <2>2 DEF connVars, RefsCover, RefsAreHolders, HasHandle
<1>2. CASE HasHandle(s)
  <2>0. PICK conn, refs : conn = heldOn[s] /\ refs = clients[conn].refs - 1
    OBVIOUS
  <2>1. /\ clients' = [clients EXCEPT ![conn] = [refs |-> refs, open |-> @.open /\ refs # 0]]
        /\ sharedEntry' = IF refs = 0 /\ sharedEntry = conn THEN 0 ELSE sharedEntry
        /\ released' = released \cup {s}
        /\ UNCHANGED heldOn
    BY <1>2, <2>0 DEF Disconnect, HasHandle
  <2>2. conn \in DOMAIN clients /\ s \in Holders(conn) /\ clients[conn] \in RedisClients
    BY <1>2, <2>0 DEF HasHandle, Holders
  <2>3. /\ Cardinality(Holders(conn) \ {s}) = Cardinality(Holders(conn)) - 1
        /\ Cardinality(Holders(conn)) \in Nat /\ Cardinality(Holders(conn) \ {s}) \in Nat
    <3>1. IsFiniteSet(Holders(conn) \ {s})
      BY HoldersFinite, FS_RemoveElement
    <3>2. QED  BY <2>2, <3>1, HoldersFinite, FS_RemoveElement, FS_CardinalityType
  <2>4. refs \in Nat /\ clients[conn].open
    BY <2>0, <2>2, <2>3 DEF RefsCover, RedisClients
  <2>5. /\ Holders(conn)' = Holders(conn) \ {s}
        /\ \A i : i # conn => Holders(i)' = Holders(i)
    BY <2>0, <2>1 DEF Holders
  <2>6. /\ DOMAIN clients' = DOMAIN clients
        /\ clients'[conn] = [refs |-> refs, open |-> (refs # 0)]
        /\ \A i \in DOMAIN clients \ {conn} : clients'[i] = clients[i]
    BY <2>1, <2>2, <2>4
  <2>7. clients' \in Seq(RedisClients) /\ Len(clients') = Len(clients)
    <3>1. [refs |-> refs, open |-> clients[conn].open /\ refs # 0] \in RedisClients
      BY <2>4 DEF RedisClients
    <3>2. QED  BY <2>1, <2>2, <3>1
  <2>8. ConnTypes'
    BY <2>1, <2>7
  <2>9. RefsCover'
    <3>1. ASSUME NEW i \in DOMAIN clients
          PROVE  /\ Cardinality(Holders(i)') <= clients'[i].refs
                 /\ clients'[i].open <=> clients'[i].refs # 0
      <4>1. CASE i = conn
        <5>1. Cardinality(Holders(conn)) <= clients[conn].refs /\ clients[conn].refs \in Nat
          BY <2>2 DEF RefsCover, RedisClients
        <5>2. Cardinality(Holders(conn)') <= refs
          BY <2>0, <5>1, <2>3, <2>5
        <5>3. clients'[conn].refs = refs /\ clients'[conn].open = (refs # 0)
          BY <2>6
        <5>4. QED  BY <4>1, <5>2, <5>3
      <4>2. CASE i # conn
        BY <4>2, <2>5, <2>6 DEF RefsCover
      <4>3. QED  BY <4>1, <4>2
    <3>2. sharedEntry' # 0 => clients'[sharedEntry'].refs # 0
      <4>1. CASE sharedEntry = conn
        BY <4>1, <2>1, <2>6
      <4>2. CASE sharedEntry # conn
        BY <4>2, <2>1, <2>6 DEF RefsCover
      <4>3. QED  BY <4>1, <4>2
    <3>3. QED  BY <3>1, <3>2, <2>6 DEF RefsCover
  <2>10. ASSUME RefsAreHolders PROVE RefsAreHolders'
    <3>1. clients'[conn].refs = Cardinality(Holders(conn)')
      <4>1. clients[conn].refs = Cardinality(Holders(conn))
        BY <2>10, <2>2 DEF RefsAreHolders
      <4>2. QED  BY <2>0, <4>1, <2>3, <2>5, <2>6
    <3>2. \A i \in DOMAIN clients \ {conn} : clients'[i].refs = Cardinality(Holders(i)')
      BY <2>10, <2>5, <2>6 DEF RefsAreHolders
    <3>3. QED  BY <3>1, <3>2, <2>6 DEF RefsAreHolders
  <2>11. ~HasHandle(s)' /\ \A t \in Services \ {s} : HasHandle(t)' = HasHandle(t)
    BY <2>1 DEF HasHandle
  <2>12. QED  BY <2>8, <2>9, <2>10, <2>11
<1>3. QED  BY <1>1, <1>2

\* A handle keeps its connection open.
LEMMA HandleIsOpen ==
    ASSUME ConnTypes, RefsCover, NEW s \in Services, HasHandle(s)
    PROVE  clients[heldOn[s]].open
<1> PICK i : i = heldOn[s]
  OBVIOUS
<1>1. i \in DOMAIN clients /\ s \in Holders(i)
  BY DEF ConnTypes, HasHandle, Holders
<1>2. IsFiniteSet(Holders(i)) /\ Cardinality(Holders(i)) # 0
  BY <1>1, HoldersFinite, FS_EmptySet
<1>3. clients[i].refs # 0
  <2>1. clients[i].refs \in Nat /\ Cardinality(Holders(i)) \in Nat
    <3>1. clients[i] \in RedisClients
      BY <1>1 DEF ConnTypes
    <3>2. QED  BY <3>1, HoldersFinite DEF RedisClients
  <2>2. QED  BY <1>1, <1>2, <2>1 DEF RefsCover
<1>4. QED  BY <1>1, <1>3 DEF RefsCover

LEMMA ConnsKept ==
    ASSUME ConnTypes, RefsCover, UNCHANGED connVars
    PROVE  /\ ConnTypes' /\ RefsCover' /\ RefsAreHolders' = RefsAreHolders
           /\ \A t : HasHandle(t)' = HasHandle(t)
  BY DEF ConnTypes, RefsCover, RefsAreHolders, Holders, HasHandle, connVars

\* The message in flight is as it was, and its stages are no less up: what
\* went down, if anything did, is not one of them.
LEMMA JobsKeptBut ==
    ASSUME LifecycleInv, UNCHANGED <<jobVars, chosen>>,
           overlapped => overlapped', timedOut => timedOut',
           inline => inline', inline' => Pipeline \subseteq chosen, NEW gone,
           ~overlapped' /\ ~timedOut' =>
               \A t \in Services \ {gone} : (Up(t) => Up(t)') /\ (Works(t) => Works(t)'),
           ~overlapped' /\ ~timedOut' /\ ~behindDrain /\ inFlight # NoJob =>
               gone \notin {inFlight.owner, inFlight.stage}
    PROVE  JobsFit'
<1>1. InlineFits'
  BY DEF InlineFits
<1>2. NoneCutShort'
  BY DEF LifecycleInv, JobsFit, NoneCutShort, jobVars
<1>3. JobFits'
  <2>1. JobFits /\ UNCHANGED <<inFlight, reclaiming, behindDrain>>
    BY DEF LifecycleInv, JobsFit, jobVars
  <2>2. ASSUME ~overlapped', ~timedOut', ~behindDrain, inFlight # NoJob
        PROVE  /\ inFlight.owner \in Services \ {"api"} /\ inFlight.stage \in Services
               /\ Works(inFlight.owner)'
               /\ Reaches(inFlight.owner, inFlight.stage)'
               /\ Up(inFlight.stage)'
    <3>1. /\ inFlight.owner \in Services \ {"api"} /\ inFlight.stage \in Services
          /\ Works(inFlight.owner) /\ Reaches(inFlight.owner, inFlight.stage)
          /\ Up(inFlight.stage)
      BY <2>1, <2>2 DEF JobFits
    <3>2. Reaches(inFlight.owner, inFlight.stage)'
      BY <3>1, <2>1 DEF Reaches
    <3>3. Works(inFlight.owner)' /\ Up(inFlight.stage)'
      BY <3>1, <2>1, <2>2 DEF Works, Up
    <3>4. QED  BY <3>1, <3>2, <3>3
  <2>3. QED  BY <2>1, <2>2 DEF JobFits
<1>4. QED  BY <1>1, <1>2, <1>3 DEF JobsFit

LEMMA JobsKept ==
    ASSUME LifecycleInv, UNCHANGED <<jobVars, chosen>>,
           overlapped => overlapped', timedOut => timedOut',
           inline => inline', inline' => Pipeline \subseteq chosen,
           ~overlapped' /\ ~timedOut' =>
               \A t \in Services : (Up(t) => Up(t)') /\ (Works(t) => Works(t)')
    PROVE  JobsFit'
<1>1. ~overlapped' /\ ~timedOut' /\ ~behindDrain /\ inFlight # NoJob =>
        inFlight.owner \in Services /\ inFlight.stage \in Services
  BY DEF LifecycleInv, JobsFit, JobFits
<1>2. PICK gone : gone = "migrations"
  OBVIOUS
<1>3. QED  BY <1>1, <1>2, JobsKeptBut, ServicesAre

\* Where the services, their connections and the stops are as they were, the
\* order depends on start() alone.
LEMMA OrderKept ==
    ASSUME InOrder, UNCHANGED <<chosen, service, pools, connVars, subs, stopper, timedOut>>,
           StartFits', Starting' => Starting
    PROVE  InOrder'
<1> USE DEF InOrder, connVars
<1>1. OneStop'
  BY DEF OneStop, Active
<1>2. OpenIsUp'
  BY DEF OpenIsUp, Opened, HasHandle, Up, Shutting, StopsAt
<1>3. PastIsShut'
  BY DEF PastIsShut, Opened, HasHandle, Up
<1>4. DrainIsAwaited'
  BY DEF DrainIsAwaited, StopsAt
<1>5. ShuttingIsDown'
  BY DEF ShuttingIsDown, Shutting, StopsAt, Up
<1>6. UpIsOpen'
  BY DEF UpIsOpen, HasHandle, Up
<1>7. NextIsUp'
  BY DEF NextIsUp, Up
<1>8. QED  BY <1>1, <1>2, <1>3, <1>4, <1>5, <1>6, <1>7

\* The parts of the invariant, as the steps below establish them.
LEMMA Assembled ==
    ASSUME LifecycleInv, LifeTypes', JobsFit', overlapped => overlapped',
           \/ UNCHANGED connVars
           \/ ConnTypes' /\ RefsCover' /\ (~overlapped' => RefsAreHolders'),
           ~overlapped' => InOrder'
    PROVE  LifecycleInv'
<1>1. ConnTypes' /\ RefsCover' /\ (~overlapped' => RefsAreHolders')
  <2>1. CASE UNCHANGED connVars
    <3>1. ~overlapped' => RefsAreHolders
      BY DEF LifecycleInv, Orderly
    <3>2. QED  BY <2>1, <3>1, ConnsKept DEF LifecycleInv
  <2>2. QED  BY <2>1
<1>2. QED  BY <1>1 DEF LifecycleInv, Orderly

-----------------------------------------------------------------------------
(* start()                                                                 *)

\* While a server starts, or when no stop is active, nothing is being closed.
LEMMA NoneShutting ==
    ASSUME LifecycleInv, ~overlapped, Starting \/ AllStopped, NEW s \in Services
    PROVE  /\ ~Shutting(s)
           /\ \A p \in Stoppers : ~StopsAt(p, "drain", s)
           /\ Opened(s) => Up(s)
<1>1. InOrder
  BY DEF LifecycleInv, Orderly
<1>2. \A p \in Stoppers : stopper[p].phase \in {"idle", "done"}
  BY <1>1 DEF InOrder, OneStop, AllStopped, Active
<1>3. QED  BY <1>1, <1>2 DEF InOrder, Shutting, StopsAt, OpenIsUp

LEMMA StartMigratesStep == ASSUME LifecycleInv, StartMigrates PROVE LifecycleInv'
<1> USE DEF StartMigrates
<1>1. LifeTypes'
  BY DEF LifecycleInv, LifeTypes, OpenPool, StopPhases, jobVars
<1>2. JobsFit'
  <2>1. \A t \in Services : Up(t)' = Up(t) /\ Works(t)' = Works(t)
    BY DEF Up, Works
  <2>2. QED  BY <2>1, JobsKept DEF LifecycleInv, JobsFit, InlineFits
<1>3. ASSUME ~overlapped' PROVE InOrder'
  <2>1. InOrder /\ ~overlapped
    BY <1>3 DEF LifecycleInv, Orderly
  <2>2. ASSUME NEW s \in Services
        PROVE  /\ ~Up(s)' /\ ~Opened(s)' /\ service'[s] \in {"down", "stopped"}
               /\ (service'[s] # "down" => s \in chosen)
    <3>1. service[s] \in {"down", "stopped"} /\ (service[s] # "down" => s \in chosen)
      BY <2>1 DEF InOrder, StartFits
    <3>2. ~Up(s)
      BY <3>1 DEF Up
    <3>3. ~Opened(s)
      BY <2>1, <3>2, NoneShutting
    <3>4. ~Opened(s)'
      BY <3>3, ServicesAre DEF Opened, HasHandle, OpenPool, connVars
    <3>5. QED  BY <3>1, <3>2, <3>4 DEF Up
  <2>3. \A p \in Stoppers : stopper'[p] = [left |-> {}, phase |-> "idle"]
    OBVIOUS
  <2>4. OneStop'
    BY <2>3 DEF OneStop, Active
  <2>5. StartFits'
    BY <2>1, <2>2 DEF InOrder, StartFits, Starting
  <2>6. OpenIsUp' /\ PastIsShut' /\ UpIsOpen'
    BY <2>2, <2>3 DEF OpenIsUp, PastIsShut, UpIsOpen
  <2>7. DrainIsAwaited' /\ ShuttingIsDown'
    BY <2>2, <2>3 DEF DrainIsAwaited, ShuttingIsDown, Shutting, StopsAt
  <2>8. NextIsUp'
    BY <2>2, ServicesAre DEF NextIsUp
  <2>9. QED  BY <2>4, <2>5, <2>6, <2>7, <2>8 DEF InOrder
<1>4. QED  BY <1>1, <1>2, <1>3, Assembled

\* What start() does between the calls of the start functions.
LEMMA StartupStep ==
    ASSUME LifecycleInv, Migrated \/ MigrationFails \/ AttachSignals \/ Fuse
    PROVE  LifecycleInv'
<1> USE DEF Migrated, MigrationFails, AttachSignals, Fuse
<1>1. LifeTypes'
  BY DEF LifecycleInv, LifeTypes, jobVars
<1>2. JobsFit'
  <2>1. \A t \in Services : Up(t)' = Up(t) /\ Works(t)' = Works(t)
    BY DEF Up, Works
  <2>2. (inline => inline') /\ (inline' => Pipeline \subseteq chosen)
    <3>1. inline => Pipeline \subseteq chosen
      BY DEF LifecycleInv, JobsFit, InlineFits
    <3>2. inline' = inline \/ inline' = (Pipeline \subseteq chosen)
      OBVIOUS
    <3>3. CASE inline' = inline
      BY <3>1, <3>3
    <3>4. CASE inline' = (Pipeline \subseteq chosen)
      BY <3>1, <3>4, Zenon
    <3>5. QED  BY <3>2, <3>3, <3>4
  <2>3. QED  BY <2>1, <2>2, JobsKept
<1>3. ASSUME ~overlapped' PROVE InOrder'
  <2>1. InOrder /\ ~overlapped
    BY <1>3 DEF LifecycleInv, Orderly
  <2>2. StartFits' /\ (Starting' => Starting)
    <3>1. CASE Migrated
      BY <2>1, <3>1 DEF InOrder, StartFits, Starting, Up, LifecycleInv, LifeTypes
    <3>2. CASE MigrationFails
      BY <2>1, <3>2 DEF InOrder, StartFits, Starting, Up
    <3>3. CASE AttachSignals
      BY <2>1, <3>3 DEF InOrder, StartFits, Starting, Up
    <3>4. CASE Fuse
      BY <2>1, <3>4 DEF InOrder, StartFits, Starting, Up
    <3>5. QED  BY <3>1, <3>2, <3>3, <3>4
  <2>3. CASE UNCHANGED pools
    BY <2>1, <2>2, <2>3, OrderKept
  <2>4. CASE Migrated
    <3>1. ASSUME NEW s \in Services PROVE s \in pools' <=> s \in pools
      BY <2>4, ServicesAre
    <3>2. OneStop'
      BY <2>1, <2>4, <2>2 DEF InOrder, OneStop, Active
    <3>3. OpenIsUp'
      BY <2>1, <2>4, <3>1 DEF InOrder, connVars, OpenIsUp, Opened, HasHandle, Up, Shutting, StopsAt
    <3>4. PastIsShut'
      BY <2>1, <2>4, <3>1 DEF InOrder, connVars, PastIsShut, Opened, HasHandle, Up
    <3>5. DrainIsAwaited' /\ ShuttingIsDown'
      BY <2>1, <2>4 DEF InOrder, DrainIsAwaited, ShuttingIsDown, Shutting, StopsAt, Up
    <3>6. UpIsOpen'
      BY <2>1, <2>4, <3>1 DEF InOrder, connVars, UpIsOpen, HasHandle, Up
    <3>7. NextIsUp'
      BY <2>1, <2>4 DEF InOrder, NextIsUp, Up
    <3>8. QED  BY <2>2, <3>2, <3>3, <3>4, <3>5, <3>6, <3>7 DEF InOrder
  <2>5. QED  BY <2>3, <2>4
<1>4. QED  BY <1>1, <1>2, <1>3, Assembled

LEMMA CallStartStep ==
    ASSUME LifecycleInv, NEW s \in Services, NEW becomes \in {"open", "subscribing", "running"},
           CallStart(s, becomes),
           subs' = IF becomes = "subscribing" THEN subs \cup {s} ELSE subs
    PROVE  LifecycleInv'
<1> USE DEF CallStart, Connect, OpenPool
<1>0. service' = [service EXCEPT ![s] = becomes] /\ service \in [Services -> ServicePhases]
      /\ service'[s] = becomes /\ \A t \in Services \ {s} : service'[t] = service[t]
  BY DEF LifecycleInv, LifeTypes
<1>1. LifeTypes'
  BY <1>0 DEF LifecycleInv, LifeTypes, ServicePhases, jobVars
<1>2. Up(s)' /\ \A t \in Services \ {s} : Up(t)' = Up(t) /\ Works(t)' = Works(t)
  BY <1>0 DEF Up, Works
<1>3. /\ ConnTypes' /\ RefsCover'
      /\ RefsAreHolders /\ ~HasHandle(s) => RefsAreHolders'
      /\ HasHandle(s)' /\ \A t \in Services \ {s} : HasHandle(t)' = HasHandle(t)
  BY ShareKeeps DEF LifecycleInv
<1>4. ASSUME ~overlapped'
      PROVE  /\ InOrder /\ ~overlapped /\ Starting /\ s \in chosen
             /\ ~Up(s) /\ ~HasHandle(s)
             /\ \A p \in Stoppers : stopper[p].phase = "idle" /\ stopper'[p].phase = "idle"
  <2>1. InOrder /\ ~overlapped /\ Starting /\ s \in toStart /\ s \in chosen
    BY <1>4 DEF LifecycleInv, Orderly, Starting, IsNext, LifeTypes
  <2>2. ~Up(s)
    BY <2>1 DEF InOrder, StartFits
  <2>3. ~HasHandle(s)
    BY <2>1, <2>2, NoneShutting DEF Opened
  <2>4. QED  BY <2>1, <2>2, <2>3 DEF InOrder, OneStop
<1>5. JobsFit'
  <2>1. ~overlapped' => \A t \in Services : (Up(t) => Up(t)') /\ (Works(t) => Works(t)')
    BY <1>2, <1>4 DEF Works, Up
  <2>2. QED  BY <2>1, JobsKept DEF LifecycleInv, JobsFit, InlineFits
<1>6. ASSUME ~overlapped' PROVE InOrder'
  <2>1. OneStop'
    BY <1>4, <1>6 DEF OneStop, Active
  <2>2. StartFits'
    <3>1. startup = "starting" /\ startup' = "starting" /\ toStart' = toStart \ {s} /\ chosen' = chosen
      OBVIOUS
    <3>2. \A t \in chosen : t \in toStart' <=> ~Up(t)'
      BY <1>2, <1>4, <1>6, <3>1 DEF InOrder, StartFits, LifecycleInv, LifeTypes
    <3>3. \A t \in Services : service'[t] = "subscribing" => t \in subs'
      BY <1>0, <1>4, <1>6 DEF InOrder, StartFits
    <3>4. \A t \in Services : service'[t] # "down" => t \in chosen'
      BY <1>0, <1>4, <1>6 DEF InOrder, StartFits
    <3>5. QED  BY <3>1, <3>2, <3>3, <3>4 DEF StartFits, Starting
  <2>3. OpenIsUp'
    <3>1. ASSUME NEW t \in Services, t # s, Opened(t)' PROVE Up(t)'
      <4>1. Opened(t)
        BY <3>1, <1>3 DEF Opened
      <4>2. Up(t)
        BY <4>1, <1>4, <1>6, NoneShutting
      <4>3. QED  BY <4>2, <3>1, <1>2
    <3>2. QED  BY <3>1, <1>2 DEF OpenIsUp
  <2>4. PastIsShut' /\ ShuttingIsDown'
    BY <1>4, <1>6 DEF PastIsShut, ShuttingIsDown, Shutting, StopsAt
  <2>5. DrainIsAwaited'
    BY <1>0, <1>4, <1>6 DEF InOrder, DrainIsAwaited, StopsAt
  <2>6. UpIsOpen'
    BY <1>2, <1>3, <1>4, <1>6 DEF InOrder, UpIsOpen
  <2>7. NextIsUp'
    <3>1. ASSUME ~timedOut, Pipeline \subseteq chosen, Up("enricher")' PROVE Up("engine")'
      <4>1. CASE s = "enricher"
        <5>1. "engine" \notin toStart /\ "engine" \in chosen
          BY <3>1, <4>1 DEF IsNext, StartTurn, Pipeline
        <5>2. Up("engine")
          BY <5>1, <1>4, <1>6 DEF InOrder, StartFits
        <5>3. QED  BY <5>2, <4>1, <1>2, ServicesAre
      <4>2. CASE s # "enricher"
        BY <4>2, <3>1, <1>2, <1>4, <1>6, ServicesAre DEF InOrder, NextIsUp
      <4>3. QED  BY <4>1, <4>2
    <3>2. ASSUME ~timedOut, Pipeline \subseteq chosen, Up("engine")' PROVE Up("delivery")'
      <4>1. CASE s = "engine"
        <5>1. "delivery" \notin toStart /\ "delivery" \in chosen
          BY <3>2, <4>1 DEF IsNext, StartTurn, Pipeline
        <5>2. Up("delivery")
          BY <5>1, <1>4, <1>6 DEF InOrder, StartFits
        <5>3. QED  BY <5>2, <4>1, <1>2, ServicesAre
      <4>2. CASE s # "engine"
        BY <4>2, <3>2, <1>2, <1>4, <1>6, ServicesAre DEF InOrder, NextIsUp
      <4>3. QED  BY <4>1, <4>2
    <3>3. QED  BY <3>1, <3>2 DEF NextIsUp
  <2>8. QED  BY <2>1, <2>2, <2>3, <2>4, <2>5, <2>6, <2>7 DEF InOrder
<1>7. ~overlapped' => RefsAreHolders'
  BY <1>3, <1>4 DEF LifecycleInv, Orderly
<1>8. QED  BY <1>1, <1>3, <1>5, <1>6, <1>7, Assembled

LEMMA SubscribeStep ==
    ASSUME LifecycleInv,
           CreateApiServer \/ \E s \in Services : Subscribed(s) \/ WorkerSubscribeFails(s)
    PROVE  LifecycleInv'
<1>1. CASE CreateApiServer
  <2> USE <1>1 DEF CreateApiServer
  <2>0. /\ service' = [service EXCEPT !["api"] = "subscribing"] /\ "api" \in Services
        /\ service'["api"] = "subscribing"
        /\ \A t \in Services \ {"api"} : service'[t] = service[t]
    BY ServicesAre DEF LifecycleInv, LifeTypes
  <2>1. LifeTypes'
    BY <2>0 DEF LifecycleInv, LifeTypes, bootVars, jobVars, ServicePhases
  <2>2. \A t \in Services : Up(t)' = Up(t) /\ (Works(t) => Works(t)')
    BY <2>0 DEF Up, Works
  <2>3. JobsFit'
    BY <2>2, JobsKept DEF LifecycleInv, JobsFit, InlineFits, bootVars
  <2>4. ASSUME ~overlapped' PROVE InOrder'
    <3> USE DEF bootVars, connVars
    <3>1. InOrder /\ ~overlapped
      BY <2>4 DEF LifecycleInv, Orderly
    <3>2. Starting /\ Starting'
      BY <3>1, <2>0 DEF InOrder, StartFits, Starting
    <3>3. \A p \in Stoppers : stopper[p].phase = "idle" /\ stopper'[p].phase = "idle"
      BY <3>1, <3>2 DEF InOrder, OneStop
    <3>4. OneStop'
      BY <3>1 DEF InOrder, OneStop, Active, Starting
    <3>5. StartFits'
      BY <3>1, <3>2, <2>0, <2>2 DEF InOrder, StartFits, Starting, LifecycleInv, LifeTypes
    <3>6. OpenIsUp'
      <4>1. ASSUME NEW t \in Services, Opened(t)' PROVE Up(t)'
        <5>1. CASE t = "api"
          BY <5>1, <2>0 DEF Up
        <5>2. CASE t # "api"
          BY <5>2, <4>1, <3>1, <3>2, <2>2, NoneShutting DEF Opened, HasHandle
        <5>3. QED  BY <5>1, <5>2
      <4>2. QED  BY <4>1 DEF OpenIsUp
    <3>7. PastIsShut' /\ ShuttingIsDown'
      BY <3>3 DEF PastIsShut, ShuttingIsDown, Shutting, StopsAt
    <3>8. DrainIsAwaited'
      BY <2>0, <3>1, <3>3 DEF InOrder, DrainIsAwaited, StopsAt
    <3>9. UpIsOpen'
      BY <2>2, <3>1 DEF InOrder, UpIsOpen, HasHandle
    <3>10. NextIsUp'
      BY <2>2, <3>1, ServicesAre DEF InOrder, NextIsUp
    <3>11. QED  BY <3>4, <3>5, <3>6, <3>7, <3>8, <3>9, <3>10 DEF InOrder
  <2>5. QED  BY <2>1, <2>3, <2>4, Assembled
<1>2. ASSUME NEW s \in Services, Subscribed(s) PROVE LifecycleInv'
  <2> USE <1>2 DEF Subscribed
  <2>0. /\ service' = [service EXCEPT ![s] = "running"] /\ service[s] = "subscribing"
        /\ service'[s] = "running" /\ \A t \in Services \ {s} : service'[t] = service[t]
    BY DEF LifecycleInv, LifeTypes
  <2>1. LifeTypes'
    BY <2>0 DEF LifecycleInv, LifeTypes, bootVars, jobVars, ServicePhases
  <2>2. \A t \in Services : Up(t)' = Up(t) /\ (Works(t) => Works(t)')
    BY <2>0 DEF Up, Works
  <2>3. JobsFit'
    BY <2>2, JobsKept DEF LifecycleInv, JobsFit, InlineFits, bootVars
  <2>4. ASSUME ~overlapped' PROVE InOrder'
    <3> USE DEF bootVars, connVars
    <3>1. InOrder
      BY <2>4 DEF LifecycleInv, Orderly
    <3>4. OneStop'
      BY <3>1 DEF InOrder, OneStop, Active, Starting
    <3>5. StartFits'
      BY <3>1, <2>0, <2>2 DEF InOrder, StartFits, Starting, LifecycleInv, LifeTypes
    <3>6. OpenIsUp'
      BY <3>1, <2>2 DEF InOrder, OpenIsUp, Opened, HasHandle, Shutting, StopsAt
    <3>7. PastIsShut'
      BY <3>1, <2>2 DEF InOrder, PastIsShut, Opened, HasHandle
    <3>8. ShuttingIsDown'
      BY <3>1, <2>2 DEF InOrder, ShuttingIsDown, Shutting, StopsAt
    <3>9. DrainIsAwaited'
      BY <2>0, <3>1 DEF InOrder, DrainIsAwaited, StopsAt
    <3>10. UpIsOpen'
      BY <2>2, <3>1 DEF InOrder, UpIsOpen, HasHandle
    <3>11. NextIsUp'
      BY <2>2, <3>1, ServicesAre DEF InOrder, NextIsUp
    <3>12. QED  BY <3>4, <3>5, <3>6, <3>7, <3>8, <3>9, <3>10, <3>11 DEF InOrder
  <2>5. QED  BY <2>1, <2>3, <2>4, Assembled
<1>3. ASSUME NEW s \in Services, WorkerSubscribeFails(s) PROVE LifecycleInv'
  <2> USE <1>3 DEF WorkerSubscribeFails
  <2>1. LifeTypes'
    BY DEF LifecycleInv, LifeTypes, jobVars, ServicePhases
  <2>2. overlapped /\ overlapped'
    BY DEF LifecycleInv, Orderly, InOrder, StartFits
  <2>3. JobsFit'
    BY <2>2, JobsKept DEF LifecycleInv, JobsFit, InlineFits
  <2>4. QED  BY <2>1, <2>2, <2>3, Assembled
<1>4. QED  BY <1>1, <1>2, <1>3

-----------------------------------------------------------------------------
(* Messages.                                                               *)

\* A step of the message in flight.
LEMMA MessageKeeps ==
    ASSUME LifecycleInv, JobsFit',
           inFlight' \in [owner : Services \cup {"none", "recovery"}, stage : Services \cup {"none"}],
           reclaiming' \in Services \cup {"none"},
           UNCHANGED <<chosen, bootVars, service, pools, connVars, subs, stopper, overlapped, timedOut>>
    PROVE  LifecycleInv'
<1>1. LifeTypes'
  BY DEF LifecycleInv, LifeTypes, bootVars
<1>2. ASSUME ~overlapped' PROVE InOrder'
  <2>1. InOrder
    BY <1>2 DEF LifecycleInv, Orderly
  <2>2. StartFits' /\ (Starting' => Starting)
    BY <2>1 DEF InOrder, StartFits, Starting, Up, bootVars
  <2>3. QED  BY <2>1, <2>2, OrderKept
<1>3. QED  BY <1>1, <1>2, Assembled

LEMMA Unchanging ==
    ASSUME UNCHANGED <<chosen, bootVars, service, overlapped, timedOut>>
    PROVE  /\ inline' = inline /\ InlineFits' = InlineFits
           /\ \A t : Up(t)' = Up(t) /\ Works(t)' = Works(t)
  BY DEF bootVars, InlineFits, Up, Works

LEMMA JobTaken ==
    ASSUME LifecycleInv, NEW s \in Services, TakeJob(s) \/ ClaimAhead(s)
    PROVE  LifecycleInv'
<1>0. UNCHANGED <<chosen, bootVars, service, pools, connVars, subs, stopper, overlapped, timedOut,
                  behindDrain, cut>>
  BY DEF TakeJob, ClaimAhead
<1>1. CASE TakeJob(s)
  <2> USE <1>1 DEF TakeJob
  <2>1. service[s] = "running" /\ inFlight' = [owner |-> s, stage |-> s] /\ inFlight = NoJob
    OBVIOUS
  <2>2. JobFits'
    <3>1. ASSUME ~overlapped', ~timedOut', ~behindDrain' PROVE reclaiming' = "none"
      BY <3>1 DEF LifecycleInv, JobsFit, JobFits
    <3>2. Works(s)' /\ Up(s)' /\ Reaches(s, s)'
      BY <2>1 DEF Works, Up, Reaches
    <3>3. QED  BY <3>1, <3>2, <2>1 DEF JobFits
  <2>3. JobsFit'
    BY <1>0, <2>2, Unchanging DEF LifecycleInv, JobsFit, NoneCutShort
  <2>4. QED  BY <1>0, <2>1, <2>3, MessageKeeps DEF LifecycleInv, LifeTypes
<1>2. CASE ClaimAhead(s)
  <2> USE <1>2 DEF ClaimAhead
  <2>1. inFlight # NoJob /\ inFlight' = inFlight /\ reclaiming' = inFlight.owner
    BY ServicesAre DEF NoJob
  <2>2. JobFits'
    <3>1. ASSUME ~overlapped', ~timedOut', ~behindDrain'
          PROVE  /\ inFlight.owner \in Services \ {"api"} /\ inFlight.stage \in Services
                 /\ Works(inFlight.owner)' /\ Reaches(inFlight.owner, inFlight.stage)'
                 /\ Up(inFlight.stage)'
      BY <1>0, <3>1, <2>1, Unchanging DEF LifecycleInv, JobsFit, JobFits, Reaches
    <3>2. QED  BY <3>1, <2>1 DEF JobFits
  <2>3. JobsFit'
    BY <1>0, <2>2, Unchanging DEF LifecycleInv, JobsFit, NoneCutShort
  <2>4. QED  BY <1>0, <2>1, <2>3, MessageKeeps DEF LifecycleInv, LifeTypes
<1>3. QED  BY <1>1, <1>2

LEMMA HandDownStep == ASSUME LifecycleInv, HandDown PROVE LifecycleInv'
<1> USE DEF HandDown, HandsOn
<1>0. PICK owner, next : owner = inFlight.owner /\ next = Downstream[inFlight.stage]
  OBVIOUS
<1>1. /\ inline /\ Pipeline \subseteq chosen
      /\ inFlight.stage \in {"enricher", "engine"}
      /\ Downstream["enricher"] = "engine" /\ Downstream["engine"] = "delivery"
      /\ inFlight # NoJob /\ next \in Services
  BY <1>0, ServicesAre DEF LifecycleInv, JobsFit, InlineFits, Downstream
<1>2. /\ inFlight'.owner = owner /\ inFlight'.stage = next
      /\ inFlight' \in [owner : Services \cup {"none", "recovery"}, stage : Services \cup {"none"}]
  BY <1>0, <1>1 DEF LifecycleInv, LifeTypes
<1>3. JobFits'
  <2>1. ASSUME ~overlapped', ~timedOut', ~behindDrain'
        PROVE  /\ owner \in Services \ {"api"} /\ Works(owner)' /\ Reaches(owner, next)' /\ Up(next)'
               /\ (reclaiming # "none" => reclaiming = owner)
               /\ inFlight' # NoJob
    <3>1. /\ owner \in Services \ {"api"}
          /\ Works(owner) /\ Reaches(owner, inFlight.stage)
          /\ Up(inFlight.stage)
          /\ (reclaiming # "none" => reclaiming = owner)
      BY <1>0, <1>1, <2>1 DEF LifecycleInv, JobsFit, JobFits
    <3>2. InOrder
      BY <2>1 DEF LifecycleInv, Orderly
    <3>3. Up(next)'
      BY <1>0, <3>1, <3>2, <1>1, <2>1 DEF InOrder, NextIsUp, Up
    <3>4. Reaches(owner, next)'
      BY <1>0, <3>1, <1>1 DEF Reaches, bootVars
    <3>5. Works(owner)'
      BY <3>1 DEF Works
    <3>6. inFlight' # NoJob
      BY <1>2, <3>1, ServicesAre DEF NoJob
    <3>7. QED  BY <3>1, <3>3, <3>4, <3>5, <3>6
  <2>2. reclaiming' = reclaiming
    OBVIOUS
  <2>3. QED  BY <1>1, <1>2, <2>1, <2>2 DEF JobFits
<1>4. JobsFit'
  BY <1>3, Unchanging DEF LifecycleInv, JobsFit, NoneCutShort
<1>5. QED  BY <1>2, <1>4, MessageKeeps DEF LifecycleInv, LifeTypes

\* The message ends, and the recovered one that waits is started.
LEMMA SlotFreedFits ==
    ASSUME LifecycleInv, SlotFreed,
           UNCHANGED <<chosen, bootVars, service, overlapped, timedOut>>
    PROVE  /\ JobFits' /\ (behindDrain => behindDrain')
           /\ inFlight' \in [owner : Services \cup {"none", "recovery"}, stage : Services \cup {"none"}]
           /\ reclaiming' \in Services \cup {"none"}
<1>1. CASE reclaiming = "none"
  <2>1. inFlight' = NoJob /\ reclaiming' = "none"
    BY <1>1 DEF SlotFreed
  <2>2. QED  BY <2>1 DEF JobFits, NoJob, SlotFreed
<1>2. CASE reclaiming # "none"
  <2>1. PICK owner \in {reclaiming, "recovery"} : inFlight' = [owner |-> owner, stage |-> reclaiming]
    BY <1>2 DEF SlotFreed
  <2>2. /\ reclaiming \in Services /\ reclaiming' = "none"
        /\ inFlight'.owner = owner /\ inFlight'.stage = reclaiming
        /\ behindDrain' = (behindDrain \/ owner = "recovery")
    BY <1>2, <2>1 DEF LifecycleInv, LifeTypes, SlotFreed
  <2>3. JobFits'
    <3>1. ASSUME ~overlapped', ~timedOut', ~behindDrain'
          PROVE  /\ owner = reclaiming /\ owner # "api" /\ Works(owner)' /\ Up(owner)' /\ Reaches(owner, owner)'
      <4>1. owner = reclaiming /\ ~behindDrain
        BY <2>2, <3>1
      <4>2. reclaiming = inFlight.owner /\ inFlight # NoJob
        BY <1>2, <3>1, <4>1 DEF LifecycleInv, JobsFit, JobFits
      <4>3. Works(owner) /\ owner # "api"
        BY <3>1, <4>1, <4>2 DEF LifecycleInv, JobsFit, JobFits
      <4>4. QED  BY <4>1, <4>3 DEF Works, Up, Reaches
    <3>2. QED  BY <3>1, <2>2 DEF JobFits
  <2>4. QED  BY <2>1, <2>2, <2>3
<1>3. QED  BY <1>1, <1>2

LEMMA JobEnds == ASSUME LifecycleInv, EndJob \/ CutJob PROVE LifecycleInv'
<1>0. /\ UNCHANGED <<chosen, bootVars, service, pools, connVars, subs, stopper, overlapped, timedOut>>
      /\ SlotFreed
  BY DEF EndJob, CutJob
<1>1. /\ JobFits' /\ (behindDrain => behindDrain')
      /\ inFlight' \in [owner : Services \cup {"none", "recovery"}, stage : Services \cup {"none"}]
      /\ reclaiming' \in Services \cup {"none"}
  BY <1>0, SlotFreedFits
<1>2. NoneCutShort'
  <2>1. CASE EndJob
    BY <2>1, <1>0, <1>1 DEF EndJob, LifecycleInv, JobsFit, NoneCutShort
  <2>2. CASE CutJob
    <3>1. ASSUME ~overlapped', ~timedOut', ~behindDrain' PROVE FALSE
      <4>1. inFlight # NoJob /\ ~Usable(inFlight.stage)
        BY <2>2 DEF CutJob
      <4>2. ~overlapped /\ ~timedOut /\ ~behindDrain
        BY <1>0, <1>1, <3>1
      <4>3. inFlight.stage \in Services /\ Up(inFlight.stage)
        BY <4>1, <4>2 DEF LifecycleInv, JobsFit, JobFits
      <4>4. inFlight.stage \in pools /\ HasHandle(inFlight.stage)
        BY <4>2, <4>3 DEF LifecycleInv, Orderly, InOrder, UpIsOpen
      <4>5. clients[heldOn[inFlight.stage]].open
        BY <4>3, <4>4, HandleIsOpen DEF LifecycleInv
      <4>6. QED  BY <4>1, <4>4, <4>5 DEF Usable, HasHandle
    <3>2. QED  BY <3>1 DEF NoneCutShort
  <2>3. QED  BY <2>1, <2>2
<1>3. JobsFit'
  BY <1>0, <1>1, <1>2, Unchanging DEF LifecycleInv, JobsFit
<1>4. QED  BY <1>0, <1>1, <1>3, MessageKeeps

LEMMA ToggleStep == ASSUME LifecycleInv, ToggleFeed PROVE LifecycleInv'
<1>1. JobsFit'
  BY JobsKept, Unchanging DEF LifecycleInv, JobsFit, InlineFits, ToggleFeed
<1>2. QED
  BY <1>1, MessageKeeps DEF ToggleFeed, jobVars, LifecycleInv, LifeTypes

-----------------------------------------------------------------------------
(* stop()                                                                  *)

\* What a step of the stop of p changes, and leaves alone.
StopChanges(p, to) ==
    /\ UNCHANGED <<chosen, bootVars, pools, connVars, jobVars, forwarding, overlapped>>
    /\ stopper' = [stopper EXCEPT ![p].phase = to]

LEMMA StopTypes ==
    ASSUME LifecycleInv, NEW p \in Stoppers, NEW s \in Services, NEW to \in StopPhases,
           StopChanges(p, to), NEW becomes \in ServicePhases,
           service' = [service EXCEPT ![s] = becomes], subs' \subseteq subs
    PROVE  /\ LifeTypes'
           /\ stopper'[p].phase = to /\ stopper'[p].left = stopper[p].left
           /\ \A q \in Stoppers \ {p} : stopper'[q] = stopper[q]
           /\ service'[s] = becomes /\ \A t \in Services \ {s} : service'[t] = service[t]
<1> USE DEF StopChanges
<1>1. /\ stopper \in [Stoppers -> [left : SUBSET chosen, phase : StopPhases]]
      /\ service \in [Services -> ServicePhases]
  BY DEF LifecycleInv, LifeTypes
<1>2. stopper' \in [Stoppers -> [left : SUBSET chosen', phase : StopPhases]]
  BY <1>1
<1>3. service' \in [Services -> ServicePhases]
  BY <1>1
<1>4. LifeTypes'
  BY <1>2, <1>3 DEF LifecycleInv, LifeTypes, bootVars, jobVars
<1>5. QED  BY <1>1, <1>4

\* One stop runs beside nothing else.
LEMMA OneStops ==
    ASSUME LifecycleInv, ~overlapped, NEW p \in Stoppers, Active(p)
    PROVE  /\ InOrder /\ ~Starting /\ toStart = {}
           /\ \A q \in Stoppers \ {p} : stopper[q].phase \in {"idle", "done"}
           /\ \A t \in Services : service[t] \notin {"open", "subscribing"}
  BY DEF LifecycleInv, Orderly, InOrder, OneStop, Active, StartFits, Starting

\* The stop of p goes on to drain or to close the service whose turn it is.
LEMMA GoesOn ==
    ASSUME LifecycleInv, ~overlapped', ~overlapped, timedOut => timedOut',
           NEW p \in Stoppers, NEW s \in Services,
           NEW from \in {"turn", "drain"}, StopsAt(p, from, s),
           NEW to \in {"drain", "close"}, NEW becomes \in ServicePhases,
           UNCHANGED <<chosen, bootVars, pools, connVars>>,
           stopper'[p].phase = to, stopper'[p].left = stopper[p].left,
           \A q \in Stoppers \ {p} : stopper'[q] = stopper[q],
           service'[s] = becomes, \A t \in Services \ {s} : service'[t] = service[t],
           becomes \in {service[s], "stopped"} \/ (becomes = "draining" /\ Up(s)),
           subs' \in {subs, subs \ {s}},
           s \in subs' => s = "api" /\ to = "drain",
           to = "drain" => becomes = "draining",
           to = "close" => becomes \notin {"running", "draining"} \/ (timedOut' /\ s # "api")
    PROVE  InOrder'
<1>1. /\ InOrder /\ ~Starting /\ toStart = {}
      /\ \A q \in Stoppers \ {p} : stopper[q].phase \in {"idle", "done"}
      /\ \A t \in Services : service[t] \notin {"open", "subscribing"}
  BY OneStops DEF StopsAt, Active
<1>2. \A t \in Services, q \in Stoppers, ph \in {"drain", "close"} :
        StopsAt(q, ph, t) => q = p /\ t = s /\ ph = from
  BY <1>1, StopTurns DEF StopsAt
<1>3. \A t \in Services, q \in Stoppers, ph \in {"drain", "close"} :
        StopsAt(q, ph, t)' <=> q = p /\ t = s /\ ph = to
  <2>1. \A t \in Services : IsNext(t, stopper[p].left, StopTurn) <=> t = s
    BY StopTurns DEF StopsAt
  <2>2. QED  BY <1>1, <2>1 DEF StopsAt
<1>4. \A t \in Services : (Up(t)' => Up(t)) /\ (t # s => Up(t)' = Up(t))
  BY DEF Up
<1>5. \A t \in Services : Opened(t)' => Opened(t)
  BY DEF Opened, HasHandle, connVars
<1>6. OneStop'
  BY <1>1 DEF InOrder, OneStop, Active, Starting, bootVars
<1>7. StartFits'
  <2>1. ~Starting' /\ toStart' = {}
    BY <1>1 DEF Starting, bootVars
  <2>2. \A t \in Services : service'[t] \notin {"open", "subscribing"}
    BY <1>1
  <2>3. \A t \in Services : service'[t] # "down" => t \in chosen'
    <3>1. s \in chosen
      BY DEF LifecycleInv, LifeTypes, StopsAt, IsNext
    <3>2. QED  BY <3>1, <1>1 DEF InOrder, StartFits
  <2>4. QED  BY <2>1, <2>2, <2>3 DEF StartFits, Starting
<1>8. OpenIsUp'
  <2>1. ASSUME NEW t \in Services, Opened(t)' PROVE Up(t)' \/ Shutting(t)'
    <3>1. CASE t = s
      <4>1. CASE to = "drain"
        BY <3>1, <4>1 DEF Up
      <4>2. CASE to = "close"
        BY <3>1, <4>2, <1>3 DEF Shutting
      <4>3. QED  BY <4>1, <4>2
    <3>2. CASE t # s
      <4>1. Up(t)
        BY <3>2, <2>1, <1>1, <1>2, <1>5 DEF InOrder, OpenIsUp, Shutting
      <4>2. QED  BY <3>2, <4>1, <1>4
    <3>3. QED  BY <3>1, <3>2
  <2>2. QED  BY <2>1 DEF OpenIsUp
<1>9. PastIsShut'
  <2>1. ASSUME NEW q \in Stoppers, stopper'[q].phase # "idle",
               NEW t \in Services \ stopper'[q].left
        PROVE  ~Opened(t)' /\ (Up(t)' => timedOut')
    <3>1. stopper[q].phase # "idle" /\ stopper'[q].left = stopper[q].left
      BY <2>1 DEF StopsAt
    <3>2. ~Opened(t) /\ (Up(t) => timedOut)
      BY <3>1, <2>1, <1>1 DEF InOrder, PastIsShut
    <3>3. QED  BY <3>2, <1>4, <1>5
  <2>2. QED  BY <2>1 DEF PastIsShut
<1>10. DrainIsAwaited'
  <2>1. ASSUME NEW t \in Services, service'[t] = "draining", t = "api" \/ ~timedOut'
        PROVE  \E q \in Stoppers : StopsAt(q, "drain", t)'
    <3>1. CASE t = s
      BY <3>1, <2>1, <1>3
    <3>2. CASE t # s
      BY <3>2, <2>1, <1>1, <1>2 DEF InOrder, DrainIsAwaited
    <3>3. QED  BY <3>1, <3>2
  <2>2. ASSUME NEW t \in Services, t # "api", NEW q \in Stoppers, StopsAt(q, "drain", t)'
        PROVE  t \notin subs'
    BY <2>2, <1>3
  <2>3. QED  BY <2>1, <2>2 DEF DrainIsAwaited
<1>11. ShuttingIsDown'
  <2>1. ASSUME NEW t \in Services, Shutting(t)' PROVE t \notin subs' /\ (Up(t)' => timedOut')
    <3>1. t = s /\ to = "close"
      BY <2>1, <1>3 DEF Shutting
    <3>2. Up(s)' => becomes \in {"running", "draining"}
      BY <1>1 DEF Up
    <3>3. QED  BY <3>1, <3>2
  <2>2. QED  BY <2>1 DEF ShuttingIsDown
<1>12. UpIsOpen'
  BY <1>1, <1>4 DEF InOrder, UpIsOpen, HasHandle, connVars
<1>13. NextIsUp'
  <2> SUFFICES ASSUME ~timedOut', Pipeline \subseteq chosen
               PROVE  /\ Up("enricher")' => Up("engine")'
                      /\ Up("engine")' => Up("delivery")'
    BY DEF NextIsUp
  <2>1. ASSUME Up("enricher")' PROVE Up("engine")'
    <3>1. Up("enricher") /\ Up("engine")
      BY <2>1, <1>1, <1>4, ServicesAre DEF InOrder, NextIsUp
    <3>2. CASE s = "engine"
      <4>1. "enricher" \notin stopper[p].left /\ stopper[p].phase # "idle"
        BY <3>2 DEF StopsAt, IsNext, StopTurn
      <4>2. QED  BY <4>1, <3>1, <1>1, ServicesAre DEF InOrder, PastIsShut
    <3>3. QED  BY <3>1, <3>2, <1>4, ServicesAre
  <2>2. ASSUME Up("engine")' PROVE Up("delivery")'
    <3>1. Up("engine") /\ Up("delivery")
      BY <2>2, <1>1, <1>4, ServicesAre DEF InOrder, NextIsUp
    <3>2. CASE s = "delivery"
      <4>1. "engine" \notin stopper[p].left /\ stopper[p].phase # "idle"
        BY <3>2 DEF StopsAt, IsNext, StopTurn
      <4>2. QED  BY <4>1, <3>1, <1>1, ServicesAre DEF InOrder, PastIsShut
    <3>3. QED  BY <3>1, <3>2, <1>4, ServicesAre
  <2>3. QED  BY <2>1, <2>2
<1>14. QED
  BY <1>6, <1>7, <1>8, <1>9, <1>10, <1>11, <1>12, <1>13 DEF InOrder

LEMMA StopStep == ASSUME LifecycleInv, NEW p \in Stoppers, Stop(p) PROVE LifecycleInv'
<1> USE DEF Stop
<1>1. stopper'[p] = [left |-> chosen, phase |-> "turn"]
      /\ \A q \in Stoppers \ {p} : stopper'[q] = stopper[q]
  BY DEF LifecycleInv, LifeTypes
<1>2. LifeTypes'
  BY DEF LifecycleInv, LifeTypes, jobVars, StopPhases
<1>3. JobsFit'
  BY JobsKept DEF LifecycleInv, JobsFit, InlineFits, Up, Works
<1>4. ASSUME ~overlapped' PROVE InOrder'
  <2>1. ~overlapped /\ ~Starting /\ AllStopped
    BY <1>4
  <2>2. InOrder
    BY <2>1 DEF LifecycleInv, Orderly
  <2>3. \A q \in Stoppers : stopper[q].phase \in {"idle", "done"}
    BY <2>1, <2>2 DEF InOrder, OneStop, AllStopped, Active
  <2>4. ~Starting' /\ StartFits'
    BY <2>1, <2>2 DEF InOrder, StartFits, Starting, Up
  <2>5. OneStop'
    BY <1>1, <2>2, <2>3, <2>4 DEF InOrder, OneStop, Active
  <2>6. \A t \in Services : /\ Up(t)' = Up(t) /\ Opened(t)' = Opened(t) /\ (Opened(t) => Up(t))
                            /\ \A q \in Stoppers, ph \in {"drain", "close"} :
                                  ~StopsAt(q, ph, t) /\ ~StopsAt(q, ph, t)'
    BY <1>1, <2>1, <2>3, NoneShutting DEF Up, Opened, HasHandle, connVars, StopsAt
  <2>7. OpenIsUp' /\ ShuttingIsDown'
    BY <2>6 DEF OpenIsUp, ShuttingIsDown, Shutting
  <2>8. PastIsShut'
    <3>1. ASSUME NEW q \in Stoppers, stopper'[q].phase # "idle",
                 NEW t \in Services \ stopper'[q].left
          PROVE  ~Opened(t)' /\ (Up(t)' => timedOut')
      <4>1. CASE q = p
        <5>1. ~Up(t)
          BY <4>1, <3>1, <1>1, <2>2 DEF InOrder, StartFits, Up
        <5>2. QED  BY <5>1, <2>6
      <4>2. CASE q # p
        BY <4>2, <3>1, <1>1, <2>2, <2>6 DEF InOrder, PastIsShut
      <4>3. QED  BY <4>1, <4>2
    <3>2. QED  BY <3>1 DEF PastIsShut
  <2>9. DrainIsAwaited'
    BY <2>2, <2>6 DEF InOrder, DrainIsAwaited
  <2>10. UpIsOpen' /\ NextIsUp'
    BY <2>2 DEF InOrder, UpIsOpen, NextIsUp, Up, HasHandle, connVars
  <2>11. QED  BY <2>4, <2>5, <2>7, <2>8, <2>9, <2>10 DEF InOrder
<1>5. QED  BY <1>2, <1>3, <1>4, Assembled

LEMMA ShutdownStep ==
    ASSUME LifecycleInv, NEW p \in Stoppers, NEW s \in Services, ShutdownWorker(p, s)
    PROVE  LifecycleInv'
<1> USE DEF ShutdownWorker, Phase
<1>1. PICK to \in {"drain", "close"}, becomes \in ServicePhases :
        /\ StopChanges(p, to) /\ UNCHANGED timedOut
        /\ service' = [service EXCEPT ![s] = becomes]
        /\ \/ service[s] = "running" /\ becomes = "draining" /\ to = "drain"
           \/ service[s] # "running" /\ becomes = service[s] /\ to = "close"
  <2>1. service \in [Services -> ServicePhases]
    BY DEF LifecycleInv, LifeTypes
  <2>2. CASE service[s] = "running"
    <3>1. StopChanges(p, "drain") /\ service' = [service EXCEPT ![s] = "draining"]
      BY <2>2 DEF StopChanges
    <3>2. QED  BY <3>1, <2>2 DEF ServicePhases
  <2>3. CASE service[s] # "running"
    <3>1. StopChanges(p, "close") /\ service' = [service EXCEPT ![s] = service[s]]
      BY <2>1, <2>3 DEF StopChanges
    <3>2. QED  BY <3>1, <2>1, <2>3
  <2>4. QED  BY <2>2, <2>3
<1>2. /\ LifeTypes'
      /\ stopper'[p].phase = to /\ stopper'[p].left = stopper[p].left
      /\ \A q \in Stoppers \ {p} : stopper'[q] = stopper[q]
      /\ service'[s] = becomes /\ \A t \in Services \ {s} : service'[t] = service[t]
  <2>1. to \in StopPhases /\ subs' \subseteq subs
    BY DEF StopPhases
  <2>2. QED  BY <1>1, <2>1, StopTypes
<1>3. JobsFit'
  <2>1. \A t \in Services : (Up(t) => Up(t)') /\ (Works(t) => Works(t)')
    BY <1>1, <1>2 DEF Up, Works
  <2>2. QED  BY <1>1, <2>1, JobsKept DEF StopChanges, bootVars, LifecycleInv, JobsFit, InlineFits
<1>4. ASSUME ~overlapped' PROVE InOrder'
  <2>1. ~overlapped /\ UNCHANGED <<chosen, bootVars, pools, connVars>>
    BY <1>1, <1>4 DEF StopChanges
  <2>2. StopsAt(p, "turn", s) /\ s # "api" /\ subs' = subs \ {s}
    OBVIOUS
  <2>3. to = "close" => becomes \notin {"running", "draining"} \/ timedOut'
    <3> SUFFICES ASSUME to = "close", service[s] = "draining", ~timedOut PROVE FALSE
      BY <1>1
    <3>1. \E q \in Stoppers : StopsAt(q, "drain", s)
      BY <2>1 DEF LifecycleInv, Orderly, InOrder, DrainIsAwaited
    <3>2. QED  BY <3>1, <2>1, <2>2, OneStops DEF StopsAt, Active
  <2>4. QED  BY <1>1, <1>2, <1>4, <2>1, <2>2, <2>3, GoesOn DEF Up
<1>5. QED  BY <1>1, <1>2, <1>3, <1>4, Assembled DEF StopChanges

LEMMA DrainedStep ==
    ASSUME LifecycleInv, NEW p \in Stoppers, NEW s \in Services, Drained(p, s)
    PROVE  LifecycleInv'
<1> USE DEF Drained, Phase
<1>1. /\ StopChanges(p, "close") /\ service' = [service EXCEPT ![s] = "stopped"]
      /\ UNCHANGED <<timedOut, subs>>
      /\ StopsAt(p, "drain", s) /\ s # "api" /\ inFlight.owner # s
  BY DEF StopChanges
<1>2. /\ LifeTypes'
      /\ stopper'[p].phase = "close" /\ stopper'[p].left = stopper[p].left
      /\ \A q \in Stoppers \ {p} : stopper'[q] = stopper[q]
      /\ service'[s] = "stopped" /\ \A t \in Services \ {s} : service'[t] = service[t]
  BY <1>1, StopTypes DEF StopPhases, ServicePhases
<1>3. ~overlapped => InOrder /\ s \notin subs
  <2>1. ASSUME ~overlapped PROVE InOrder /\ s \notin subs
    BY <2>1, <1>1 DEF LifecycleInv, Orderly, InOrder, DrainIsAwaited
  <2>2. QED  BY <2>1
<1>4. JobsFit'
  <2>1. \A t \in Services \ {s} : (Up(t) => Up(t)') /\ (Works(t) => Works(t)')
    BY <1>2 DEF Up, Works
  <2>2. ASSUME ~overlapped, ~timedOut, ~behindDrain, inFlight # NoJob
        PROVE  s \notin {inFlight.owner, inFlight.stage}
    <3> SUFFICES ASSUME inFlight.stage = s PROVE FALSE
      BY <1>1
    <3>1. Reaches(inFlight.owner, s) /\ Works(inFlight.owner) /\ inline => Pipeline \subseteq chosen
      BY <2>2 DEF LifecycleInv, JobsFit, JobFits, InlineFits
    <3>2. PICK owner : owner = inFlight.owner
      OBVIOUS
    <3>3. owner \in {"enricher", "engine"} /\ StopTurn[owner] < StopTurn[s]
      BY <3>1, <3>2, <2>2, <1>1 DEF Reaches, StopTurn, LifecycleInv, JobsFit, JobFits
    <3>4. owner \notin stopper[p].left /\ stopper[p].phase # "idle"
      <4>1. StopTurn[owner] \in Int /\ StopTurn[s] \in Int
        BY <3>3, ServicesAre DEF StopTurn
      <4>2. QED  BY <4>1, <3>3, <1>1 DEF StopsAt, IsNext
    <3>5. ~Up(owner)
      BY <3>3, <3>4, <1>3, <2>2, ServicesAre DEF InOrder, PastIsShut
    <3>6. Works(owner)
      BY <3>2, <2>2 DEF LifecycleInv, JobsFit, JobFits
    <3>7. QED  BY <3>5, <3>6 DEF Up, Works
  <2>3. QED
    BY <1>1, <2>1, <2>2, JobsKeptBut DEF StopChanges, bootVars, LifecycleInv, JobsFit, InlineFits
<1>5. ASSUME ~overlapped' PROVE InOrder'
  <2>1. ~overlapped /\ UNCHANGED <<chosen, bootVars, pools, connVars>>
    BY <1>1, <1>5 DEF StopChanges
  <2>2. QED  BY <1>1, <1>2, <1>3, <1>5, <2>1, GoesOn DEF ServicePhases
<1>6. QED  BY <1>1, <1>2, <1>4, <1>5, Assembled DEF StopChanges

LEMMA DrainTimesOutStep ==
    ASSUME LifecycleInv, NEW p \in Stoppers, NEW s \in Services, DrainTimesOut(p, s)
    PROVE  LifecycleInv'
<1>1. PICK becomes \in ServicePhases :
        /\ StopChanges(p, "close") /\ service' = [service EXCEPT ![s] = becomes]
        /\ becomes = service[s] /\ UNCHANGED subs /\ timedOut' = TRUE
        /\ StopsAt(p, "drain", s) /\ s # "api"
  <2>1. service \in [Services -> ServicePhases]
    BY DEF LifecycleInv, LifeTypes
  <2>2. StopChanges(p, "close") /\ service' = [service EXCEPT ![s] = service[s]]
    BY <2>1 DEF StopChanges, DrainTimesOut, Phase
  <2>3. QED  BY <2>1, <2>2 DEF DrainTimesOut
<1>2. /\ LifeTypes'
      /\ stopper'[p].phase = "close" /\ stopper'[p].left = stopper[p].left
      /\ \A q \in Stoppers \ {p} : stopper'[q] = stopper[q]
      /\ service'[s] = becomes /\ \A t \in Services \ {s} : service'[t] = service[t]
  <2>1. "close" \in StopPhases /\ subs' \subseteq subs
    BY <1>1 DEF StopPhases
  <2>2. QED  BY <1>1, <2>1, StopTypes
<1>3. JobsFit'
  BY <1>1, JobsKept DEF StopChanges, bootVars, LifecycleInv, JobsFit, InlineFits
<1>4. ASSUME ~overlapped' PROVE InOrder'
  <2>1. ~overlapped /\ UNCHANGED <<chosen, bootVars, pools, connVars>>
    BY <1>1, <1>4 DEF StopChanges
  <2>2. s \notin subs'
    BY <1>1, <2>1 DEF LifecycleInv, Orderly, InOrder, DrainIsAwaited
  <2>3. QED  BY <1>1, <1>2, <1>4, <2>1, <2>2, GoesOn
<1>5. QED  BY <1>1, <1>2, <1>3, <1>4, Assembled DEF StopChanges

LEMMA CloseApiStep ==
    ASSUME LifecycleInv, NEW p \in Stoppers, CloseApiServer(p)
    PROVE  LifecycleInv'
<1> USE DEF CloseApiServer, Phase
<1>0. service \in [Services -> ServicePhases] /\ "api" \in Services
  BY ServicesAre DEF LifecycleInv, LifeTypes
<1>1. PICK to \in {"drain", "close", "reject", "failed"}, becomes \in ServicePhases :
        /\ StopChanges(p, to) /\ UNCHANGED <<timedOut, subs>>
        /\ service' = [service EXCEPT !["api"] = becomes]
        /\ \/ service["api"] = "running" /\ becomes = "draining" /\ to = "drain"
           \/ service["api"] \in {"draining", "subscribing"} /\ becomes = service["api"]
              /\ to \in {"reject", "failed"}
           \/ service["api"] \in {"down", "open", "stopped"} /\ becomes = service["api"]
              /\ to = "close"
  <2>1. service' = [service EXCEPT !["api"] = service'["api"]] /\ service'["api"] \in ServicePhases
    BY <1>0 DEF ServicePhases
  <2>2. CASE service["api"] = "running"
    BY <1>0, <2>1, <2>2 DEF StopChanges
  <2>3. CASE service["api"] = "draining"
    BY <1>0, <2>1, <2>3 DEF StopChanges
  <2>4. CASE service["api"] = "subscribing"
    BY <1>0, <2>1, <2>4 DEF StopChanges
  <2>5. CASE service["api"] \in {"down", "open", "stopped"}
    BY <1>0, <2>1, <2>5 DEF StopChanges
  <2>6. QED  BY <1>0, <2>2, <2>3, <2>4, <2>5 DEF ServicePhases
<1>2. /\ LifeTypes'
      /\ stopper'[p].phase = to /\ stopper'[p].left = stopper[p].left
      /\ \A q \in Stoppers \ {p} : stopper'[q] = stopper[q]
      /\ service'["api"] = becomes /\ \A t \in Services \ {"api"} : service'[t] = service[t]
  <2>1. to \in StopPhases /\ subs' \subseteq subs
    BY <1>1 DEF StopPhases
  <2>2. QED  BY <1>0, <1>1, <2>1, StopTypes
<1>3. JobsFit'
  <2>1. \A t \in Services : (Up(t) => Up(t)') /\ (Works(t) => Works(t)')
    BY <1>1, <1>2 DEF Up, Works
  <2>2. QED  BY <1>1, <2>1, JobsKept DEF StopChanges, bootVars, LifecycleInv, JobsFit, InlineFits
<1>4. ASSUME ~overlapped' PROVE InOrder'
  <2>1. ~overlapped /\ UNCHANGED <<chosen, bootVars, pools, connVars>>
    BY <1>1, <1>4 DEF StopChanges
  <2>2. StopsAt(p, "turn", "api")
    OBVIOUS
  <2>3. InOrder /\ service["api"] \notin {"open", "subscribing"}
    BY <1>0, <2>1, <2>2, OneStops DEF StopsAt, Active
  <2>4. service["api"] # "draining"
    <3> SUFFICES ASSUME service["api"] = "draining" PROVE FALSE
      OBVIOUS
    <3>1. \E q \in Stoppers : StopsAt(q, "drain", "api")
      BY <1>0, <2>3 DEF InOrder, DrainIsAwaited
    <3>2. QED  BY <3>1, <2>1, <2>2, OneStops DEF StopsAt, Active
  <2>5. to \in {"drain", "close"}
    BY <1>1, <2>3, <2>4
  <2>6. to = "close" => "api" \notin subs
    <3> SUFFICES ASSUME to = "close" PROVE ~Opened("api")
      BY DEF Opened
    <3>1. ~Up("api")
      BY <1>1, <2>3, <2>5 DEF Up
    <3>2. ~Shutting("api")
      BY <2>1, <2>2, OneStops DEF Shutting, StopsAt, Active
    <3>3. QED  BY <1>0, <2>3, <3>1, <3>2 DEF InOrder, OpenIsUp
  <2>7. QED  BY <1>0, <1>1, <1>2, <1>4, <2>1, <2>2, <2>5, <2>6, GoesOn DEF Up
<1>5. QED  BY <1>1, <1>2, <1>3, <1>4, Assembled DEF StopChanges

LEMMA ApiClosedStep == ASSUME LifecycleInv, ApiServerClosed PROVE LifecycleInv'
<1>0. /\ service' = [service EXCEPT !["api"] = "stopped"] /\ "api" \in Services
      /\ service'["api"] = "stopped" /\ \A t \in Services \ {"api"} : service'[t] = service[t]
      /\ UNCHANGED <<chosen, bootVars, pools, connVars, jobVars, overlapped, timedOut>>
      /\ subs' = subs \ {"api"}
  BY ServicesAre DEF LifecycleInv, LifeTypes, ApiServerClosed
<1>1. PICK p \in Stoppers :
        /\ StopsAt(p, "drain", "api")
        /\ stopper' = [q \in Stoppers |->
                          CASE q = p -> [stopper[q] EXCEPT !.phase = "close"]
                            [] stopper[q].phase = "reject" -> [stopper[q] EXCEPT !.phase = "failed"]
                            [] OTHER -> stopper[q]]
  BY DEF ApiServerClosed
<1>2. /\ stopper'[p].phase = "close" /\ stopper'[p].left = stopper[p].left
      /\ stopper' \in [Stoppers -> [left : SUBSET chosen, phase : StopPhases]]
      /\ \A q \in Stoppers \ {p} : stopper[q].phase # "reject" => stopper'[q] = stopper[q]
  <2>1. stopper \in [Stoppers -> [left : SUBSET chosen, phase : StopPhases]]
    BY DEF LifecycleInv, LifeTypes
  <2>2. ASSUME NEW q \in Stoppers
        PROVE  /\ stopper'[q] \in [left : SUBSET chosen, phase : StopPhases]
               /\ (q = p => stopper'[q].phase = "close" /\ stopper'[q].left = stopper[q].left)
               /\ (q # p /\ stopper[q].phase # "reject" => stopper'[q] = stopper[q])
    <3>1. CASE q = p
      <4>1. stopper'[q] = [stopper[q] EXCEPT !.phase = "close"]
        BY <1>1, <3>1 DEF StopsAt
      <4>2. QED  BY <2>1, <3>1, <4>1 DEF StopPhases
    <3>2. CASE q # p /\ stopper[q].phase = "reject"
      <4>1. stopper'[q] = [stopper[q] EXCEPT !.phase = "failed"]
        BY <1>1, <3>2
      <4>2. QED  BY <2>1, <3>2, <4>1 DEF StopPhases
    <3>3. CASE q # p /\ stopper[q].phase # "reject"
      <4>1. stopper'[q] = stopper[q]
        BY <1>1, <3>3
      <4>2. QED  BY <2>1, <3>3, <4>1
    <3>4. QED  BY <3>1, <3>2, <3>3
  <2>3. stopper' = [q \in Stoppers |-> stopper'[q]]
    BY <1>1
  <2>4. QED  BY <2>2, <2>3
<1>3. LifeTypes'
  BY <1>0, <1>2 DEF LifecycleInv, LifeTypes, bootVars, jobVars, ServicePhases
<1>4. JobsFit'
  <2>1. \A t \in Services \ {"api"} : (Up(t) => Up(t)') /\ (Works(t) => Works(t)')
    BY <1>0 DEF Up, Works
  <2>2. ASSUME ~overlapped, ~timedOut, ~behindDrain, inFlight # NoJob
        PROVE  "api" \notin {inFlight.owner, inFlight.stage}
    BY <2>2 DEF LifecycleInv, JobsFit, JobFits, Reaches
  <2>3. PICK gone \in Services : gone = "api"
    BY <1>0
  <2>4. UNCHANGED <<jobVars, chosen, inline, overlapped, timedOut>> /\ InlineFits
    BY <1>0 DEF bootVars, LifecycleInv, JobsFit
  <2>5. QED  BY <2>1, <2>2, <2>3, <2>4, JobsKeptBut DEF InlineFits
<1>5. ASSUME ~overlapped' PROVE InOrder'
  <2>0. PICK s \in Services : s = "api"
    BY <1>0
  <2>1. ~overlapped /\ StopsAt(p, "drain", s)
    BY <1>0, <1>1, <1>5, <2>0
  <2>2. \A q \in Stoppers \ {p} : stopper'[q] = stopper[q]
    BY <1>2, <2>1, OneStops DEF StopsAt, Active
  <2>3. "stopped" \in ServicePhases
    BY DEF ServicePhases
  <2>4. PICK from \in {"turn", "drain"}, to \in {"drain", "close"}, becomes \in ServicePhases :
          from = "drain" /\ to = "close" /\ becomes = "stopped"
    BY <2>3
  <2>5. s \notin subs' /\ subs' \in {subs, subs \ {s}}
    BY <1>0, <2>0
  <2>6. /\ StopsAt(p, from, s) /\ stopper'[p].phase = to /\ service'[s] = becomes
        /\ \A t \in Services \ {s} : service'[t] = service[t]
        /\ becomes \notin {"running", "draining"}
    BY <1>0, <1>2, <2>0, <2>1, <2>4
  <2>7. UNCHANGED <<chosen, bootVars, pools, connVars, timedOut>>
    BY <1>0
  <2>8. QED  BY <1>2, <1>5, <2>1, <2>2, <2>4, <2>5, <2>6, <2>7, GoesOn
<1>6. QED  BY <1>0, <1>3, <1>4, <1>5, Assembled

LEMMA CloseConnectionsStep ==
    ASSUME LifecycleInv, NEW p \in Stoppers, NEW s \in Services, CloseConnections(p, s)
    PROVE  LifecycleInv'
<1> USE DEF CloseConnections
<1>0. /\ StopsAt(p, "close", s) /\ pools' = pools \ {s} /\ Disconnect(s)
      /\ UNCHANGED <<chosen, bootVars, service, subs, jobVars, overlapped, timedOut>>
  OBVIOUS
<1>1. /\ stopper'[p].left = stopper[p].left \ {s} /\ stopper'[p].phase = "turn"
      /\ \A q \in Stoppers \ {p} : stopper'[q] = stopper[q]
      /\ stopper' \in [Stoppers -> [left : SUBSET chosen, phase : StopPhases]]
  BY DEF LifecycleInv, LifeTypes, StopPhases
<1>2. LifeTypes'
  BY <1>0, <1>1 DEF LifecycleInv, LifeTypes, bootVars, jobVars
<1>3. /\ ConnTypes' /\ RefsCover' /\ (RefsAreHolders => RefsAreHolders')
      /\ ~HasHandle(s)' /\ \A t \in Services \ {s} : HasHandle(t)' = HasHandle(t)
  BY <1>0, DisconnectKeeps DEF LifecycleInv
<1>4. JobsFit'
  BY <1>0, JobsKept DEF bootVars, LifecycleInv, JobsFit, InlineFits, Up, Works
<1>5. \A t \in Services : Up(t)' = Up(t)
  BY <1>0 DEF Up
<1>6. ASSUME ~overlapped' PROVE InOrder'
  <2>1. /\ ~overlapped /\ InOrder /\ ~Starting /\ toStart = {}
        /\ \A q \in Stoppers \ {p} : stopper[q].phase \in {"idle", "done"}
        /\ \A t \in Services : service[t] \notin {"open", "subscribing"}
    BY <1>0, <1>6, OneStops DEF StopsAt, Active
  <2>2. \A t \in Services : Shutting(t) => t = s
    BY <1>0, <2>1, StopTurns DEF Shutting, StopsAt
  <2>3. \A t \in Services, q \in Stoppers, ph \in {"drain", "close"} :
          /\ ~StopsAt(q, ph, t)' /\ ~StopsAt(q, "drain", t)
    BY <1>0, <1>1, <2>1 DEF StopsAt
  <2>4. ~Opened(s)' /\ (Up(s) => timedOut) /\ \A t \in Services \ {s} : Opened(t)' = Opened(t)
    <3>1. s \notin subs /\ (Up(s) => timedOut)
      BY <1>0, <2>1 DEF InOrder, ShuttingIsDown, Shutting
    <3>2. QED  BY <1>0, <1>3, <3>1 DEF Opened
  <2>5. OneStop'
    BY <1>0, <1>1, <2>1 DEF InOrder, OneStop, Active, Starting, bootVars
  <2>6. StartFits'
    BY <1>0, <1>5, <2>1 DEF InOrder, StartFits, Starting, bootVars
  <2>7. OpenIsUp'
    BY <1>5, <2>1, <2>2, <2>4 DEF InOrder, OpenIsUp
  <2>8. PastIsShut'
    <3>1. ASSUME NEW q \in Stoppers, stopper'[q].phase # "idle",
                 NEW t \in Services \ stopper'[q].left
          PROVE  ~Opened(t)' /\ (Up(t)' => timedOut')
      <4>1. CASE t = s
        BY <4>1, <1>0, <1>5, <2>4
      <4>2. CASE t # s
        <5>1. stopper[q].phase # "idle" /\ t \notin stopper[q].left
          BY <4>2, <3>1, <1>0, <1>1 DEF StopsAt
        <5>2. ~Opened(t) /\ (Up(t) => timedOut)
          BY <5>1, <2>1 DEF InOrder, PastIsShut
        <5>3. QED  BY <4>2, <5>2, <1>0, <1>5, <2>4
      <4>3. QED  BY <4>1, <4>2
    <3>2. QED  BY <3>1 DEF PastIsShut
  <2>9. DrainIsAwaited' /\ ShuttingIsDown'
    <3>1. ASSUME NEW t \in Services, service[t] = "draining" PROVE ~(t = "api" \/ ~timedOut)
      BY <3>1, <2>1, <2>3 DEF InOrder, DrainIsAwaited
    <3>2. QED  BY <1>0, <2>3, <3>1 DEF DrainIsAwaited, ShuttingIsDown, Shutting
  <2>10. UpIsOpen'
    <3>1. ASSUME ~timedOut, NEW t \in Services, Up(t) PROVE t \in pools' /\ HasHandle(t)'
      BY <3>1, <1>0, <1>3, <2>1, <2>4 DEF InOrder, UpIsOpen
    <3>2. QED  BY <1>0, <1>5, <3>1 DEF UpIsOpen
  <2>11. NextIsUp'
    BY <1>0, <1>5, <2>1, ServicesAre DEF InOrder, NextIsUp
  <2>12. QED  BY <2>5, <2>6, <2>7, <2>8, <2>9, <2>10, <2>11 DEF InOrder
<1>7. ~overlapped' => RefsAreHolders'
  BY <1>0, <1>3 DEF LifecycleInv, Orderly
<1>8. QED  BY <1>0, <1>2, <1>3, <1>4, <1>6, <1>7, Assembled

LEMMA ReturnsStep == ASSUME LifecycleInv, NEW p \in Stoppers, StopReturns(p) PROVE LifecycleInv'
<1> USE DEF StopReturns, Phase
<1>0. /\ stopper[p].phase = "turn" /\ stopper[p].left = {}
      /\ UNCHANGED <<chosen, bootVars, service, pools, connVars, subs, jobVars, overlapped, timedOut>>
  OBVIOUS
<1>1. /\ stopper'[p].left = {} /\ stopper'[p].phase = "done"
      /\ \A q \in Stoppers \ {p} : stopper'[q] = stopper[q]
      /\ stopper' \in [Stoppers -> [left : SUBSET chosen, phase : StopPhases]]
  BY DEF LifecycleInv, LifeTypes, StopPhases
<1>2. LifeTypes'
  BY <1>0, <1>1 DEF LifecycleInv, LifeTypes, bootVars, jobVars
<1>3. JobsFit'
  BY <1>0, JobsKept DEF bootVars, LifecycleInv, JobsFit, InlineFits, Up, Works
<1>4. ASSUME ~overlapped' PROVE InOrder'
  <2>1. /\ ~overlapped /\ InOrder /\ ~Starting /\ toStart = {}
        /\ \A q \in Stoppers \ {p} : stopper[q].phase \in {"idle", "done"}
    BY <1>0, <1>4, OneStops DEF Active
  <2>2. \A t \in Services, q \in Stoppers, ph \in {"drain", "close"} :
          ~StopsAt(q, ph, t)' /\ ~StopsAt(q, ph, t)
    BY <1>0, <1>1, <2>1 DEF StopsAt
  <2>3. \A t \in Services : Up(t)' = Up(t) /\ Opened(t)' = Opened(t) /\ HasHandle(t)' = HasHandle(t)
    BY <1>0 DEF Up, Opened, HasHandle, connVars
  <2>4. OneStop'
    BY <1>0, <1>1, <2>1 DEF InOrder, OneStop, Active, Starting, bootVars
  <2>5. StartFits'
    BY <1>0, <2>1, <2>3 DEF InOrder, StartFits, Starting, bootVars
  <2>6. OpenIsUp' /\ ShuttingIsDown'
    BY <2>1, <2>2, <2>3 DEF InOrder, OpenIsUp, ShuttingIsDown, Shutting
  <2>7. PastIsShut'
    <3>1. \A q \in Stoppers : stopper'[q].left = stopper[q].left
                            /\ (stopper'[q].phase # "idle" => stopper[q].phase # "idle")
      BY <1>0, <1>1
    <3>2. QED  BY <1>0, <3>1, <2>1, <2>3 DEF InOrder, PastIsShut
  <2>8. DrainIsAwaited'
    BY <1>0, <2>1, <2>2 DEF InOrder, DrainIsAwaited
  <2>9. UpIsOpen' /\ NextIsUp'
    BY <1>0, <2>1, <2>3, ServicesAre DEF InOrder, UpIsOpen, NextIsUp
  <2>10. QED  BY <2>4, <2>5, <2>6, <2>7, <2>8, <2>9 DEF InOrder
<1>5. QED  BY <1>0, <1>2, <1>3, <1>4, Assembled

-----------------------------------------------------------------------------
LEMMA LifecycleInvInit == LifecycleInit => LifecycleInv
<1> SUFFICES ASSUME LifecycleInit PROVE LifecycleInv
  OBVIOUS
<1> USE LifecycleBounds DEF LifecycleInit
<1>1. LifeTypes /\ ConnTypes
  <2>1. inFlight \in [owner : Services \cup {"none", "recovery"}, stage : Services \cup {"none"}]
    BY DEF NoJob
  <2>2. QED  BY <2>1 DEF LifeTypes, ConnTypes, ServicePhases, StopPhases
<1>2. RefsCover /\ RefsAreHolders
  BY DEF RefsCover, RefsAreHolders
<1>3. \A s \in Services : ~Up(s) /\ ~Opened(s) /\ ~Shutting(s) /\ service[s] = "down"
  BY DEF Up, Opened, HasHandle, Shutting, StopsAt
<1>4. InOrder
  BY <1>3, ServicesAre DEF InOrder, OneStop, Active, StartFits, Starting, OpenIsUp, PastIsShut,
     DrainIsAwaited, StopsAt, ShuttingIsDown, UpIsOpen, NextIsUp
<1>5. JobsFit
  BY DEF JobsFit, InlineFits, JobFits, NoneCutShort
<1>6. QED  BY <1>1, <1>2, <1>4, <1>5 DEF LifecycleInv, Orderly

LEMMA LifecycleInvStep == LifecycleInv /\ [LifecycleNext]_lifecycleVars => LifecycleInv'
<1> SUFFICES ASSUME LifecycleInv, [LifecycleNext]_lifecycleVars PROVE LifecycleInv'
  OBVIOUS
<1>1. CASE UNCHANGED lifecycleVars
  <2>1. JobsFit'
    BY <1>1, JobsKept DEF lifecycleVars, bootVars, LifecycleInv, JobsFit, InlineFits, Up, Works
  <2>2. QED  BY <1>1, <2>1, MessageKeeps DEF lifecycleVars, jobVars, LifecycleInv, LifeTypes
<1>2. CASE Boot
  <2>1. CASE StartMigrates
    BY <2>1, StartMigratesStep
  <2>2. CASE Migrated \/ MigrationFails \/ AttachSignals \/ Fuse
    BY <2>2, StartupStep
  <2>3. CASE CreateApiServer \/ \E s \in Services : Subscribed(s) \/ WorkerSubscribeFails(s)
    BY <2>3, SubscribeStep
  <2>4. CASE StartApi \/ StartDelivery \/ StartEngine \/ StartEnricher \/ StartScheduler
             \/ StartAi \/ StartWorkflow \/ StartEvents
    <3>1. PICK s \in Services, becomes \in {"open", "subscribing", "running"} :
            /\ CallStart(s, becomes)
            /\ subs' = IF becomes = "subscribing" THEN subs \cup {s} ELSE subs
      BY <2>4, ServicesAre DEF StartApi, StartDelivery, StartEngine, StartEnricher, StartScheduler,
         StartAi, StartWorkflow, StartEvents
    <3>2. QED  BY <3>1, CallStartStep
  <2>5. QED  BY <1>2, <2>1, <2>2, <2>3, <2>4 DEF Boot
<1>3. CASE Halt
  <2>1. CASE ApiServerClosed
    BY <2>1, ApiClosedStep
  <2>2. ASSUME NEW p \in Stoppers, Stop(p) \/ CloseApiServer(p) \/ StopReturns(p)
        PROVE  LifecycleInv'
    BY <2>2, StopStep, CloseApiStep, ReturnsStep
  <2>3. ASSUME NEW p \in Stoppers, NEW s \in Services,
               ShutdownWorker(p, s) \/ Drained(p, s) \/ DrainTimesOut(p, s) \/ CloseConnections(p, s)
        PROVE  LifecycleInv'
    BY <2>3, ShutdownStep, DrainedStep, DrainTimesOutStep, CloseConnectionsStep
  <2>4. QED  BY <1>3, <2>1, <2>2, <2>3 DEF Halt
<1>4. CASE HandDown \/ EndJob \/ CutJob \/ ToggleFeed
  BY <1>4, HandDownStep, JobEnds, ToggleStep
<1>5. ASSUME NEW s \in Services, TakeJob(s) \/ ClaimAhead(s) PROVE LifecycleInv'
  BY <1>5, JobTaken
<1>6. QED  BY <1>1, <1>2, <1>3, <1>4, <1>5 DEF LifecycleNext

LEMMA LifecycleInvStops == LifecycleInv => StopsCleanly
<1> SUFFICES ASSUME LifecycleInv PROVE StopsCleanly
  OBVIOUS
<1>1. NoneCutShort
  BY DEF LifecycleInv, JobsFit
<1>2. RedisStaysOpen
  BY HandleIsOpen DEF LifecycleInv, RedisStaysOpen, HasHandle
<1>3. ASSUME NEW p \in Stoppers, stopper[p].phase = "done", ~overlapped
      PROVE  /\ pools \subseteq {"migrations"} /\ subs = {}
             /\ \A i \in DOMAIN clients : ~clients[i].open
  <2>1. InOrder /\ RefsAreHolders
    BY <1>3 DEF LifecycleInv, Orderly
  <2>2. \A s \in Services : ~Opened(s)
    BY <1>3, <2>1 DEF InOrder, OneStop, PastIsShut
  <2>3. pools \subseteq {"migrations"} /\ subs = {}
    BY <2>2 DEF Opened, LifecycleInv, LifeTypes
  <2>4. ASSUME NEW i \in DOMAIN clients PROVE ~clients[i].open
    <3>1. Holders(i) = {}
      <4>1. i # 0
        BY DEF LifecycleInv, ConnTypes
      <4>2. QED  BY <4>1, <2>2 DEF Holders, Opened, HasHandle
    <3>2. clients[i].refs = 0
      BY <3>1, <2>1, FS_EmptySet DEF RefsAreHolders
    <3>3. QED  BY <3>2 DEF LifecycleInv, RefsCover
  <2>5. QED  BY <2>3, <2>4
<1>4. QED  BY <1>1, <1>2, <1>3 DEF StopsCleanly, StopLeavesNothing

\* Stopping a server cuts no message short and leaves nothing open, but for the
\* four cases NoneCutShort names, and a handle on the shared Redis connection
\* keeps it open (src/src/server.ts, workers/bootstrap.ts, redis/index.ts).
THEOREM StopsKept == LifecycleSpec => []StopsCleanly
<1>1. LifecycleInit => LifecycleInv
  BY LifecycleInvInit
<1>2. LifecycleInv /\ [LifecycleNext]_lifecycleVars => LifecycleInv'
  BY LifecycleInvStep
<1>3. LifecycleInv => StopsCleanly
  BY LifecycleInvStops
<1>4. QED  BY <1>1, <1>2, <1>3, PTL DEF LifecycleSpec

-----------------------------------------------------------------------------
(* Migrating the installs of one database.                                 *)

Phases == {"idle", "retarget", "read", "apply", "check", "migrated", "failed", "missing"}
MigratorTypes ==
    migrator \in [Migrators -> [schema : Schemas \cup {"none"}, ships : 0..Steps,
                                phase : Phases, last : 0..Steps]]

\* Whoever migrates has an install to migrate.
HasInstall(m) ==
    migrator[m].phase # "idle" => migrator[m].schema \in Schemas

\* Past the rewriting, a package for a schema of its own names no other.
Rewritten(m) ==
    migrator[m].phase \in {"read", "apply", "check"} /\ migrator[m].schema # "public" =>
        OddOnes \cap 1..migrator[m].ships = {}

\* What was read in the journal is there, and what was applied, too.
ReadIsThere(m) ==
    Apart =>
        /\ migrator[m].phase = "apply" => migrator[m].last <= journal[JournalOf(migrator[m].schema)]
        /\ migrator[m].phase = "check" => 1..migrator[m].ships \subseteq applied[migrator[m].schema]

MigrationsInv ==
    /\ MigrationsTypeOK /\ MigratorTypes
    /\ \A m \in Migrators : HasInstall(m) /\ Rewritten(m) /\ ReadIsThere(m)
    /\ InstallsAreApart

LEMMA MigrationsInvInit == MigrationsInit => MigrationsInv
<1> SUFFICES ASSUME MigrationsInit PROVE MigrationsInv
  OBVIOUS
<1> USE MigrationBounds DEF MigrationsInit, NotMigrating
<1>1. MigrationsTypeOK /\ MigratorTypes
  BY DEF MigrationsTypeOK, MigratorTypes, Phases
<1>2. ASSUME NEW m \in Migrators PROVE HasInstall(m) /\ Rewritten(m) /\ ReadIsThere(m)
  BY DEF HasInstall, Rewritten, ReadIsThere
<1>3. TablesAreThere /\ NothingStrays
  BY DEF TablesAreThere, NothingStrays
<1>4. OwnJournal
  BY DEF OwnJournal, Journals, JournalOf
<1>5. QED  BY <1>1, <1>2, <1>3, <1>4 DEF MigrationsInv, InstallsAreApart

\* By default a schema's journal is its own.
LEMMA JournalsDiffer ==
    ASSUME Apart, NEW s \in Schemas, NEW t \in Schemas, JournalOf(s) = JournalOf(t)
    PROVE  s = t
  BY DEF Apart, JournalOf

\* A step of one process that leaves the database alone.
LEMMA PhaseStep ==
    ASSUME MigrationsInv, NEW m \in Migrators, NEW to,
           UNCHANGED <<journalOption, applied, journal, strayed>>,
           migrator' = [migrator EXCEPT ![m] = to],
           to \in [schema : Schemas \cup {"none"}, ships : 0..Steps, phase : Phases, last : 0..Steps],
           to.phase # "idle" => to.schema \in Schemas,
           to.phase \in {"read", "apply", "check"} /\ to.schema # "public" =>
               OddOnes \cap 1..to.ships = {},
           Apart /\ to.phase = "apply" => to.last <= journal[JournalOf(to.schema)],
           Apart /\ to.phase = "check" => 1..to.ships \subseteq applied[to.schema],
           to.phase = "migrated" /\ to.schema # "public" =>
               Creating \cap 1..to.ships \subseteq applied[to.schema],
           Apart /\ to.phase = "migrated" => 1..to.ships \subseteq applied[to.schema],
           Apart => to.phase # "missing"
    PROVE  MigrationsInv'
<1> USE DEF MigrationsInv, InstallsAreApart
<1>1. migrator'[m] = to /\ \A o \in Migrators \ {m} : migrator'[o] = migrator[o]
  BY DEF MigratorTypes
<1>2. Apart' = Apart /\ \A s : JournalOf(s)' = JournalOf(s)
  BY DEF Apart, JournalOf
<1>3. MigratorTypes'
  BY DEF MigratorTypes
<1>4. MigrationsTypeOK'
  BY <1>3 DEF MigratorTypes, MigrationsTypeOK, Phases
<1>5. ASSUME NEW o \in Migrators PROVE (HasInstall(o) /\ Rewritten(o) /\ ReadIsThere(o))'
  <2>1. CASE o = m
    BY <1>1, <1>2, <2>1 DEF HasInstall, Rewritten, ReadIsThere
  <2>2. CASE o # m
    BY <1>1, <1>2, <2>2 DEF HasInstall, Rewritten, ReadIsThere
  <2>3. QED  BY <2>1, <2>2
<1>6. TablesAreThere'
  BY <1>1, <1>2 DEF TablesAreThere
<1>7. OwnJournal'
  BY <1>1, <1>2 DEF OwnJournal
<1>8. NothingStrays'
  BY DEF NothingStrays
<1>9. QED  BY <1>3, <1>4, <1>5, <1>6, <1>7, <1>8

\* The transaction that applies what is newer.
LEMMA AppliesStep ==
    ASSUME MigrationsInv, NEW m \in Migrators, ApplyMigrations(m), Newer(m) # {}, Applicable(m)
    PROVE  MigrationsInv'
<1> DEFINE me == migrator[m]
           s == me.schema
           newest == IF journal[JournalOf(s)] < me.ships THEN me.ships ELSE journal[JournalOf(s)]
<1> USE DEF MigrationsInv, InstallsAreApart
<1>1. /\ me.phase = "apply" /\ s \in Schemas /\ me.ships \in 0..Steps /\ me.last \in 0..Steps
      /\ me.last < me.ships /\ Newer(m) \subseteq 1..me.ships
      /\ Newer(m) = me.last + 1 .. me.ships
  BY MigrationBounds DEF ApplyMigrations, Newer, MigratorTypes, HasInstall
<1>2. /\ applied' = [applied EXCEPT ![s] = applied[s] \cup Newer(m)]
      /\ journal' = [journal EXCEPT ![JournalOf(s)] = newest]
      /\ strayed' = (strayed \/ (s # "public" /\ Newer(m) \cap OddOnes # {}))
      /\ migrator' = [migrator EXCEPT ![m].phase = "check"]
      /\ UNCHANGED journalOption
  BY <1>1 DEF ApplyMigrations, Phased
<1>3. Apart' = Apart /\ \A t : JournalOf(t)' = JournalOf(t)
  BY <1>2 DEF Apart, JournalOf
<1>4. JournalOf(s) \in Journals
  BY <1>1 DEF JournalOf, Journals, MigrationsTypeOK
<1>17. journal[JournalOf(s)] \in 0..Steps /\ newest \in 0..Steps
       /\ me.ships <= newest /\ journal[JournalOf(s)] <= newest
  <2>1. journal[JournalOf(s)] \in 0..Steps
    BY <1>4 DEF MigrationsTypeOK
  <2> QED  BY <2>1, <1>1, MigrationBounds
<1>5. /\ applied'[s] = applied[s] \cup Newer(m) /\ journal'[JournalOf(s)] = newest
      /\ \A t \in Schemas : t # s => applied'[t] = applied[t]
      /\ \A j \in Journals : j # JournalOf(s) => journal'[j] = journal[j]
      /\ migrator'[m] = [me EXCEPT !.phase = "check"]
      /\ \A o \in Migrators \ {m} : migrator'[o] = migrator[o]
  BY <1>1, <1>2, <1>4, <1>17 DEF MigrationsTypeOK, MigratorTypes
<1> HIDE DEF newest
<1>6. \A t \in Schemas : applied[t] \subseteq applied'[t]
  BY <1>1, <1>5
<1>7. MigrationsTypeOK' /\ MigratorTypes'
  <2>1. me \in [schema : Schemas \cup {"none"}, ships : 0..Steps, phase : Phases, last : 0..Steps]
    BY DEF MigratorTypes
  <2>2. MigratorTypes'
    BY <1>2, <1>5, <2>1 DEF MigratorTypes, Phases
  <2>3. 1..me.ships \subseteq 1..Steps
    BY <1>1, MigrationBounds
  <2>5. applied[s] \cup Newer(m) \in SUBSET (1..Steps)
    BY <1>1, <2>3 DEF MigrationsTypeOK
  <2>6. applied' \in [Schemas -> SUBSET (1..Steps)] /\ journal' \in [Journals -> 0..Steps]
    BY <1>2, <1>17, <2>5 DEF MigrationsTypeOK
  <2>4. QED  BY <1>1, <1>2, <2>2, <2>6 DEF MigrationsTypeOK, MigratorTypes, Phases
<1>8. \A t \in Schemas : JournalOf(t) \in Journals
  BY DEF JournalOf, Journals, MigrationsTypeOK
<1>9. Apart => me.last <= journal[JournalOf(s)] /\ applied[s] = 1..journal[JournalOf(s)]
  BY <1>1 DEF ReadIsThere, OwnJournal
<1>10. \A j \in Journals : journal[j] \in 0..Steps
  BY DEF MigrationsTypeOK
<1>11. Apart => applied'[s] = 1..newest
  <2>1. SUFFICES ASSUME Apart PROVE applied[s] \cup Newer(m) = 1..newest
    BY <1>5
  <2>2. \E e \in 0..Steps : e = journal[JournalOf(s)]
    BY <1>17
  <2>3. PICK e \in 0..Steps : e = journal[JournalOf(s)]
    BY <2>2
  <2>4. applied[s] = 1..e /\ me.last <= e
    BY <1>9, <2>1, <2>3
  <2>5. newest = IF e < me.ships THEN me.ships ELSE e
    BY <2>3 DEF newest
  <2>6. 1..e \cup (me.last + 1 .. me.ships) = 1..newest
    BY <1>1, <2>3, <2>4, <2>5, MigrationBounds
  <2> QED  BY <1>1, <2>4, <2>6
<1>12. ASSUME NEW o \in Migrators PROVE (HasInstall(o) /\ Rewritten(o) /\ ReadIsThere(o))'
  <2>1. CASE o = m
    <3>1. /\ migrator'[o].phase = "check" /\ migrator'[o].schema = s
          /\ migrator'[o].ships = me.ships
      BY <1>5, <2>1 DEF MigratorTypes
    <3>2. HasInstall(o)' /\ Rewritten(o)'
      BY <1>1, <1>5, <2>1, <3>1 DEF HasInstall, Rewritten
    <3>3. Apart => 1..me.ships \subseteq applied'[s]
      BY <1>1, <1>11, <1>17, MigrationBounds
    <3>4. QED  BY <1>3, <3>1, <3>2, <3>3 DEF ReadIsThere
  <2>2. CASE o # m
    <3>1. migrator'[o] = migrator[o]
      BY <1>5, <2>2
    <3>2. HasInstall(o)' /\ Rewritten(o)'
      BY <3>1 DEF HasInstall, Rewritten
    <3>3. ASSUME Apart, migrator[o].phase = "apply"
          PROVE  migrator[o].last <= journal'[JournalOf(migrator[o].schema)]
      <4>1. migrator[o].schema \in Schemas /\ migrator[o].last <= journal[JournalOf(migrator[o].schema)]
        BY <3>3 DEF HasInstall, ReadIsThere
      <4>2. migrator[o].last \in 0..Steps /\ JournalOf(migrator[o].schema) \in Journals
        BY <4>1, <1>8 DEF MigratorTypes
      <4>3. CASE JournalOf(migrator[o].schema) = JournalOf(s)
        <5>1. migrator[o].last <= journal[JournalOf(s)] /\ journal[JournalOf(s)] <= newest
          BY <4>1, <4>3, <1>17
        <5>2. QED  BY <4>2, <4>3, <1>5, <1>17, <5>1, MigrationBounds
      <4>4. CASE JournalOf(migrator[o].schema) # JournalOf(s)
        BY <4>1, <4>2, <4>4, <1>5
      <4>5. QED  BY <4>3, <4>4
    <3>4. ASSUME Apart, migrator[o].phase = "check"
          PROVE  1..migrator[o].ships \subseteq applied'[migrator[o].schema]
      BY <3>4, <1>6 DEF HasInstall, ReadIsThere
    <3>5. QED  BY <1>3, <3>1, <3>2, <3>3, <3>4 DEF ReadIsThere
  <2>3. QED  BY <2>1, <2>2
<1>13. TablesAreThere'
  <2>1. ASSUME NEW o \in Migrators, migrator'[o].phase = "migrated"
        PROVE  /\ migrator'[o] = migrator[o] /\ migrator[o].phase = "migrated"
               /\ migrator[o].schema \in Schemas
    <3>1. o # m
      BY <1>5, <2>1 DEF MigratorTypes
    <3>2. QED  BY <1>5, <2>1, <3>1 DEF HasInstall
  <2>2. QED  BY <1>3, <1>6, <2>1 DEF TablesAreThere
<1>14. OwnJournal'
  <2>1. SUFFICES ASSUME Apart
                 PROVE  /\ \A t \in Schemas : applied'[t] = 1..journal'[JournalOf(t)]
                        /\ \A o \in Migrators : migrator'[o].phase # "missing"
    BY <1>3 DEF OwnJournal
  <2>2. ASSUME NEW t \in Schemas PROVE applied'[t] = 1..journal'[JournalOf(t)]
    <3>1. CASE t = s
      BY <1>5, <1>11, <2>1, <3>1
    <3>2. CASE t # s
      <4>1. JournalOf(t) # JournalOf(s)
        BY <1>1, <2>1, <3>2, JournalsDiffer
      <4>2. QED  BY <1>5, <1>8, <2>1, <3>2, <4>1 DEF OwnJournal
    <3>3. QED  BY <3>1, <3>2
  <2>3. \A o \in Migrators : migrator'[o].phase # "missing"
    BY <1>5, <2>1 DEF OwnJournal, MigratorTypes
  <2>4. QED  BY <2>2, <2>3
<1>15. NothingStrays'
  BY <1>1, <1>2 DEF NothingStrays, Rewritten
<1>16. QED  BY <1>7, <1>12, <1>13, <1>14, <1>15

LEMMA MigrationsInvStep == MigrationsInv /\ [MigrationsNext]_migrationsVars => MigrationsInv'
<1> SUFFICES ASSUME MigrationsInv, [MigrationsNext]_migrationsVars PROVE MigrationsInv'
  OBVIOUS
<1> DEFINE Rows == [schema : Schemas \cup {"none"}, ships : 0..Steps, phase : Phases, last : 0..Steps]
<1>0. \A m \in Migrators : migrator[m] \in Rows
  BY DEF MigrationsInv, MigratorTypes
<1>1. ASSUME NEW m \in Migrators, NEW s \in Schemas, NEW n \in 1..Steps, BeginMigrating(m, s, n)
      PROVE  MigrationsInv'
  <2> DEFINE to == [schema |-> s, ships |-> n, phase |-> "retarget", last |-> 0]
  <2>1. to \in Rows
    BY MigrationBounds DEF Phases
  <2>2. QED  BY <1>1, <2>1, PhaseStep DEF BeginMigrating
<1>2. ASSUME NEW m \in Migrators, Retarget(m) PROVE MigrationsInv'
  <2>1. ASSUME NEW p \in {"read", "failed"}, migrator' = [migrator EXCEPT ![m].phase = p],
               p = "read" /\ migrator[m].schema # "public" => Rewritable(m)
        PROVE  MigrationsInv'
    <3> DEFINE to == [migrator[m] EXCEPT !.phase = p]
    <3>1. /\ to \in Rows /\ to.phase = p /\ to.schema = migrator[m].schema
          /\ to.ships = migrator[m].ships
      BY <1>0 DEF Phases
    <3>2. migrator' = [migrator EXCEPT ![m] = to]
      BY <2>1
    <3>3. migrator[m].schema \in Schemas
      BY <1>2 DEF Retarget, MigrationsInv, HasInstall
    <3> HIDE DEF to
    <3>4. QED  BY <1>2, <2>1, <3>1, <3>2, <3>3, PhaseStep DEF Retarget, Rewritable
  <2>2. QED  BY <1>2, <2>1 DEF Retarget, Phased
<1>3. ASSUME NEW m \in Migrators, ReadJournal(m) PROVE MigrationsInv'
  <2> DEFINE to == [migrator[m] EXCEPT !.phase = "apply", !.last = journal[JournalOf(migrator[m].schema)]]
  <2>1. migrator[m].phase = "read" /\ migrator[m].schema \in Schemas
    BY <1>3 DEF ReadJournal, MigrationsInv, HasInstall
  <2>2. journal[JournalOf(migrator[m].schema)] \in 0..Steps
    BY <2>1 DEF MigrationsInv, MigrationsTypeOK, JournalOf, Journals
  <2>3. /\ to \in Rows /\ to.phase = "apply" /\ to.schema = migrator[m].schema
        /\ to.ships = migrator[m].ships /\ to.last = journal[JournalOf(to.schema)]
    BY <1>0, <2>2 DEF Phases
  <2>4. migrator' = [migrator EXCEPT ![m] = to]
    BY <1>3 DEF ReadJournal
  <2>5. to.schema # "public" => OddOnes \cap 1..to.ships = {}
    BY <2>1, <2>3 DEF MigrationsInv, Rewritten
  <2>6. Apart => to.last <= journal[JournalOf(to.schema)]
    BY <2>2, <2>3
  <2> HIDE DEF to
  <2>7. QED  BY <1>3, <2>1, <2>3, <2>4, <2>5, <2>6, PhaseStep DEF ReadJournal
<1>4. ASSUME NEW m \in Migrators, ApplyMigrations(m) PROVE MigrationsInv'
  <2>1. CASE Newer(m) # {} /\ Applicable(m)
    BY <1>4, <2>1, AppliesStep
  <2>2. ASSUME NEW p \in {"check", "failed"}, Phased(m, p), UNCHANGED <<applied, journal, strayed>>,
               p = "check" => Newer(m) = {}
        PROVE  MigrationsInv'
    <3> DEFINE to == [migrator[m] EXCEPT !.phase = p]
    <3>1. /\ to \in Rows /\ to.phase = p /\ to.schema = migrator[m].schema
          /\ to.ships = migrator[m].ships
      BY <1>0 DEF Phases
    <3>2. migrator' = [migrator EXCEPT ![m] = to]
      BY <2>2 DEF Phased
    <3>3. migrator[m].phase = "apply" /\ migrator[m].schema \in Schemas
      BY <1>4 DEF ApplyMigrations, MigrationsInv, HasInstall
    <3>4. ASSUME Apart, p = "check" PROVE 1..migrator[m].ships \subseteq applied[migrator[m].schema]
      <4>1. migrator[m].ships \in 0..Steps /\ migrator[m].last \in 0..Steps
        BY <1>0
      <4>2. migrator[m].ships <= migrator[m].last
        <5>1. \A i \in Int : ~(migrator[m].last + 1 <= i /\ i <= migrator[m].ships)
          BY <2>2, <3>4, <4>1, MigrationBounds DEF Newer
        <5>2. QED  BY <4>1, <5>1, MigrationBounds
      <4>3. migrator[m].last <= journal[JournalOf(migrator[m].schema)]
        BY <3>3, <3>4 DEF MigrationsInv, ReadIsThere
      <4>4. journal[JournalOf(migrator[m].schema)] \in 0..Steps
        BY <3>3 DEF MigrationsInv, MigrationsTypeOK, JournalOf, Journals
      <4>5. applied[migrator[m].schema] = 1..journal[JournalOf(migrator[m].schema)]
        BY <3>3, <3>4 DEF MigrationsInv, InstallsAreApart, OwnJournal
      <4>6. QED  BY <4>1, <4>2, <4>3, <4>4, <4>5, MigrationBounds
    <3>5. to.schema # "public" => OddOnes \cap 1..to.ships = {}
      BY <3>1, <3>3 DEF MigrationsInv, Rewritten
    <3> HIDE DEF to
    <3>6. QED  BY <1>4, <2>2, <3>1, <3>2, <3>3, <3>4, <3>5, PhaseStep DEF ApplyMigrations
  <2>3. QED  BY <1>4, <2>1, <2>2 DEF ApplyMigrations
<1>5. ASSUME NEW m \in Migrators, CheckTables(m) PROVE MigrationsInv'
  <2>1. ASSUME NEW p \in {"missing", "migrated"}, Phased(m, p), p = "missing" <=> Missing(m)
        PROVE  MigrationsInv'
    <3> DEFINE to == [migrator[m] EXCEPT !.phase = p]
    <3>1. /\ to \in Rows /\ to.phase = p /\ to.schema = migrator[m].schema
          /\ to.ships = migrator[m].ships
      BY <1>0 DEF Phases
    <3>2. migrator' = [migrator EXCEPT ![m] = to]
      BY <2>1 DEF Phased
    <3>3. migrator[m].phase = "check" /\ migrator[m].schema \in Schemas
      BY <1>5 DEF CheckTables, MigrationsInv, HasInstall
    <3>4. Apart => 1..to.ships \subseteq applied[to.schema]
      BY <3>1, <3>3 DEF MigrationsInv, ReadIsThere
    <3>6. Apart => p # "missing"
      BY <2>1, <3>1, <3>4 DEF Missing
    <3>7. p = "migrated" /\ to.schema # "public" =>
              Creating \cap 1..to.ships \subseteq applied[to.schema]
      BY <2>1, <3>1 DEF Missing
    <3> HIDE DEF to
    <3>5. QED  BY <1>5, <2>1, <3>1, <3>2, <3>3, <3>4, <3>6, <3>7, PhaseStep DEF CheckTables
  <2>2. QED  BY <1>5, <2>1 DEF CheckTables
<1>6. ASSUME NEW m \in Migrators, MigratorDies(m) PROVE MigrationsInv'
  <2>1. NotMigrating \in Rows
    BY MigrationBounds DEF NotMigrating, Phases
  <2>2. QED  BY <1>6, <2>1, PhaseStep DEF MigratorDies, NotMigrating
<1>7. CASE UNCHANGED migrationsVars
  <2>1. Apart' = Apart /\ \A t : JournalOf(t)' = JournalOf(t)
    BY <1>7 DEF migrationsVars, Apart, JournalOf
  <2>2. QED
    BY <1>7, <2>1 DEF migrationsVars, MigrationsInv, MigrationsTypeOK, MigratorTypes, HasInstall, Rewritten,
                 ReadIsThere, InstallsAreApart, TablesAreThere, OwnJournal, NothingStrays
<1>8. QED
  BY <1>1, <1>2, <1>3, <1>4, <1>5, <1>6, <1>7 DEF MigrationsNext

\* Installs of one database keep apart through processes that race, die or ship
\* an older package (db/index.ts, 79-209).
THEOREM InstallsKept == MigrationsSpec => []InstallsAreApart
<1>1. MigrationsInv => InstallsAreApart
  BY DEF MigrationsInv
<1>2. QED  BY <1>1, MigrationsInvInit, MigrationsInvStep, PTL DEF MigrationsSpec

\* Whatever an operator does to a server, it stops cleanly, and its installs keep
\* apart (server.ts, workers/bootstrap.ts, db/index.ts).
THEOREM OperationsKept == OperationsSpec => []OperationsHold
  BY StopsKept, InstallsKept, PTL DEF OperationsSpec, OperationsHold
=============================================================================
