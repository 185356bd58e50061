------------------------------ MODULE Lifecycle ------------------------------
(***************************************************************************)
(* Starting and stopping a NotifkitServer: the services it runs in one     *)
(* process, the Postgres pool and the counted handle on the shared Redis   *)
(* connection that each of them opens, and the stop that takes them down   *)
(* upstream first while messages are still in flight, some of them handed  *)
(* from the enricher to the engine and to delivery inside the process.     *)
(*                                                                         *)
(* stop() may be called by the application and by a signal, at any time    *)
(* after start() was called.  What a message does at each stage is in the  *)
(* modules of the stages; here a message only needs the connections of the *)
(* stage that is working on it.                                            *)
(***************************************************************************)
EXTENDS Naturals, Sequences, FiniteSets

CONSTANTS
    ServiceSets,    \* the choices of options.services to explore
    MaxStarts,      \* bound: calls of start()
    MaxJobs         \* bound: messages taken in all

VARIABLES
    chosen,      \* options.services
    startup,     \* where start() is
    toStart,     \* the services whose start function it has still to call
    service,     \* each service: down, open, subscribing, running, draining, stopped
    pools,       \* the Postgres pools that are open
    clients,     \* every Redis connection made: references to it, and whether it is open
    sharedEntry,       \* the one in sharedClients, 0 for none
    heldOn,        \* the connection a service's handle is on, 0 for none
    released,    \* the services whose handle's `released` is set
    subs,        \* the services with a subscriber connection
    inline,      \* setInlineNext was called: the pipeline is fused
    feed,        \* a client holds a live event stream open at the API
    inFlight,         \* the message in flight: whose slot it holds and the stage working on it
    takenJobs,       \* messages taken so far
    reclaiming,  \* the service whose recovery holds a claimed message and waits for a slot
    stopper,     \* each caller of stop(): the services left to stop, and its phase
    attached,    \* the signal handlers are attached
    forwarding,  \* worker events are forwarded to the server instance
    starts,      \* calls of start() so far
    overlapped,  \* history: a stop ran beside another stop, or beside start()
    timedOut,    \* history: a worker had not drained after 30 s
    behindDrain,        \* history: a recovered message was started behind the drain
    cut          \* history: a message found its stage's connections closed

bootVars == <<startup, toStart, inline, attached, starts>>
connVars == <<clients, sharedEntry, heldOn, released>>
jobVars  == <<inFlight, takenJobs, reclaiming, behindDrain, cut>>
lifecycleVars == <<chosen, bootVars, service, pools, connVars, subs, feed, jobVars,
                   stopper, forwarding, overlapped, timedOut>>

(* When each service has its turn in start(), and in stop(): upstream first. *)
StartTurn == [api |-> 1, delivery |-> 2, engine |-> 3, enricher |-> 4,
              scheduler |-> 5, ai |-> 6, workflow |-> 7, events |-> 8]
(* As StopTurn, but delivery before the stages that call it inline. *)
StopTurnDeliveryFirst ==
    [api |-> 1, delivery |-> 2, workflow |-> 3, enricher |-> 4,
     ai |-> 5, engine |-> 6, scheduler |-> 7, events |-> 8]
StopTurn == [api |-> 1, workflow |-> 2, enricher |-> 3, ai |-> 4,
             engine |-> 5, scheduler |-> 6, delivery |-> 7, events |-> 8]
Services   == DOMAIN StartTurn

ASSUME LifecycleBounds ==
    ServiceSets \subseteq SUBSET Services /\ MaxStarts \in Nat /\ MaxJobs \in Nat

Pipeline   == {"enricher", "engine", "delivery"}
Stoppers   == {"caller", "signal"}
Downstream == [enricher |-> "engine", engine |-> "delivery"]
NoJob      == [owner |-> "none", stage |-> "none"]

(* The first of what is left. *)
IsNext(s, left, turn) == s \in left /\ \A t \in left : turn[s] <= turn[t]
Active(p)     == stopper[p].phase \notin {"idle", "done", "failed"}
Exited        == stopper["signal"].phase = "done"    \* process.exit
Starting      == startup \in {"migrating", "starting", "waiting"}

LifecycleInit ==
    /\ chosen \in ServiceSets
    /\ startup = "new" /\ toStart = {} /\ starts = 0
    /\ service = [s \in Services |-> "down"]
    /\ pools = {} /\ clients = <<>> /\ sharedEntry = 0
    /\ heldOn = [s \in Services |-> 0] /\ released = {} /\ subs = {}
    /\ inline = FALSE /\ feed = FALSE /\ attached = FALSE /\ forwarding = TRUE
    /\ inFlight = NoJob /\ takenJobs = 0 /\ reclaiming = "none" /\ behindDrain = FALSE
    /\ stopper = [p \in Stoppers |-> [left |-> {}, phase |-> "idle"]]
    /\ overlapped = FALSE /\ timedOut = FALSE /\ cut = FALSE

-----------------------------------------------------------------------------
(* The connections of one service.                                         *)

(* RedisClient.shared: one more reference to the connection of this URL. *)
Share(s) ==
    /\ IF sharedEntry # 0
         THEN /\ clients' = [clients EXCEPT ![sharedEntry].refs = @ + 1]
              /\ UNCHANGED sharedEntry
         ELSE /\ clients' = Append(clients, [refs |-> 1, open |-> TRUE])
              /\ sharedEntry' = Len(clients) + 1
    /\ heldOn' = [heldOn EXCEPT ![s] = sharedEntry']
    /\ released' = released \ {s}

(* As Disconnect, but without a look at `released`. *)
DisconnectAgain(s) ==
    IF heldOn[s] = 0
      THEN UNCHANGED connVars
      ELSE LET refs == clients[heldOn[s]].refs - 1 IN
             /\ clients' = [clients EXCEPT ![heldOn[s]] =
                              [refs |-> refs, open |-> @.open /\ refs # 0]]
             /\ sharedEntry' = IF refs = 0 /\ sharedEntry = heldOn[s] THEN 0 ELSE sharedEntry
             /\ released' = released \cup {s}
             /\ UNCHANGED heldOn

(* What shared() returns overrides disconnect() with this. *)
Disconnect(s) ==
    IF heldOn[s] = 0 \/ s \in released
      THEN UNCHANGED connVars
      ELSE LET refs == clients[heldOn[s]].refs - 1 IN
             /\ clients' = [clients EXCEPT ![heldOn[s]] =
                              [refs |-> refs, open |-> @.open /\ refs # 0]]
             /\ sharedEntry' = IF refs = 0 /\ sharedEntry = heldOn[s] THEN 0 ELSE sharedEntry
             /\ released' = released \cup {s}
             /\ UNCHANGED heldOn

OpenPool(s) == pools' = pools \cup {s}

(* createWorkerRuntime *)
Connect(s) == Share(s) /\ OpenPool(s)

Usable(s) == s \in pools /\ heldOn[s] # 0 /\ clients[heldOn[s]].open

-----------------------------------------------------------------------------
(* start()                                                                 *)

AllStopped == \A p \in Stoppers : ~Active(p)

StartMigrates ==
    /\ startup \in {"new", "done", "failed"} /\ starts < MaxStarts
    /\ AllStopped /\ \A s \in chosen : service[s] \in {"down", "stopped"}
    /\ starts' = starts + 1
    /\ startup' = "migrating"
    /\ OpenPool("migrations")
    /\ stopper' = [p \in Stoppers |-> [left |-> {}, phase |-> "idle"]]
    /\ UNCHANGED <<chosen, toStart, inline, attached, service, connVars, subs, feed, jobVars,
                   forwarding, overlapped, timedOut>>

Migrated ==
    /\ startup = "migrating"
    /\ pools' = pools \ {"migrations"}
    /\ startup' = "starting"
    /\ toStart' = chosen
    /\ UNCHANGED <<chosen, inline, attached, starts, service, connVars, subs, feed, jobVars,
                   stopper, forwarding, overlapped, timedOut>>

(* The pool of the migrations is left open. *)
MigrationFails ==
    /\ startup = "migrating"
    /\ startup' = "failed"
    /\ UNCHANGED <<chosen, toStart, inline, attached, starts, service, pools, connVars, subs,
                   feed, jobVars, stopper, forwarding, overlapped, timedOut>>

(* The call of one service's start function, as far as its first await. *)
CallStart(s, becomes) ==
    /\ startup = "starting" /\ IsNext(s, toStart, StartTurn)
    /\ toStart' = toStart \ {s}
    /\ Connect(s)
    /\ service' = [service EXCEPT ![s] = becomes]
    /\ UNCHANGED <<chosen, startup, inline, attached, starts, feed, jobVars, stopper,
                   forwarding, overlapped, timedOut>>

(* These subscribe to invalidations before their worker starts. *)
StartDelivery == CallStart("delivery", "subscribing") /\ subs' = subs \cup {"delivery"}
StartEngine   == CallStart("engine", "subscribing")   /\ subs' = subs \cup {"engine"}
StartAi       == CallStart("ai", "subscribing")       /\ subs' = subs \cup {"ai"}

StartEnricher  == CallStart("enricher", "running")  /\ UNCHANGED subs
StartScheduler == CallStart("scheduler", "running") /\ UNCHANGED subs
StartWorkflow  == CallStart("workflow", "running")  /\ UNCHANGED subs
StartEvents    == CallStart("events", "running")    /\ UNCHANGED subs

(* The API looks up the first administrator before it has a server. *)
StartApi == CallStart("api", "open") /\ UNCHANGED subs
CreateApiServer ==
    /\ service["api"] = "open"
    /\ service' = [service EXCEPT !["api"] = "subscribing"]
    /\ subs' = subs \cup {"api"}
    /\ UNCHANGED <<chosen, bootVars, pools, connVars, feed, jobVars, stopper, forwarding,
                   overlapped, timedOut>>

(* The subscription is acknowledged: the worker starts, or the API listens. *)
Subscribed(s) ==
    /\ service[s] = "subscribing" /\ s \in subs
    /\ service' = [service EXCEPT ![s] = "running"]
    /\ UNCHANGED <<chosen, bootVars, pools, connVars, subs, feed, jobVars, stopper, forwarding,
                   overlapped, timedOut>>

(* A stop disconnected the subscriber meanwhile: this start function rejects. *)
WorkerSubscribeFails(s) ==
    /\ service[s] = "subscribing" /\ s \notin subs
    /\ service' = [service EXCEPT ![s] = "down"]
    /\ startup' = "failed" /\ toStart' = {}
    /\ UNCHANGED <<chosen, inline, attached, starts, pools, connVars, subs, feed, jobVars,
                   stopper, forwarding, overlapped, timedOut>>

AttachSignals ==
    /\ startup = "starting" /\ toStart = {}
    /\ startup' = "waiting"
    /\ attached' = TRUE
    /\ UNCHANGED <<chosen, toStart, inline, starts, service, pools, connVars, subs, feed,
                   jobVars, stopper, forwarding, overlapped, timedOut>>

(* Every start function has resolved: fuse the pipeline if it is all here. *)
Fuse ==
    /\ startup = "waiting"
    /\ \A s \in chosen : service[s] \notin {"open", "subscribing"}
    /\ startup' = "done"
    /\ inline' = (Pipeline \subseteq chosen)
    /\ UNCHANGED <<chosen, toStart, attached, starts, service, pools, connVars, subs, feed,
                   jobVars, stopper, forwarding, overlapped, timedOut>>

-----------------------------------------------------------------------------
(* Messages.                                                               *)

TakeJob(s) ==
    /\ s # "api" /\ service[s] = "running"
    /\ inFlight = NoJob /\ takenJobs < MaxJobs
    /\ inFlight' = [owner |-> s, stage |-> s]
    /\ takenJobs' = takenJobs + 1
    /\ UNCHANGED <<chosen, bootVars, service, pools, connVars, subs, feed, stopper, forwarding,
                   overlapped, timedOut, reclaiming, behindDrain, cut>>

(* recover() claims a message while the slots are taken.  Once it waits for *)
(* one it looks at `stopping` no more.                                      *)
ClaimAhead(s) ==
    /\ service[s] = "running" /\ inFlight.owner = s
    /\ reclaiming = "none" /\ takenJobs < MaxJobs
    /\ reclaiming' = s
    /\ takenJobs' = takenJobs + 1
    /\ UNCHANGED <<chosen, bootVars, service, pools, connVars, subs, feed, stopper, forwarding,
                   overlapped, timedOut, inFlight, behindDrain, cut>>

(* The slot is free, for the recovery if it waits.  The run loop waits for  *)
(* the tasks it saw when it ended, and for no later one.                    *)
SlotFreed ==
    /\ reclaiming' = "none"
    /\ IF reclaiming = "none"
         THEN inFlight' = NoJob
         ELSE \E owner \in {reclaiming, "recovery"} :
                /\ CASE service[reclaiming] = "running" -> owner = reclaiming
                     [] service[reclaiming] = "stopped" -> owner = "recovery"
                     [] OTHER -> TRUE
                /\ inFlight' = [owner |-> owner, stage |-> reclaiming]
    /\ behindDrain' = (behindDrain \/ inFlight'.owner = "recovery")

HandsOn == inline /\ inFlight.stage \in DOMAIN Downstream

(* processInline of the next stage, inside the slot of the first one. *)
HandDown ==
    /\ inFlight # NoJob /\ Usable(inFlight.stage) /\ HandsOn
    /\ inFlight' = [inFlight EXCEPT !.stage = Downstream[@]]
    /\ UNCHANGED <<chosen, bootVars, service, pools, connVars, subs, feed, takenJobs, reclaiming,
                   behindDrain, cut, stopper, forwarding, overlapped, timedOut>>

(* The stage is through with it: sent, or published for the next stage. *)
EndJob ==
    /\ inFlight # NoJob /\ Usable(inFlight.stage) /\ ~HandsOn
    /\ SlotFreed
    /\ UNCHANGED <<chosen, bootVars, service, pools, connVars, subs, feed, takenJobs, cut, stopper,
                   forwarding, overlapped, timedOut>>

CutJob ==
    /\ inFlight # NoJob /\ ~Usable(inFlight.stage)
    /\ SlotFreed /\ cut' = TRUE
    /\ UNCHANGED <<chosen, bootVars, service, pools, connVars, subs, feed, takenJobs, stopper,
                   forwarding, overlapped, timedOut>>

(* A client of the API opens a live event stream, or drops it. *)
ToggleFeed ==
    /\ feed \/ service["api"] = "running"
    /\ feed' = ~feed
    /\ UNCHANGED <<chosen, bootVars, service, pools, connVars, subs, jobVars, stopper,
                   forwarding, overlapped, timedOut>>

-----------------------------------------------------------------------------
(* stop()                                                                  *)

Stop(p) ==
    /\ stopper[p].phase = "idle"
    /\ IF p = "signal" THEN attached ELSE startup # "new"
    /\ attached' = FALSE
    /\ forwarding' = FALSE
    /\ stopper' = [stopper EXCEPT ![p] = [left |-> chosen, phase |-> "turn"]]
    /\ overlapped' = (overlapped \/ Starting \/ ~AllStopped)
    /\ UNCHANGED <<chosen, startup, toStart, inline, starts, service, pools, connVars, subs,
                   feed, jobVars, timedOut>>

(* The stop of p is in a phase, at the service s. *)
StopsAt(p, phase, s) == stopper[p].phase = phase /\ IsNext(s, stopper[p].left, StopTurn)
Phase(p, ph) == stopper' = [stopper EXCEPT ![p].phase = ph]

(* shutdownWorker: timers and subscriber, then worker.stop(), which waits  *)
(* only when the worker is running and nobody is stopping it already.      *)
ShutdownWorker(p, s) ==
    /\ StopsAt(p, "turn", s) /\ s # "api"
    /\ subs' = subs \ {s}
    /\ IF service[s] = "running"
         THEN service' = [service EXCEPT ![s] = "draining"] /\ Phase(p, "drain")
         ELSE UNCHANGED service /\ Phase(p, "close")
    /\ UNCHANGED <<chosen, bootVars, pools, connVars, feed, jobVars, forwarding, overlapped,
                   timedOut>>

(* The run loop ends once the tasks in its slots have settled. *)
Drained(p, s) ==
    /\ StopsAt(p, "drain", s) /\ s # "api"
    /\ inFlight.owner # s
    /\ service' = [service EXCEPT ![s] = "stopped"]
    /\ Phase(p, "close")
    /\ UNCHANGED <<chosen, bootVars, pools, connVars, subs, feed, jobVars, forwarding,
                   overlapped, timedOut>>

DrainTimesOut(p, s) ==
    /\ StopsAt(p, "drain", s) /\ s # "api"
    /\ inFlight.owner = s
    /\ timedOut' = TRUE
    /\ Phase(p, "close")
    /\ UNCHANGED <<chosen, bootVars, service, pools, connVars, subs, feed, jobVars, forwarding,
                   overlapped>>

(* stopApiServer: server.close() waits for open requests, live streams among *)
(* them.  It rejects on a server that is not listening, and stop() with it.  *)
CloseApiServer(p) ==
    /\ StopsAt(p, "turn", "api")
    /\ CASE service["api"] = "running" ->
              service' = [service EXCEPT !["api"] = "draining"] /\ Phase(p, "drain")
         [] service["api"] = "draining" -> UNCHANGED service /\ Phase(p, "reject")
         [] service["api"] = "subscribing" -> UNCHANGED service /\ Phase(p, "failed")
         [] OTHER -> UNCHANGED service /\ Phase(p, "close")
    /\ UNCHANGED <<chosen, bootVars, pools, connVars, subs, feed, jobVars, forwarding,
                   overlapped, timedOut>>

ApiServerClosed ==
    /\ \E p \in Stoppers :
         /\ StopsAt(p, "drain", "api")
         /\ ~feed
         /\ stopper' = [q \in Stoppers |->
                          CASE q = p -> [stopper[q] EXCEPT !.phase = "close"]
                            [] stopper[q].phase = "reject" -> [stopper[q] EXCEPT !.phase = "failed"]
                            [] OTHER -> stopper[q]]
    /\ service' = [service EXCEPT !["api"] = "stopped"]
    /\ subs' = subs \ {"api"}
    /\ UNCHANGED <<chosen, bootVars, pools, connVars, feed, jobVars, forwarding, overlapped,
                   timedOut>>

(* The connections of the service close: sql.end(), then redis.disconnect(). *)
CloseConnections(p, s) ==
    /\ StopsAt(p, "close", s)
    /\ pools' = pools \ {s}
    /\ Disconnect(s)
    /\ stopper' = [stopper EXCEPT ![p] = [left |-> @.left \ {s}, phase |-> "turn"]]
    /\ UNCHANGED <<chosen, bootVars, service, subs, feed, jobVars, forwarding, overlapped,
                   timedOut>>

StopReturns(p) ==
    /\ stopper[p].phase = "turn" /\ stopper[p].left = {}
    /\ Phase(p, "done")
    /\ UNCHANGED <<chosen, bootVars, service, pools, connVars, subs, feed, jobVars, forwarding,
                   overlapped, timedOut>>

-----------------------------------------------------------------------------
Boot ==
    \/ StartMigrates \/ Migrated \/ MigrationFails \/ AttachSignals \/ Fuse
    \/ StartApi \/ CreateApiServer \/ StartDelivery \/ StartEngine \/ StartEnricher
    \/ StartScheduler \/ StartAi \/ StartWorkflow \/ StartEvents
    \/ \E s \in Services : Subscribed(s) \/ WorkerSubscribeFails(s)

Halt ==
    \/ ApiServerClosed
    \/ \E p \in Stoppers :
         \/ Stop(p) \/ CloseApiServer(p) \/ StopReturns(p)
         \/ \E s \in Services :
              \/ ShutdownWorker(p, s) \/ Drained(p, s) \/ DrainTimesOut(p, s)
              \/ CloseConnections(p, s)

LifecycleNext ==
    /\ ~Exited
    /\ \/ Boot
       \/ Halt
       \/ HandDown \/ EndJob \/ CutJob \/ ToggleFeed
       \/ \E s \in Services : TakeJob(s) \/ ClaimAhead(s)

LifecycleSpec == LifecycleInit /\ [][LifecycleNext]_lifecycleVars

-----------------------------------------------------------------------------
LifecycleTypeOK ==
    /\ chosen \subseteq Services
    /\ startup \in {"new", "migrating", "starting", "waiting", "done", "failed"}
    /\ service \in [Services -> {"down", "open", "subscribing", "running", "draining", "stopped"}]
    /\ pools \subseteq Services \cup {"migrations"}
    /\ \A i \in DOMAIN clients : clients[i].refs \in Nat
    /\ sharedEntry \in 0..Len(clients)
    /\ heldOn \in [Services -> 0..Len(clients)]
    /\ subs \subseteq Services /\ released \subseteq Services
    /\ inFlight.owner \in Services \cup {"none", "recovery"}
    /\ reclaiming \in Services \cup {"none"}

(***************************************************************************)
(* No message loses the connections of the stage that is working on it,    *)
(* fused or not: upstream stops first, and each worker drains before its   *)
(* connections close (src/src/server.ts:276-280, bootstrap.ts:100-103).    *)
(* Four things break it and are recorded: a drain that outlasts 30 s, a    *)
(* second stop() beside the first, which finds the worker "stopping" and   *)
(* goes straight on to close what the first is waiting for, a stop()       *)
(* beside a start(), and a recovered message that had waited for a slot    *)
(* and starts behind the drain (src/src/workers/index.ts:118, 166).        *)
(***************************************************************************)
NoneCutShort == cut => timedOut \/ overlapped \/ behindDrain

(***************************************************************************)
(* A service that has not given its handle back finds the shared Redis     *)
(* connection open, however many stops overlap                             *)
(* (src/src/redis/index.ts:227-248).                                       *)
(***************************************************************************)
RedisStaysOpen ==
    \A s \in Services : heldOn[s] # 0 /\ s \notin released => clients[heldOn[s]].open

(***************************************************************************)
(* When stop() returns and nothing ran beside it, no pool, subscriber or   *)
(* handle of a service is left open (src/src/workers/bootstrap.ts:104-124).*)
(***************************************************************************)
StopLeavesNothing ==
    (\E p \in Stoppers : stopper[p].phase = "done") /\ ~overlapped
        => /\ pools \subseteq {"migrations"}
           /\ subs = {}
           /\ \A i \in DOMAIN clients : ~clients[i].open

\* Stopping cuts no message short, closes nothing in use and leaves nothing open.
StopsCleanly == NoneCutShort /\ RedisStaysOpen /\ StopLeavesNothing
=============================================================================
