------------------------------- MODULE Loader -------------------------------
(***************************************************************************)
(* Lookups that are collected for a few milliseconds and sent as one query *)
(* per project: DataLoader (shared/dataloader.ts) and the enricher's user  *)
(* and contact batches (services/enricher/main.ts). They differ in what a  *)
(* failed query does to the rest of its batch, which `kind` says.          *)
(***************************************************************************)
EXTENDS Naturals, FiniteSets

CONSTANTS
    Loads,      \* calls of load, loadUser, loadContacts
    Projects,
    ProjectOf,     \* [Loads -> Projects]
    MaxBatch       \* maxBatchSize, Math.min(concurrency, 50)

ASSUME LoaderAssumption ==
    /\ ProjectOf \in [Loads -> Projects]
    /\ MaxBatch \in Nat \ {0}

VARIABLES
    kind,          \* "user", "contacts" or "data": which loader this is
    request,       \* new, waiting, loading, resolved or rejected
    armed,         \* a timer (or microtask) will flush
    running,       \* batches on the way: their requests, the projects still to be queried
    refused        \* history: projects one of whose queries failed

loaderVars == <<kind, request, armed, running, refused>>

Waiting(rq) == {r \in Loads : rq[r] = "waiting"}

LoaderTypeOK ==
    /\ kind \in {"user", "contacts", "data"}
    /\ request \in [Loads -> {"new", "waiting", "loading", "resolved", "rejected"}]
    /\ armed \in BOOLEAN
    /\ running \subseteq [requests : SUBSET Loads, left : SUBSET Projects]
    /\ refused \subseteq Projects

LoaderInit ==
    /\ kind \in {"user", "contacts", "data"}
    /\ request = [r \in Loads |-> "new"]
    /\ armed = FALSE
    /\ running = {}
    /\ refused = {}

\* The batch leaves the buffer and the timer goes with it: the synchronous part
\* of dispatch, flushUserBatch and flushContactBatch.
Dispatch(rq) ==
    /\ armed' = FALSE
    /\ request' = [r \in Loads |-> IF rq[r] = "waiting" THEN "loading" ELSE rq[r]]
    /\ running' = running \cup IF Waiting(rq) = {} THEN {}
                            ELSE {[requests |-> Waiting(rq),
                                   left |-> {ProjectOf[r] : r \in Waiting(rq)}]}

Load(r) ==
    /\ request[r] = "new"
    /\ LET rq == [request EXCEPT ![r] = "waiting"] IN
       IF Cardinality(Waiting(rq)) >= MaxBatch
       THEN Dispatch(rq)
       ELSE /\ request' = rq
            /\ armed' = TRUE
            /\ UNCHANGED running
    /\ UNCHANGED <<kind, refused>>

LoadTimer ==
    /\ armed
    /\ Dispatch(request)
    /\ UNCHANGED <<kind, refused>>

Tell(rs, result) == [r \in Loads |-> IF r \in rs /\ request[r] = "loading"
                                         THEN result ELSE request[r]]
Of(b, p)         == {r \in b.requests : ProjectOf[r] = p}
Without(b, p)    == (running \ {b}) \cup
                    IF b.left = {p} THEN {} ELSE {[b EXCEPT !.left = @ \ {p}]}

\* The query of one project answers. The enricher's loaders tell its requests at
\* once; a DataLoader tells everyone when the last project has answered.
QueryAnswers(b, p) ==
    /\ b \in running
    /\ p \in b.left
    /\ running' = Without(b, p)
    /\ request' = IF kind # "data" THEN Tell(Of(b, p), "resolved")
                  ELSE IF b.left = {p} THEN Tell(b.requests, "resolved")
                  ELSE request
    /\ UNCHANGED <<kind, armed, refused>>

\* flushUserBatch catches per project and goes on; the others reject every
\* request of the batch that has no answer yet.
QueryFails(b, p) ==
    /\ b \in running
    /\ p \in b.left
    /\ refused' = refused \cup {p}
    /\ running' = IF kind = "user" THEN Without(b, p) ELSE running \ {b}
    /\ request' = Tell(IF kind = "user" THEN Of(b, p) ELSE b.requests, "rejected")
    /\ UNCHANGED <<kind, armed>>

LoaderNext ==
    \/ \E r \in Loads : Load(r)
    \/ LoadTimer
    \/ \E b \in running, p \in Projects : QueryAnswers(b, p) \/ QueryFails(b, p)

LoaderSpec == LoaderInit /\ [][LoaderNext]_loaderVars

(***************************************************************************)
(* Properties                                                              *)
(***************************************************************************)

\* Nothing is forgotten on the way: who waits has a timer, who is loading is in
\* a batch that still runs (load, dispatch and the two flushes clear the buffer
\* and the timer before they await). A forgotten request is a message held, with
\* its permit, for good.
NoneForgotten ==
    /\ Waiting(request) # {} => armed
    /\ \A r \in Loads : request[r] = "loading" => \E b \in running : r \in b.requests

\* In the user batch a failed query is the problem of its own project only
\* (flushUserBatch, enricher/main.ts:216-228).
Isolated ==
    kind = "user" => \A r \in Loads : request[r] = "rejected" => ProjectOf[r] \in refused

\* Every load is answered, by the outcome of its own project.
LoadsSettle == NoneForgotten /\ Isolated
=============================================================================
