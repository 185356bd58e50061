----------------------------- MODULE MCServices -----------------------------
(* The services and libraries around the worker, the workflows and the     *)
(* scheduler, one instance of each for TLC. They share no variable, so a   *)
(* behaviour follows one of them, its part, and leaves the others at rest: *)
(* the states of a run are the sum of theirs and not the product.          *)
EXTENDS Primitives, Limits, Caches, LiveStream, Delivery, Fanout,
        Users, AiWorker, Intake, Pages, OptOut, QuietHours, Access, Operations,
        Providers, TLC

CONSTANTS c1, c2, c3, d1, d2, d3, d4, e1, e2, h1, h2, k1, k2, l1, l2, m1, m2, o1, o2,
          r1, r2, u1, u2, u3, w1, w2, x1, x2, email, topics

VARIABLE part

Parts == {"breaker", "batch", "loader", "tokens", "userWindow", "caches", "liveStream",
          "delivery", "fanout", "users", "ai", "deadLetters", "notify", "pages", "optOut",
          "quietHours", "apiGate", "adminTabs", "lifecycle", "providers", "migrations"}

servicesVars == <<part, breakerVars, batchVars, loaderVars, tokensVars, userWindowVars,
                  cachesVars, liveStreamVars, deliveryVars, fanoutVars, usersVars, aiVars,
                  deadVars, notifyVars, pagesVars, optOutVars, quietVars, gateVars, tabVars,
                  lifecycleVars, providersVars, migrationsVars>>

(* The values of the constants that a configuration cannot write.           *)
LoadsProject  == [i \in 1..3 |-> IF i = 2 THEN 2 ELSE 1]
AskedAt       == <<1, 1, 2>>
ChunkOfEach   == <<1, 2>>
FailedOnEach  == (x1 :> "outbound") @@ (x2 :> "unknown")
InboundOfEach == [x \in {x1, x2} |-> "inbound"]
TargetLists   == {<<"a", "b", "c">>, <<"b", "d">>}
Complained    == <<"complained">>
SomeZones     == {-2, 1}
SomeShifts    == {-2, 0, 2}
StepsBelow    == [i \in 1..3 |-> IF i = 2 THEN {1} ELSE {}]
SomeServices  == {{"enricher", "engine", "delivery"}, {"api", "ai"},
                  {"scheduler", "workflow", "events"}}
SomeTexts     == {<<>>, <<"a", "b", "c">>, <<"a", "high", "low", "b">>,
                  <<"a", "b", "high", "low">>}

\* A part that is not followed starts from one of its initial states only.
Follows(p, rest) == part = p \/ rest

ServicesInit ==
    /\ part \in Parts
    /\ Follows("quietHours", windows = <<>> /\ zone = 1 /\ shift = 0 /\ sendAt = 11) /\ QuietInit
    /\ Follows("pages", listing = "log" /\ rows = [k \in Keys |-> 0]) /\ PagesInit
    /\ Follows("providers", /\ transport = "fcm" /\ person = "gone" /\ text = <<>>
                            /\ sound = TRUE /\ addressed = TRUE)
    /\ ProvidersInit
    /\ Follows("delivery", task = [providers |-> 1, isPush |-> FALSE, chain |-> FALSE])
    /\ DeliveryInit
    /\ Follows("migrations", journalOption = [s \in Schemas |-> "default"]) /\ MigrationsInit
    /\ Follows("caches", cacheKind = "auth") /\ CachesInit
    /\ Follows("loader", kind = "data") /\ LoaderInit
    /\ Follows("lifecycle", chosen = {"api", "ai"}) /\ LifecycleInit
    /\ Follows("tokens", limit = 2) /\ TokensInit
    /\ Follows("fanout", oversized = FALSE) /\ FanoutInit
    /\ Follows("notify", ownKey = TRUE) /\ NotifyInit
    /\ Follows("users", exists = TRUE) /\ UsersInit
    /\ BreakerInit /\ BatchInit /\ UserWindowInit /\ LiveStreamInit /\ AiInit
    /\ DeadLettersInit /\ OptOutInit /\ ApiGateInit /\ AdminTabsInit

ServicesNext ==
    /\ UNCHANGED part
    /\ IF part = "breaker"     THEN BreakerNext     ELSE UNCHANGED breakerVars
    /\ IF part = "batch"       THEN BatchNext       ELSE UNCHANGED batchVars
    /\ IF part = "loader"      THEN LoaderNext      ELSE UNCHANGED loaderVars
    /\ IF part = "tokens"      THEN TokensNext      ELSE UNCHANGED tokensVars
    /\ IF part = "userWindow"  THEN UserWindowNext  ELSE UNCHANGED userWindowVars
    /\ IF part = "caches"      THEN CachesNext      ELSE UNCHANGED cachesVars
    /\ IF part = "liveStream"  THEN LiveStreamNext  ELSE UNCHANGED liveStreamVars
    /\ IF part = "delivery"    THEN DeliveryNext    ELSE UNCHANGED deliveryVars
    /\ IF part = "fanout"      THEN FanoutNext      ELSE UNCHANGED fanoutVars
    /\ IF part = "users"       THEN UsersNext       ELSE UNCHANGED usersVars
    /\ IF part = "ai"          THEN AiNext          ELSE UNCHANGED aiVars
    /\ IF part = "deadLetters" THEN DeadLettersNext ELSE UNCHANGED deadVars
    /\ IF part = "notify"      THEN NotifyNext      ELSE UNCHANGED notifyVars
    /\ IF part = "pages"       THEN PagesNext       ELSE UNCHANGED pagesVars
    /\ IF part = "optOut"      THEN OptOutNext      ELSE UNCHANGED optOutVars
    /\ IF part = "quietHours"  THEN QuietNext       ELSE UNCHANGED quietVars
    /\ IF part = "apiGate"     THEN ApiGateNext     ELSE UNCHANGED gateVars
    /\ IF part = "adminTabs"   THEN AdminTabsNext   ELSE UNCHANGED tabVars
    /\ IF part = "lifecycle"   THEN LifecycleNext   ELSE UNCHANGED lifecycleVars
    /\ IF part = "providers"   THEN ProvidersNext   ELSE UNCHANGED providersVars
    /\ IF part = "migrations"  THEN MigrationsNext  ELSE UNCHANGED migrationsVars

ServicesSpec == ServicesInit /\ [][ServicesNext]_servicesVars

(* Every variable of every part keeps to the values its module gives it.    *)
ServicesTypeOK ==
    /\ BreakerTypeOK /\ BatchTypeOK /\ LoaderTypeOK /\ TokensTypeOK /\ UserWindowTypeOK
    /\ CachesTypeOK /\ LiveStreamTypeOK /\ DeliveryTypeOK /\ FanoutTypeOK /\ UsersTypeOK
    /\ AiTypeOK /\ DeadLettersTypeOK /\ NotifyTypeOK /\ PagesTypeOK /\ OptOutTypeOK
    /\ QuietTypeOK /\ ApiGateTypeOK /\ AdminTabsTypeOK /\ LifecycleTypeOK /\ ProvidersTypeOK
    /\ MigrationsTypeOK
=============================================================================
