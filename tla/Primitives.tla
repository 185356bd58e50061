----------------------------- MODULE Primitives -----------------------------
(***************************************************************************)
(* The primitives of shared/ that the services build on, side by side: the *)
(* circuit breaker, the batch processor and the enricher's loaders. They   *)
(* share nothing.                                                          *)
(***************************************************************************)
EXTENDS Breaker, Batch, Loader

PrimitivesSpec == BreakerSpec /\ BatchSpec /\ LoaderSpec

\* Each lets go of what it holds and of nothing else (circuit-breaker.ts,
\* batch-processor.ts, enricher/main.ts).
PrimitivesHold == ProviderIsSpared /\ [](BatchesSettle /\ LoadsSettle)
=============================================================================
