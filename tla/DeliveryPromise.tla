--------------------------- MODULE DeliveryPromise ---------------------------
(***************************************************************************)
(* What delivery promises for one task, whatever its workers, retries and  *)
(* crashes do: a provider accepts it once, it gets one verdict, and it is  *)
(* passed on to the next channel once and only if nobody accepted it. The  *)
(* reasons for which the promise may be broken are part of the promise.    *)
(***************************************************************************)
EXTENDS Naturals

VARIABLES
    accepted,   \* how often a provider accepted the task
    verdicts,   \* outcomes published: delivered, failed
    passedOn,   \* how often it was handed to the next channel
    unsure      \* why more may happen than should

promiseVars == <<accepted, verdicts, passedOn, unsure>>

\* An acceptance, a verdict or a split of the task in two that was not recorded,
\* and a task dropped without a look at the record.
Reasons == {"sent", "verdict", "split", "unchecked"}

PromiseInit ==
    /\ accepted = 0
    /\ verdicts = {}
    /\ passedOn = 0
    /\ unsure = {}

\* The provider accepts; a late acceptance is one the worker gave up on.
Accept ==
    /\ accepted = 0 \/ "sent" \in unsure
    /\ verdicts = {} \/ unsure # {}
    /\ accepted' = accepted + 1
    /\ unsure' \in {unsure, unsure \cup {"sent"}}
    /\ UNCHANGED <<verdicts, passedOn>>

Judge(v) ==
    /\ unsure' \in {unsure, unsure \cup {"unchecked"}}
    /\ verdicts \subseteq {v} \/ unsure' # {}
    /\ v = "delivered" => accepted > 0
    /\ v = "failed" => accepted = 0 \/ unsure' # {}
    /\ verdicts' = verdicts \cup {v}
    /\ UNCHANGED <<accepted, passedOn>>

PassOn ==
    /\ unsure' \in {unsure, unsure \cup {"unchecked"}}
    /\ (accepted = 0 /\ passedOn = 0) \/ unsure' # {}
    /\ passedOn' = passedOn + 1
    /\ UNCHANGED <<accepted, verdicts>>

Lapse ==
    /\ \E rs \in SUBSET Reasons : unsure' = unsure \cup rs
    /\ UNCHANGED <<accepted, verdicts, passedOn>>

PromiseNext == Accept \/ (\E v \in {"delivered", "failed"} : Judge(v)) \/ PassOn \/ Lapse

PromiseSpec == PromiseInit /\ [][PromiseNext]_promiseVars

\* What follows for a task accepted twice: it was accepted without its mark being
\* set, by a provider that answered too late, or by a worker that died or could
\* not write the mark (delivery/main.ts, process).
AcceptedOnce == accepted > 1 => "sent" \in unsure
=============================================================================
