------------------------------- MODULE Intake -------------------------------
(***************************************************************************)
(* What the API puts on the pipeline's streams: the events of a request    *)
(* (Notify) and the dead letters an operator sends back (DeadLetters). The *)
(* two share nothing but the streams they write to.                        *)
(***************************************************************************)
EXTENDS Notify, DeadLetters

IntakeSpec == NotifySpec /\ DeadLettersSpec

\* What enters twice counts once: a repeated POST /v1/notify (notifications.ts)
\* and a dead letter put back (system.ts).
EnteredOnce == RequestsCountOnce /\ LettersCountOnce
=============================================================================
