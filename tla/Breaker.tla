------------------------------ MODULE Breaker ------------------------------
(***************************************************************************)
(* The circuit breaker of a provider, shared/circuit-breaker.ts, and the   *)
(* sends of one delivery process that go through it.                       *)
(*                                                                         *)
(* execute() decides in one synchronous block whether a call may go on,    *)
(* then awaits it; any number of calls can be on the wire, and any of them *)
(* can answer long after the breaker opened.                               *)
(***************************************************************************)
EXTENDS Naturals, FiniteSets

CONSTANTS
    Calls,        \* concurrent calls of execute()
    Threshold     \* failureThreshold

ASSUME BreakerAssumption == Threshold \in Nat \ {0}

VARIABLES
    circuit,      \* state
    failures,     \* failures, never above Threshold here: more are treated alike
    ripe,         \* Date.now() > nextAttemptAt
    probeInFlight,
    call,         \* what each call is: idle, on the wire as one of many, or as the probe
    outlived      \* history: a call that is not the probe succeeded during it

breakerVars == <<circuit, failures, ripe, probeInFlight, call, outlived>>

BreakerTypeOK ==
    /\ circuit \in {"CLOSED", "OPEN", "HALF_OPEN"}
    /\ failures \in 0..Threshold
    /\ ripe \in BOOLEAN
    /\ probeInFlight \in BOOLEAN
    /\ call \in [Calls -> {"idle", "plain", "probe"}]
    /\ outlived \in BOOLEAN

BreakerInit ==
    /\ circuit = "CLOSED"
    /\ failures = 0
    /\ ripe = TRUE
    /\ probeInFlight = FALSE
    /\ call = [c \in Calls |-> "idle"]
    /\ outlived = FALSE

Probes == {c \in Calls : call[c] = "probe"}

(***************************************************************************)
(* Admission: the synchronous part of execute(). A refused call throws and *)
(* changes nothing, so it is no step.                                      *)
(***************************************************************************)
\* As AdmitPlain, but only an open breaker is looked at.
AdmitPlainHalfOpen(c) ==
    /\ call[c] = "idle"
    /\ circuit # "OPEN"
    /\ call' = [call EXCEPT ![c] = "plain"]
    /\ UNCHANGED <<circuit, failures, ripe, probeInFlight, outlived>>

AdmitPlain(c) ==
    /\ call[c] = "idle"
    /\ circuit = "CLOSED"
    /\ call' = [call EXCEPT ![c] = "plain"]
    /\ UNCHANGED <<circuit, failures, ripe, probeInFlight, outlived>>

AdmitProbe(c) ==
    /\ call[c] = "idle"
    /\ \/ circuit = "OPEN" /\ ripe
       \/ circuit = "HALF_OPEN"
    /\ ~probeInFlight
    /\ circuit' = "HALF_OPEN"
    /\ probeInFlight' = TRUE
    /\ call' = [call EXCEPT ![c] = "probe"]
    /\ outlived' = FALSE
    /\ UNCHANGED <<failures, ripe>>

(***************************************************************************)
(* The answer: onSuccess or onFailure, then the finally block.             *)
(***************************************************************************)
SettleCall(c) ==
    /\ call' = [call EXCEPT ![c] = "idle"]
    /\ probeInFlight' = (probeInFlight /\ call[c] # "probe")

Succeed(c) ==
    /\ call[c] # "idle"
    /\ failures' = 0
    /\ circuit' = "CLOSED"
    /\ SettleCall(c)
    /\ outlived' = (outlived \/ (probeInFlight /\ call[c] = "plain"))
    /\ UNCHANGED ripe

Fail(c) ==
    /\ call[c] # "idle"
    /\ LET n == IF failures < Threshold THEN failures + 1 ELSE Threshold IN
       /\ failures' = n
       /\ IF n >= Threshold
          THEN circuit' = "OPEN" /\ ripe' = FALSE
          ELSE UNCHANGED <<circuit, ripe>>
    /\ SettleCall(c)
    /\ UNCHANGED outlived

\* resetTimeoutMs has passed since the breaker last opened.
Ripen ==
    /\ ~ripe
    /\ ripe' = TRUE
    /\ UNCHANGED <<circuit, failures, probeInFlight, call, outlived>>

BreakerNext ==
    \/ \E c \in Calls : AdmitPlain(c) \/ AdmitProbe(c) \/ Succeed(c) \/ Fail(c)
    \/ Ripen

BreakerSpec == BreakerInit /\ [][BreakerNext]_breakerVars

(***************************************************************************)
(* Properties                                                              *)
(***************************************************************************)

\* The flag and the probe agree, whatever answers in between: at most one call
\* tests the provider, and no lost probe leaves the breaker refusing for good
\* (execute, the finally block).
ProbeIsAlone ==
    /\ probeInFlight <=> Probes # {}
    /\ Cardinality(Probes) <= 1

\* A breaker that is not closed still remembers its failures, so one failed
\* probe opens it again at once (onFailure, circuit-breaker.ts:61).
ReopensAtOnce == circuit # "CLOSED" => failures >= Threshold

\* While a probe is on the wire nobody else is let through, unless a call that
\* began before the breaker opened succeeded meanwhile and closed it: the one
\* crowd the comment at circuit-breaker.ts:23-25 does not exclude.
NoCrowd ==
    [][\A c \in Calls :
         (probeInFlight /\ call[c] = "idle" /\ call'[c] # "idle") => outlived]_breakerVars

\* The provider is tested by one call at a time and spared by all the others.
ProviderIsSpared == [](ProbeIsAlone /\ ReopensAtOnce) /\ NoCrowd
=============================================================================
