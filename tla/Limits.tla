------------------------------- MODULE Limits -------------------------------
(***************************************************************************)
(* The two limits: the requests of a project in a window (Tokens) and the  *)
(* messages to a user (UserWindow). They share no state.                   *)
(***************************************************************************)
EXTENDS Tokens, UserWindow

LimitsSpec == TokensSpec /\ UserWindowSpec

\* Neither limit is overrun, and a request is refused only when its window was
\* given out (api-rate-limiter.ts, user-throttle.ts).
LimitsHold == NoOverrun /\ RefusedWhenSpent /\ WindowKept
=============================================================================
