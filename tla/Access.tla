------------------------------- MODULE Access -------------------------------
(***************************************************************************)
(* Who is let in: to the API with a key or a session (ApiGate), and to the *)
(* dashboard in the tabs of a browser (AdminTabs). They share no state of  *)
(* these models; a session of AdminTabs is a credential of ApiGate.        *)
(***************************************************************************)
EXTENDS ApiGate, AdminTabs

AccessSpec == ApiGateSpec /\ AdminTabsSpec

\* Who is let in to the API (api/main.ts) and to the dashboard (useAuth.tsx), and
\* how they are kept out again.
AccessHolds == GateHolds /\ SessionsHold
=============================================================================
