----------------------------- MODULE MCWorkflow -----------------------------
(* Instances of Workflow for TLC.                                          *)
EXTENDS Workflow, TLC

CONSTANTS r1, r2, p1, p2, e1, e2

\* notify, waitForEvent, wait, notify, run.
TimedProgram == <<"act", "event", "wait", "act", "act">>

\* Two waits that share one timer member.
NapsProgram == <<"wait", "wait">>

\* waitForEvent, notify.
EventProgram == <<"event", "act">>

\* Two waits for the same event name, notify.
EventsProgram == <<"event", "event", "act">>

\* Runs, polls and events are interchangeable.
Symmetry == Permutations(Runs) \union Permutations(Pollers) \union Permutations(Events)
=============================================================================
