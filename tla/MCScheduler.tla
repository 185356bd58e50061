---------------------------- MODULE MCScheduler ----------------------------
(* Instances of Scheduler for TLC.                                         *)
EXTENDS Scheduler, TLC

CONSTANTS t1, t2, p1, p2

\* Scheduler processes are interchangeable.
Symmetry == Permutations(Procs)
=============================================================================
