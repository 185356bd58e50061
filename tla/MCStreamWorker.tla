--------------------------- MODULE MCStreamWorker ---------------------------
(* Instances of StreamWorker for TLC.                                      *)
EXTENDS StreamWorker, TLC

CONSTANTS m1, m2, k1, w1, w2

\* Two entries that carry one idempotency key.
SharedKey == [m \in Msgs |-> k1]

\* Workers are interchangeable, and so are entries that carry the same key.
Symmetry == Permutations(Workers) \union Permutations(Msgs)
=============================================================================
