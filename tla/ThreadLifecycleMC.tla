------------------------- MODULE ThreadLifecycleMC -------------------------
(* Instances of ThreadLifecycle for TLC.                                    *)
EXTENDS ThreadLifecycle, TLC

CONSTANTS w1, w2, w3

TwoWorkers == {w1, w2}
ThreeWorkers == {w1, w2, w3}

\* Workers are interchangeable: no definition tells one from another.
WorkerSymmetry == Permutations(Workers)

=============================================================================
