---------------------------- MODULE ThreadKeysMC ----------------------------
(* Instances of ThreadKeys for TLC.                                         *)
EXTENDS ThreadKeys, TLC

CONSTANTS t1, t2

TwoThreads == {t1, t2}

Symmetry == Permutations(Threads)

=============================================================================
