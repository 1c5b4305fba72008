---------------------------- MODULE OnceGuardMC ----------------------------
(* Instances of OnceGuard for TLC.                                          *)
EXTENDS OnceGuard

CONSTANTS main, a, b

ThreeThreads == {main, a, b}

\* Objects 1 and 3 are statics, 2 is a flag.  Two threads meet at each of them;
\* thread b, which initialisers of 1 join, does not want 1.
PairsMeet == [t \in ThreeThreads |->
                 IF t = main THEN {1, 2} ELSE IF t = a THEN {1, 3} ELSE {2, 3}]

JoinB == [o \in {1, 2, 3} |-> IF o = 1 THEN {b} ELSE {}]

=============================================================================
