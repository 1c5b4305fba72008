---------------------------- MODULE OnceContract ----------------------------
(***************************************************************************)
(* What std::call_once and function-local statics promise: an object is    *)
(* initialised by one thread at a time, again only after that attempt      *)
(* threw, and never again once an attempt has succeeded.                   *)
(***************************************************************************)
CONSTANTS Threads, Objects, None

VARIABLES runner, done
vars == <<runner, done>>

Init ==
    /\ runner = [o \in Objects |-> None]
    /\ done = {}

Start(t, o) ==
    /\ o \notin done /\ runner[o] = None
    /\ runner' = [runner EXCEPT ![o] = t]
    /\ UNCHANGED done

Throw(o) ==
    /\ runner[o] # None
    /\ runner' = [runner EXCEPT ![o] = None]
    /\ UNCHANGED done

Succeed(o) ==
    /\ runner[o] # None
    /\ runner' = [runner EXCEPT ![o] = None]
    /\ done' = done \union {o}

Next == \E o \in Objects : Throw(o) \/ Succeed(o) \/ \E t \in Threads : Start(t, o)

Spec == Init /\ [][Next]_vars

=============================================================================
