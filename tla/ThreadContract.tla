--------------------------- MODULE ThreadContract ---------------------------
(***************************************************************************)
(* What the thread backend promises, without saying how: a thread runs its *)
(* function and its exit callbacks once, is joined or detached at most     *)
(* once, and is reclaimed only after both; a join returns only after the   *)
(* thread has been reclaimed.                                              *)
(***************************************************************************)
CONSTANT Workers

VARIABLES
    life,    \* of each thread: absent, running, exited or reclaimed
    claim,   \* the way its owner gave it up: none, join or detach
    joined   \* threads whose join has returned

vars == <<life, claim, joined>>

TypeOK ==
    /\ life \in [Workers -> {"absent", "running", "exited", "reclaimed"}]
    /\ claim \in [Workers -> {"none", "join", "detach"}]
    /\ joined \in SUBSET Workers

Init ==
    /\ life = [w \in Workers |-> "absent"]
    /\ claim = [w \in Workers |-> "none"]
    /\ joined = {}

Create(w) ==
    /\ life[w] = "absent"
    /\ life' = [life EXCEPT ![w] = "running"]
    /\ UNCHANGED <<claim, joined>>

\* Function and exit callbacks have returned.
Exit(w) ==
    /\ life[w] = "running"
    /\ life' = [life EXCEPT ![w] = "exited"]
    /\ UNCHANGED <<claim, joined>>

\* A thread may be detached at any time, but a join has to wait for its end.
ClaimDetach(w) ==
    /\ life[w] \in {"running", "exited"}
    /\ claim[w] = "none"
    /\ claim' = [claim EXCEPT ![w] = "detach"]
    /\ UNCHANGED <<life, joined>>

ClaimJoin(w) ==
    /\ life[w] = "exited"
    /\ claim[w] = "none"
    /\ claim' = [claim EXCEPT ![w] = "join"]
    /\ UNCHANGED <<life, joined>>

Reclaim(w) ==
    /\ life[w] = "exited"
    /\ claim[w] # "none"
    /\ life' = [life EXCEPT ![w] = "reclaimed"]
    /\ UNCHANGED <<claim, joined>>

JoinReturns(w) ==
    /\ life[w] = "reclaimed"
    /\ claim[w] = "join"
    /\ joined' = joined \union {w}
    /\ UNCHANGED <<life, claim>>

Next == \E w \in Workers :
    \/ Create(w) \/ Exit(w) \/ ClaimDetach(w) \/ ClaimJoin(w)
    \/ Reclaim(w) \/ JoinReturns(w)

\* No step is taken that the contract does not know.
Safety == Init /\ [][Next]_vars

\* A claimed thread that has ended is reclaimed and its join returns; nothing
\* is promised about the thread's own function.
Spec == Safety /\ \A w \in Workers : WF_vars(Reclaim(w)) /\ WF_vars(JoinReturns(w))

=============================================================================
