------------------------- MODULE ConditionContract -------------------------
(***************************************************************************)
(* What a condition variable promises: a wait releases the mutex and       *)
(* blocks in one step, a notification wakes one blocked thread if there is *)
(* one, a broadcast wakes all threads blocked at one moment, and a wait    *)
(* returns, owning the mutex, only after a notification or a timeout.      *)
(***************************************************************************)
CONSTANTS Consumers, Producers, None, TimedWaits

VARIABLES
    phase,   \* consumer: out of a wait, blocked, notified or timedout;
             \* producer: out, or about to notify one or all
    mutex    \* owner of the mutex

vars == <<phase, mutex>>
Threads == Consumers \union Producers
Blocked == {t \in Consumers : phase[t] = "blocked"}

Init ==
    /\ phase = [t \in Threads |-> "out"]
    /\ mutex = None

Acquire(t) ==
    /\ phase[t] = "out" /\ mutex = None
    /\ mutex' = t
    /\ UNCHANGED phase

Release(t) ==
    /\ mutex = t
    /\ mutex' = None
    /\ UNCHANGED phase

\* A consumer blocks in the same step in which it releases the mutex.
Wait(t) ==
    /\ mutex = t
    /\ mutex' = None
    /\ phase' = [phase EXCEPT ![t] = "blocked"]

TimeOut(t) ==
    /\ TimedWaits
    /\ phase[t] = "blocked"
    /\ phase' = [phase EXCEPT ![t] = "timedout"]
    /\ UNCHANGED mutex

Return(t) ==
    /\ phase[t] \in {"notified", "timedout"} /\ mutex = None
    /\ mutex' = t
    /\ phase' = [phase EXCEPT ![t] = "out"]

\* A producer releases the mutex and will notify.
Announce(t) ==
    /\ mutex = t
    /\ mutex' = None
    /\ \E n \in {"one", "all"} : phase' = [phase EXCEPT ![t] = n]

NotifyOne(t) ==
    /\ phase[t] = "one"
    /\ IF Blocked = {}
       THEN phase' = [phase EXCEPT ![t] = "out"]
       ELSE \E w \in Blocked : phase' = [phase EXCEPT ![t] = "out", ![w] = "notified"]
    /\ UNCHANGED mutex

NotifyAll(t) ==
    /\ phase[t] = "all"
    /\ phase' = [u \in Threads |-> IF u = t THEN "out"
                                   ELSE IF u \in Blocked THEN "notified" ELSE phase[u]]
    /\ UNCHANGED mutex

Next ==
    \/ \E t \in Consumers : Acquire(t) \/ Release(t) \/ Wait(t) \/ TimeOut(t) \/ Return(t)
    \/ \E t \in Producers : Acquire(t) \/ Announce(t) \/ NotifyOne(t) \/ NotifyAll(t)

Safety == Init /\ [][Next]_vars

\* Notifications take effect, and who is notified or timed out returns.
Spec ==
    /\ Safety
    /\ \A t \in Producers : WF_vars(NotifyOne(t) \/ NotifyAll(t))
    /\ \A t \in Consumers : SF_vars(Return(t))

=============================================================================
