----------------------------- MODULE Condition -----------------------------
(***************************************************************************)
(* Condition variables of the C++ runtime                                  *)
(* (platform/runtime/libstdcxx/backend.cpp, condition_wait and so on).     *)
(*                                                                         *)
(* ThreadX has no condition variables.  A ConditionImplementation is a     *)
(* mutex and a list of waiters; each waiter has a semaphore on its own     *)
(* stack that a notifier posts after it has unlinked the waiter.  A timed  *)
(* waiter whose semaphore times out takes the condition's mutex to leave   *)
(* the list, unless a notifier has unlinked it before.                     *)
(*                                                                         *)
(* The application is the one that condition variables are made for:       *)
(* consumers wait, under a mutex, for items that producers put there.      *)
(* Creating the waiter's semaphore or the implementation may fail, which   *)
(* ends the wait with an error before anything has happened, so it is not  *)
(* an action.  std::condition_variable::wait refuses a mutex that the      *)
(* caller does not own, so unlocking it does not fail.                     *)
(***************************************************************************)
EXTENDS Integers, Sequences, FiniteSets, SequencesExt

CONSTANTS
    Consumers, Producers,
    Conditions,    \* ConditionImplementation blocks of the heap, each used once
    None,
    MaxItems,      \* bound: items that may wait to be consumed
    TimedWaits,    \* do consumers also wait with deadlines?
    EarlyDestroy   \* the kinds of waits, with a deadline (TRUE) or without, that
                   \* only have to be notified, and need not have returned, before
                   \* somebody destroys the condition

Threads == Consumers \union Producers

ASSUME ConstantsAssumption ==
    /\ Consumers \intersect Producers = {}
    /\ IsFiniteSet(Threads)
    /\ None \notin Threads \union Conditions
    /\ MaxItems \in Nat
    /\ TimedWaits \in BOOLEAN
    /\ EarlyDestroy \subseteq BOOLEAN

VARIABLES
    pc,
    impl,          \* local `condition_implementation` or `implementation`
    timed,         \* consumer: the wait has a deadline
    wait_status,   \* consumer: local of the same name
    semaphore,     \* consumer: count of waiter.semaphore, Deleted if there is none
    notified,      \* consumer: history, a notifier has unlinked the waiter
    notice,        \* producer: does it call signal or broadcast?
    waiter,        \* producer: local of the same name
    busy,          \* producer: local of condition_destroy
    implementation,   \* of the ConditionHandle: None or a condition
    memory,        \* of each condition: unused, live or freed
    mutex,         \* of each condition: the thread that owns it
    waiters,       \* of each condition: the list first ... last of linked waiters
    user_mutex,    \* the application's mutex
    items          \* guarded by it

waitVars == <<timed, wait_status, semaphore>>
notifyVars == <<notice, waiter, busy>>
handleVars == <<implementation, memory>>
appVars == <<user_mutex, items>>
vars == <<pc, impl, waitVars, notified, notifyVars, handleVars, mutex, waiters, appVars>>

Deleted == -1

WaitPCs == {"w_append", "w_unlock", "w_put", "w_get", "w_timeout", "w_resolve",
            "w_delete", "w_relock"}
NotifyPCs == {"n_call", "n_lock", "n_locked", "n_post", "n_unlock"}
DestroyPCs == {"d_lock", "d_locked", "d_delete"}
PCs == {"user", "owner"} \union WaitPCs \union NotifyPCs \union DestroyPCs

Init ==
    /\ pc = [t \in Threads |-> "user"]
    /\ impl = [t \in Threads |-> None]
    /\ timed = [t \in Consumers |-> FALSE]
    /\ wait_status = [t \in Consumers |-> "0"]
    /\ semaphore = [t \in Consumers |-> Deleted]
    /\ notified = [t \in Consumers |-> FALSE]
    /\ notice = [t \in Producers |-> "one"]
    /\ waiter = [t \in Producers |-> None]
    /\ busy = [t \in Producers |-> FALSE]
    /\ implementation = None
    /\ memory = [c \in Conditions |-> "unused"]
    /\ mutex = [c \in Conditions |-> None]
    /\ waiters = [c \in Conditions |-> <<>>]
    /\ user_mutex = None
    /\ items = 0

-----------------------------------------------------------------------------
(* Helpers.                                                                 *)

Go(t, label) == pc' = [pc EXCEPT ![t] = label]

\* tx_mutex_get and tx_mutex_put of the condition that t works on.
Acquire(t) ==
    /\ mutex[impl[t]] = None
    /\ mutex' = [mutex EXCEPT ![impl[t]] = t]
Release(t) == mutex' = [mutex EXCEPT ![impl[t]] = None]

AcquireUser(t) == user_mutex = None /\ user_mutex' = t
ReleaseUser == user_mutex' = None

\* waiter.linked
Linked(t) == \E i \in 1..Len(waiters[impl[t]]) : waiters[impl[t]][i] = t

\* append_waiter and remove_waiter
Append_waiter(t) == waiters' = [waiters EXCEPT ![impl[t]] = Append(@, t)]
Remove_waiter(t, w) ==
    \E i \in 1..Len(waiters[impl[t]]) :
        /\ waiters[impl[t]][i] = w
        /\ waiters' = [waiters EXCEPT ![impl[t]] = RemoveAt(@, i)]

\* The caller of condition_destroy makes sure that nobody else notifies or
\* destroys, then or before it is done, and that nobody starts to wait.  A
\* consumer may be suspended in a wait, which condition_destroy reports as EBUSY.
MayDestroy(t) ==
    /\ \A u \in Producers : pc[u] \notin NotifyPCs \union DestroyPCs
    /\ \A u \in Consumers :
          \/ pc[u] \in {"user", "owner"}
          \/ pc[u] = "w_get" /\ ~notified[u]
          \/ notified[u] /\ timed[u] \in EarlyDestroy
BeingDestroyed == \E u \in Producers : pc[u] \in DestroyPCs

\* A call of condition_signal, condition_broadcast or condition_destroy returns.
ProducerReturns(t) ==
    /\ pc' = [pc EXCEPT ![t] = "user"]
    /\ impl' = [impl EXCEPT ![t] = None]
    /\ notice' = [notice EXCEPT ![t] = "one"]
    /\ waiter' = [waiter EXCEPT ![t] = None]
    /\ busy' = [busy EXCEPT ![t] = FALSE]

-----------------------------------------------------------------------------
(* The application's own steps.                                             *)

Lock(t) ==
    /\ pc[t] = "user"
    /\ t \in Producers => items < MaxItems
    /\ AcquireUser(t)
    /\ Go(t, "owner")
    /\ UNCHANGED <<impl, waitVars, notified, notifyVars, handleVars, mutex, waiters, items>>

\* A consumer takes an item and unlocks the mutex.
Take(t) ==
    /\ pc[t] = "owner"
    /\ items > 0
    /\ items' = items - 1
    /\ ReleaseUser
    /\ Go(t, "user")
    /\ UNCHANGED <<impl, waitVars, notified, notifyVars, handleVars, mutex, waiters>>

\* A consumer finds nothing and does not wait (again).
GiveUp(t) ==
    /\ pc[t] = "owner"
    /\ items = 0
    /\ ReleaseUser
    /\ Go(t, "user")
    /\ UNCHANGED <<impl, waitVars, notified, notifyVars, handleVars, mutex, waiters, items>>

\* A producer puts an item, unlocks the mutex and goes on to notify.
Put(t) ==
    /\ pc[t] = "owner"
    /\ items < MaxItems
    /\ items' = items + 1
    /\ ReleaseUser
    /\ notice' \in {[notice EXCEPT ![t] = n] : n \in {"one", "all"}}
    /\ Go(t, "n_call")
    /\ UNCHANGED <<impl, waitVars, notified, waiter, busy, handleVars, mutex, waiters>>

-----------------------------------------------------------------------------
(* condition_wait and condition_timed_wait (condition_wait_common)          *)

\* Mutant: the application's mutex is released when the wait starts.
Wait_UnlockFirst(t) ==
    /\ pc[t] = "owner"
    /\ items = 0
    /\ ~BeingDestroyed
    /\ \E d \in {FALSE, TimedWaits} : timed' = [timed EXCEPT ![t] = d]
    /\ semaphore' = [semaphore EXCEPT ![t] = 0]
    /\ \E c \in Conditions :
          /\ c = implementation \/ (implementation = None /\ memory[c] = "unused")
          /\ implementation' = c
          /\ memory' = [memory EXCEPT ![c] = "live"]
          /\ impl' = [impl EXCEPT ![t] = c]
    /\ ReleaseUser
    /\ Go(t, "w_append")
    /\ UNCHANGED <<wait_status, notified, notifyVars, mutex, waiters, items>>

\* ensure_condition creates the implementation on the first wait, under
\* initialization_mutex; then the waiter is created on the stack.
Wait(t) ==
    /\ pc[t] = "owner"
    /\ items = 0
    /\ ~BeingDestroyed
    /\ \E d \in {FALSE, TimedWaits} : timed' = [timed EXCEPT ![t] = d]
    /\ semaphore' = [semaphore EXCEPT ![t] = 0]
    /\ \E c \in Conditions :
          /\ c = implementation \/ (implementation = None /\ memory[c] = "unused")
          /\ implementation' = c
          /\ memory' = [memory EXCEPT ![c] = "live"]
          /\ impl' = [impl EXCEPT ![t] = c]
    /\ Go(t, "w_append")
    /\ UNCHANGED <<wait_status, notified, notifyVars, mutex, waiters, appVars>>

WaitAppends(t) ==
    /\ pc[t] = "w_append"
    /\ Acquire(t)
    /\ Append_waiter(t)
    /\ Go(t, "w_unlock")
    /\ UNCHANGED <<impl, waitVars, notified, notifyVars, handleVars, appVars>>

WaitUnlocks(t) ==
    /\ pc[t] = "w_unlock"
    /\ ReleaseUser
    /\ Go(t, "w_put")
    /\ UNCHANGED <<impl, waitVars, notified, notifyVars, handleVars, mutex, waiters, items>>

WaitPuts(t) ==
    /\ pc[t] = "w_put"
    /\ Release(t)
    /\ Go(t, "w_get")
    /\ UNCHANGED <<impl, waitVars, notified, notifyVars, handleVars, waiters, appVars>>

\* Mutant: the waiter takes the condition's mutex after every wait.
WaitGets_Relocks(t) ==
    /\ pc[t] = "w_get"
    /\ semaphore[t] > 0
    /\ semaphore' = [semaphore EXCEPT ![t] = @ - 1]
    /\ Go(t, "w_timeout")
    /\ UNCHANGED <<impl, timed, wait_status, notified, notifyVars, handleVars, mutex,
                   waiters, appVars>>

WaitGets(t) ==
    /\ pc[t] = "w_get"
    /\ semaphore[t] > 0
    /\ semaphore' = [semaphore EXCEPT ![t] = @ - 1]
    /\ Go(t, "w_delete")
    /\ UNCHANGED <<impl, timed, wait_status, notified, notifyVars, handleVars, mutex,
                   waiters, appVars>>

\* wait_until repeats its finite waits until the deadline has passed, and then
\* asks once more without waiting.
WaitTimesOut(t) ==
    /\ pc[t] = "w_get"
    /\ timed[t]
    /\ semaphore[t] = 0
    /\ wait_status' = [wait_status EXCEPT ![t] = "ETIMEDOUT"]
    /\ Go(t, "w_timeout")
    /\ UNCHANGED <<impl, timed, semaphore, notified, notifyVars, handleVars, mutex,
                   waiters, appVars>>

TimeoutLocks(t) ==
    /\ pc[t] = "w_timeout"
    /\ Acquire(t)
    /\ Go(t, "w_resolve")
    /\ UNCHANGED <<impl, waitVars, notified, notifyVars, handleVars, waiters, appVars>>

\* Mutant: the waiter stays in the list.
TimeoutLeaves_Linked(t) ==
    /\ pc[t] = "w_resolve"
    /\ Linked(t)
    /\ Release(t)
    /\ Go(t, "w_delete")
    /\ UNCHANGED <<impl, waitVars, notified, notifyVars, handleVars, waiters, appVars>>

TimeoutLeaves(t) ==
    /\ pc[t] = "w_resolve"
    /\ Linked(t)
    /\ Remove_waiter(t, t)
    /\ Release(t)
    /\ Go(t, "w_delete")
    /\ UNCHANGED <<impl, waitVars, notified, notifyVars, handleVars, appVars>>

\* Mutant: the timeout wins over the notification.
TimeoutIsNotified_Ignored(t) ==
    /\ pc[t] = "w_resolve"
    /\ ~Linked(t)
    /\ Release(t)
    /\ Go(t, "w_delete")
    /\ UNCHANGED <<impl, waitVars, notified, notifyVars, handleVars, waiters, appVars>>

\* Somebody has notified this waiter after all: take the notification.
TimeoutIsNotified(t) ==
    /\ pc[t] = "w_resolve"
    /\ ~Linked(t)
    /\ IF semaphore[t] > 0
       THEN /\ semaphore' = [semaphore EXCEPT ![t] = @ - 1]
            /\ wait_status' = [wait_status EXCEPT ![t] = "0"]
       ELSE UNCHANGED <<semaphore, wait_status>>
    /\ Release(t)
    /\ Go(t, "w_delete")
    /\ UNCHANGED <<impl, timed, notified, notifyVars, handleVars, waiters, appVars>>

WaitDeletes(t) ==
    /\ pc[t] = "w_delete"
    /\ semaphore' = [semaphore EXCEPT ![t] = Deleted]
    /\ Go(t, "w_relock")
    /\ UNCHANGED <<impl, timed, wait_status, notified, notifyVars, handleVars, mutex,
                   waiters, appVars>>

WaitReturns(t) ==
    /\ pc[t] = "w_relock"
    /\ AcquireUser(t)
    /\ Go(t, "owner")
    /\ impl' = [impl EXCEPT ![t] = None]
    /\ timed' = [timed EXCEPT ![t] = FALSE]
    /\ wait_status' = [wait_status EXCEPT ![t] = "0"]
    /\ notified' = [notified EXCEPT ![t] = FALSE]
    /\ UNCHANGED <<semaphore, notifyVars, handleVars, mutex, waiters, items>>

-----------------------------------------------------------------------------
(* condition_signal and condition_broadcast                                 *)

\* Without an implementation nobody has waited yet.
NotifyNothing(t) ==
    /\ pc[t] = "n_call"
    /\ ~BeingDestroyed
    /\ implementation = None
    /\ ProducerReturns(t)
    /\ UNCHANGED <<waitVars, notified, handleVars, mutex, waiters, appVars>>

Notify(t) ==
    /\ pc[t] = "n_call"
    /\ ~BeingDestroyed
    /\ implementation # None
    /\ impl' = [impl EXCEPT ![t] = implementation]
    /\ Go(t, "n_lock")
    /\ UNCHANGED <<waitVars, notified, notifyVars, handleVars, mutex, waiters, appVars>>

NotifyLocks(t) ==
    /\ pc[t] = "n_lock"
    /\ Acquire(t)
    /\ Go(t, "n_locked")
    /\ UNCHANGED <<impl, waitVars, notified, notifyVars, handleVars, waiters, appVars>>

\* Mutant: the waiter is not removed from the list.
NotifyUnlinks_Linked(t) ==
    /\ pc[t] = "n_locked"
    /\ waiters[impl[t]] # <<>>
    /\ LET first == Head(waiters[impl[t]]) IN
          /\ waiter' = [waiter EXCEPT ![t] = first]
          /\ notified' = [notified EXCEPT ![first] = TRUE]
    /\ Go(t, "n_post")
    /\ UNCHANGED <<impl, waitVars, notice, busy, handleVars, mutex, waiters, appVars>>

NotifyUnlinks(t) ==
    /\ pc[t] = "n_locked"
    /\ waiters[impl[t]] # <<>>
    /\ LET first == Head(waiters[impl[t]]) IN
          /\ waiter' = [waiter EXCEPT ![t] = first]
          /\ Remove_waiter(t, first)
          /\ notified' = [notified EXCEPT ![first] = TRUE]
    /\ Go(t, "n_post")
    /\ UNCHANGED <<impl, waitVars, notice, busy, handleVars, mutex, appVars>>

\* Mutant: a broadcast stops after the first waiter.
NotifyPosts_One(t) ==
    /\ pc[t] = "n_post"
    /\ semaphore[waiter[t]] # Deleted
    /\ semaphore' = [semaphore EXCEPT ![waiter[t]] = @ + 1]
    /\ Go(t, "n_unlock")
    /\ UNCHANGED <<impl, timed, wait_status, notified, notifyVars, handleVars, mutex,
                   waiters, appVars>>

\* tx_semaphore_put; posting a deleted semaphore is a fatal error (WaitersExist).
NotifyPosts(t) ==
    /\ pc[t] = "n_post"
    /\ semaphore[waiter[t]] # Deleted
    /\ semaphore' = [semaphore EXCEPT ![waiter[t]] = @ + 1]
    /\ Go(t, IF notice[t] = "all" THEN "n_locked" ELSE "n_unlock")
    /\ UNCHANGED <<impl, timed, wait_status, notified, notifyVars, handleVars, mutex,
                   waiters, appVars>>

NotifyEnds(t) ==
    /\ pc[t] = "n_unlock" \/ (pc[t] = "n_locked" /\ waiters[impl[t]] = <<>>)
    /\ Release(t)
    /\ ProducerReturns(t)
    /\ UNCHANGED <<waitVars, notified, handleVars, waiters, appVars>>

-----------------------------------------------------------------------------
(* condition_destroy                                                        *)

Destroy(t) ==
    /\ pc[t] = "user"
    /\ MayDestroy(t)
    /\ implementation # None
    /\ impl' = [impl EXCEPT ![t] = implementation]
    /\ Go(t, "d_lock")
    /\ UNCHANGED <<waitVars, notified, notifyVars, handleVars, mutex, waiters, appVars>>

DestroyLocks(t) ==
    /\ pc[t] = "d_lock"
    /\ Acquire(t)
    /\ Go(t, "d_locked")
    /\ UNCHANGED <<impl, waitVars, notified, notifyVars, handleVars, waiters, appVars>>

DestroyLooks(t) ==
    /\ pc[t] = "d_locked"
    /\ busy' = [busy EXCEPT ![t] = waiters[impl[t]] # <<>>]
    /\ Release(t)
    /\ Go(t, "d_delete")
    /\ UNCHANGED <<impl, waitVars, notified, notice, waiter, handleVars, waiters, appVars>>

DestroyIsBusy(t) ==
    /\ pc[t] = "d_delete"
    /\ busy[t]
    /\ ProducerReturns(t)
    /\ UNCHANGED <<waitVars, notified, handleVars, mutex, waiters, appVars>>

DestroyDeletes(t) ==
    /\ pc[t] = "d_delete"
    /\ ~busy[t]
    /\ memory' = [memory EXCEPT ![impl[t]] = "freed"]
    /\ implementation' = None
    /\ ProducerReturns(t)
    /\ UNCHANGED <<waitVars, notified, mutex, waiters, appVars>>

-----------------------------------------------------------------------------

WaitSteps(t) == WaitAppends(t) \/ WaitUnlocks(t) \/ WaitPuts(t) \/ WaitGets(t)
                   \/ WaitTimesOut(t) \/ TimeoutLocks(t) \/ TimeoutLeaves(t)
                   \/ TimeoutIsNotified(t) \/ WaitDeletes(t) \/ WaitReturns(t)
NotifySteps(t) == NotifyNothing(t) \/ Notify(t) \/ NotifyLocks(t) \/ NotifyUnlinks(t)
                     \/ NotifyPosts(t) \/ NotifyEnds(t)
DestroySteps(t) == DestroyLocks(t) \/ DestroyLooks(t) \/ DestroyIsBusy(t)
                      \/ DestroyDeletes(t)

Next ==
    \/ \E t \in Threads : Lock(t)
    \/ \E t \in Consumers : Take(t) \/ GiveUp(t) \/ Wait(t) \/ WaitSteps(t)
    \/ \E t \in Producers : Put(t) \/ NotifySteps(t) \/ Destroy(t) \/ DestroySteps(t)

\* Runtime steps go on, deadlines pass, and threads that own the application's
\* mutex do something with it.  ThreadX hands a mutex over in the order in which
\* threads asked for it, so nobody who asks for one is passed over for ever.
Fairness ==
    /\ \A t \in Consumers :
          /\ WF_vars(WaitSteps(t)) /\ WF_vars(Take(t) \/ GiveUp(t) \/ Wait(t))
          /\ SF_vars(WaitAppends(t)) /\ SF_vars(TimeoutLocks(t)) /\ SF_vars(WaitReturns(t))
    /\ \A t \in Producers :
          /\ WF_vars(NotifySteps(t)) /\ WF_vars(DestroySteps(t)) /\ WF_vars(Put(t))
          /\ SF_vars(NotifyLocks(t)) /\ SF_vars(DestroyLocks(t))

Spec == Init /\ [][Next]_vars
FairSpec == Spec /\ Fairness

-----------------------------------------------------------------------------
(* Properties.                                                              *)

TypeOK ==
    /\ pc \in [Threads -> PCs]
    /\ impl \in [Threads -> Conditions \union {None}]
    /\ timed \in [Consumers -> BOOLEAN]
    /\ wait_status \in [Consumers -> {"0", "ETIMEDOUT"}]
    /\ semaphore \in [Consumers -> {Deleted, 0, 1}]
    /\ notified \in [Consumers -> BOOLEAN]
    /\ notice \in [Producers -> {"one", "all"}]
    /\ waiter \in [Producers -> Consumers \union {None}]
    /\ busy \in [Producers -> BOOLEAN]
    /\ implementation \in Conditions \union {None}
    /\ memory \in [Conditions -> {"unused", "live", "freed"}]
    /\ mutex \in [Conditions -> Threads \union {None}]
    /\ waiters \in [Conditions -> Seq(Consumers)]
    /\ user_mutex \in Threads \union {None}
    /\ items \in 0..MaxItems

\* The next step of t uses the condition that it has loaded: it locks or unlocks
\* the condition's mutex or walks its list.
UsesCondition(t) ==
    pc[t] \in {"w_append", "w_unlock", "w_put", "w_timeout", "w_resolve",
               "n_lock", "n_locked", "n_post", "n_unlock", "d_lock", "d_locked", "d_delete"}

\* raw_mutex_get and raw_mutex_put never meet a mutex that condition_destroy
\* has deleted (tx_mutex_get would fail: fatal_error).
NoDeletedMutex ==
    \A t \in Threads : UsesCondition(t) => memory[impl[t]] = "live"

\* Notifiers only reach waiters whose semaphore and stack frame exist: who is in
\* a list, or is about to be posted, is inside its wait, has a semaphore with
\* count 0, and is in no other place of the list.
WaitersExist ==
    /\ \A c \in Conditions : \A i, j \in 1..Len(waiters[c]) :
          LET w == waiters[c][i] IN
          /\ semaphore[w] = 0 /\ pc[w] \in WaitPCs /\ impl[w] = c
          /\ waiters[c][i] = waiters[c][j] => i = j
    /\ \A p \in Producers : pc[p] = "n_post" =>
          semaphore[waiter[p]] = 0 /\ pc[waiter[p]] \in WaitPCs

\* A wait ends with success if and only if a notifier chose it, also when the
\* notification and the timeout race.
StatusIsTrue ==
    \A t \in Consumers :
        pc[t] \in {"w_delete", "w_relock"} => (wait_status[t] = "0" <=> notified[t])

\* Waiters, notifiers and timeouts always agree on who is in the list, on whose
\* semaphore exists and on how each wait ends.
Consistent == TypeOK /\ NoDeletedMutex /\ WaitersExist /\ StatusIsTrue

\* Consumers that will look at the items without being notified again.
Awake == {t \in Consumers : \/ pc[t] \in {"owner", "w_delete", "w_relock"}
                            \/ pc[t] \in WaitPCs /\ notified[t]}
Notifying == {t \in Producers : pc[t] \in {"n_call", "n_lock", "n_locked", "n_post"}}
Asleep == {t \in Consumers : pc[t] = "w_get" /\ ~notified[t]}

\* While a consumer sleeps, every item has a notification on its way to
\* somebody, or a consumer on its way to the item: no wake-up is lost.
NoLostWakeup ==
    Asleep # {} => items <= Cardinality(Awake) + Cardinality(Notifying)

-----------------------------------------------------------------------------
(* Refinement.                                                              *)

\* A broadcast takes effect when it has locked the list, a signal when it
\* unlinks a waiter.
Broadcasting(c) ==
    \E p \in Producers : impl[p] = c /\ notice[p] = "all" /\ pc[p] \in {"n_locked", "n_post"}

ConsumerPhase(t) ==
    IF pc[t] \notin WaitPCs \ {"w_append", "w_unlock"} THEN "out"
    ELSE IF notified[t] THEN "notified"
    ELSE IF ~Linked(t) THEN "timedout"
    ELSE IF Broadcasting(impl[t]) THEN "notified" ELSE "blocked"

ProducerPhase(t) ==
    IF pc[t] \in {"n_call", "n_lock"} \/ (pc[t] = "n_locked" /\ notice[t] = "one")
    THEN notice[t] ELSE "out"

Contract == INSTANCE ConditionContract WITH
    phase <- [t \in Threads |-> IF t \in Consumers THEN ConsumerPhase(t)
                                                   ELSE ProducerPhase(t)],
    mutex <- user_mutex

\* The list, the mutex and the semaphores together behave like the condition
\* variable of the C++ standard (ConditionContract).
ImplementsContract == Contract!Spec

=============================================================================
