------------------------------ MODULE NewlibLocks ---------------------------
(***************************************************************************)
(* The locks of Newlib: libc.c. Before the scheduler runs, nothing is      *)
(* locked and no kernel mutex can be created, but the locks of files may   *)
(* already be handed out; runtime_libc_initialize creates what is missing. *)
(* Closed locks go back to a pool with their mutexes. Of the static locks  *)
(* there is one here, malloc's, which a growing pool takes.                *)
(***************************************************************************)
EXTENDS Integers, Sequences

CONSTANTS Threads, Files

VARIABLES
    phase,          \* "startup", "initialized" or "kernel"
    libc_locks_ready,
    dynamic_locks,  \* the pool's entries
    malloc_created, \* __lock___malloc_recursive_mutex has its mutex
    pool_owner, malloc_owner,
    calls,          \* per context: what it does, with which file
    lock,           \* per file: its entry, 0 for none
    inside,         \* ghost, per file: the contexts that have acquired its lock
    halted          \* ghost: whether and why libc_lock_failure was called

vars == <<phase, libc_locks_ready, dynamic_locks, malloc_created, pool_owner, malloc_owner,
          calls, lock, inside, halted>>
setting == <<phase, libc_locks_ready, malloc_created>>

Nobody == "nobody"
StartUp == "startup"
Contexts == Threads \cup {StartUp}
Idle == [at |-> "idle", file |-> Nobody]

Init ==
    /\ phase = "startup" /\ libc_locks_ready = FALSE /\ malloc_created = FALSE
    /\ dynamic_locks = <<>>
    /\ pool_owner = Nobody /\ malloc_owner = Nobody
    /\ calls = [c \in Contexts |-> Idle]
    /\ lock = [f \in Files |-> 0]
    /\ inside = [f \in Files |-> {}]
    /\ halted = "no"

Runs(c) == halted = "no" /\ (c = StartUp) = (phase # "kernel")
At(c, where) == Runs(c) /\ calls[c].at = where
Goes(c, where) == calls' = [calls EXCEPT ![c].at = where]
Entry(c) == lock[calls[c].file]
locking_required(c) == c # StartUp
Fail(why) == halted' = why
\* Taking and giving back a mutex that exists; nothing happens before the scheduler runs.
Takes(c, owner, next) == IF locking_required(c) THEN owner = Nobody /\ next = c ELSE next = owner
Gives(c, owner, next) == next = IF locking_required(c) THEN Nobody ELSE owner

\* runtime_libc_initialize creates the static locks' mutexes and the waiting dynamic ones.
Completed_Allocated(l) == [l EXCEPT !.created = l.allocated]
Completed(l) == [l EXCEPT !.created = TRUE]
runtime_libc_initialize ==
    /\ phase = "startup" /\ calls[StartUp] = Idle /\ ~libc_locks_ready
    /\ malloc_created' = TRUE
    /\ dynamic_locks' = [i \in DOMAIN dynamic_locks |-> Completed(dynamic_locks[i])]
    /\ libc_locks_ready' = TRUE /\ phase' = "initialized"
    /\ UNCHANGED <<pool_owner, malloc_owner, calls, lock, inside, halted>>
StartScheduler ==
    /\ phase = "initialized" /\ calls[StartUp] = Idle /\ \A f \in Files : inside[f] = {}
    /\ phase' = "kernel"
    /\ UNCHANGED <<libc_locks_ready, malloc_created, dynamic_locks, pool_owner, malloc_owner, calls, lock, inside, halted>>

\* __retarget_lock_init and __retarget_lock_close, under the pool's mutex.
Open(c, f) ==
    /\ At(c, "idle") /\ lock[f] = 0 /\ \A d \in Contexts : calls[d].file # f
    /\ calls' = [calls EXCEPT ![c] = [at |-> "opens", file |-> f]]
    /\ UNCHANGED <<setting, dynamic_locks, pool_owner, malloc_owner, lock, inside, halted>>
Close(c, f) ==
    /\ At(c, "idle") /\ lock[f] # 0 /\ inside[f] = {} /\ \A d \in Contexts : calls[d].file # f
    /\ calls' = [calls EXCEPT ![c] = [at |-> "closes", file |-> f]]
    /\ UNCHANGED <<setting, dynamic_locks, pool_owner, malloc_owner, lock, inside, halted>>
lock_dynamic_pool(c) ==
    /\ At(c, "opens") \/ At(c, "closes")
    /\ Takes(c, pool_owner, pool_owner')
    /\ Goes(c, IF calls[c].at = "opens" THEN "searches" ELSE "frees")
    /\ UNCHANGED <<setting, dynamic_locks, malloc_owner, lock, inside, halted>>
Free == {i \in DOMAIN dynamic_locks : ~dynamic_locks[i].allocated}
Reuse(c) ==
    /\ At(c, "searches")
    /\ \E i \in Free :
        /\ dynamic_locks' = [dynamic_locks EXCEPT ![i].allocated = TRUE]
        /\ lock' = [lock EXCEPT ![calls[c].file] = i]
    /\ Goes(c, "unlocks")
    /\ UNCHANGED <<setting, pool_owner, malloc_owner, inside, halted>>
Grow(c) ==
    /\ At(c, "searches") /\ Free = {}
    /\ IF locking_required(c) /\ ~malloc_created
       THEN Fail("unready") /\ UNCHANGED <<malloc_owner, calls>>
       ELSE Takes(c, malloc_owner, malloc_owner') /\ Goes(c, "links") /\ UNCHANGED halted
    /\ UNCHANGED <<setting, dynamic_locks, pool_owner, lock, inside>>
Link(c) ==
    /\ At(c, "links")
    /\ Gives(c, malloc_owner, malloc_owner')
    /\ \/ /\ dynamic_locks' = Append(dynamic_locks, [created |-> libc_locks_ready, allocated |-> TRUE, owner |-> Nobody])
          /\ lock' = [lock EXCEPT ![calls[c].file] = Len(dynamic_locks) + 1]
          /\ Goes(c, "unlocks")
          /\ UNCHANGED halted
       \/ Fail("resources") /\ UNCHANGED <<dynamic_locks, lock, calls>>
    /\ UNCHANGED <<setting, pool_owner, inside>>
Return(c) ==
    /\ At(c, "frees")
    /\ dynamic_locks' = [dynamic_locks EXCEPT ![Entry(c)].allocated = FALSE]
    /\ lock' = [lock EXCEPT ![calls[c].file] = 0]
    /\ Goes(c, "unlocks")
    /\ UNCHANGED <<setting, pool_owner, malloc_owner, inside, halted>>
unlock_dynamic_pool(c) ==
    /\ At(c, "unlocks")
    /\ Gives(c, pool_owner, pool_owner')
    /\ calls' = [calls EXCEPT ![c] = Idle]
    /\ UNCHANGED <<setting, dynamic_locks, malloc_owner, lock, inside, halted>>

\* Others allocate too.
Allocate(c) ==
    /\ At(c, "idle")
    /\ Takes(c, malloc_owner, malloc_owner')
    /\ Goes(c, "allocates")
    /\ UNCHANGED <<setting, dynamic_locks, pool_owner, lock, inside, halted>>
Allocated(c) ==
    /\ At(c, "allocates")
    /\ Gives(c, malloc_owner, malloc_owner')
    /\ Goes(c, "idle")
    /\ UNCHANGED <<setting, dynamic_locks, pool_owner, lock, inside, halted>>

\* acquire_libc_lock, try_acquire_libc_lock when it succeeds, release_libc_lock.
Acquire(c, f) ==
    /\ At(c, "idle") /\ lock[f] # 0 /\ \A d \in Contexts : calls[d].file # f
    /\ IF locking_required(c) /\ ~dynamic_locks[lock[f]].created
       THEN Fail("unready") /\ UNCHANGED <<dynamic_locks, inside>>
       ELSE /\ locking_required(c) => dynamic_locks[lock[f]].owner = Nobody
            /\ dynamic_locks' = [dynamic_locks EXCEPT ![lock[f]].owner = IF locking_required(c) THEN c ELSE @]
            /\ inside' = [inside EXCEPT ![f] = @ \cup {c}]
            /\ UNCHANGED halted
    /\ UNCHANGED <<setting, pool_owner, malloc_owner, calls, lock>>
Release(c, f) ==
    /\ At(c, "idle") /\ c \in inside[f]
    /\ IF locking_required(c) /\ dynamic_locks[lock[f]].owner # c
       THEN Fail("foreign") /\ UNCHANGED <<dynamic_locks, inside>>
       ELSE /\ dynamic_locks' = [dynamic_locks EXCEPT ![lock[f]].owner = Nobody]
            /\ inside' = [inside EXCEPT ![f] = @ \ {c}]
            /\ UNCHANGED halted
    /\ UNCHANGED <<setting, pool_owner, malloc_owner, calls, lock>>

Next ==
    \/ runtime_libc_initialize \/ StartScheduler
    \/ \E c \in Contexts :
        \/ \E f \in Files : Open(c, f) \/ Close(c, f) \/ Acquire(c, f) \/ Release(c, f)
        \/ lock_dynamic_pool(c) \/ Reuse(c) \/ Grow(c) \/ Link(c) \/ Return(c) \/ unlock_dynamic_pool(c)
        \/ Allocate(c) \/ Allocated(c)

-----------------------------------------------------------------------------
(* The library never meets a lock without its mutex, whenever the lock was  *)
(* handed out, and never gives one lock to two files; who is inside is who  *)
(* has the mutex.                                                            *)
LocksAreThere ==
    /\ halted \in {"no", "resources"}
    /\ \A f, g \in Files : f # g /\ lock[f] # 0 => lock[f] # lock[g]
    /\ \A f \in Files, c \in Threads : c \in inside[f] =>
        inside[f] = {c} /\ dynamic_locks[lock[f]].owner = c
=============================================================================
