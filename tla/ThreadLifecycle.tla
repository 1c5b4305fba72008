-------------------------- MODULE ThreadLifecycle --------------------------
(***************************************************************************)
(* Creation, exit, join, detach and reclamation of the threads that        *)
(* std::thread runs on ThreadX (platform/runtime/libstdcxx/backend.cpp).   *)
(*                                                                         *)
(* A ThreadControl (kernel thread, lifecycle mutex, completion semaphore,  *)
(* flags) and its stack live on the heap.  Nobody may free them while any  *)
(* thread still runs on the stack or still dereferences the control, so a  *)
(* thread is reclaimed by a single lowest-priority reaper that receives    *)
(* registry ids through a bounded queue.  The id is sent by whoever of the *)
(* exiting thread, the joiner and the detacher is responsible for it.      *)
(*                                                                         *)
(* One action is one kernel call or one critical section.  The registry is *)
(* only touched under initialization_mutex, in sections that do not block, *)
(* so each of its accesses is one action.                                  *)
(***************************************************************************)
EXTENDS Integers, Sequences, FiniteSets

CONSTANTS
    Workers,        \* ThreadControl blocks the heap can hand out, each used once
    Main,           \* the application thread, not created by thread_create
    None,
    QueueDepth,     \* CLEANUP_QUEUE_DEPTH
    MaxId,          \* largest ULONG value of a registry id
    FirstIds,       \* values of next_registry_id when the history modelled starts
    SharedHandles,  \* may the creator and Main call on one handle concurrently?
    StrictPriority  \* does the reaper run only when no backend call can proceed?

Threads == Workers \union {Main}

ASSUME ConstantsAssumption ==
    /\ Main \notin Workers
    /\ None \notin Threads
    /\ QueueDepth \in Nat \ {0}
    /\ MaxId \in Nat \ {0}
    /\ FirstIds \in SUBSET (1..MaxId)
    /\ SharedHandles \in BOOLEAN
    /\ StrictPriority \in BOOLEAN
    /\ SharedHandles => StrictPriority

VARIABLES
    \* threads: program counter, which user code runs between backend calls,
    \* and the locals `control` and `enqueue` of the backend call
    pc, stage, target, enqueue,
    \* fields of each ThreadControl, and the state of its memory
    memory, registry_id, detached, finished, cleanup_queued, cleanup_ack,
    completion, lifecycle_mutex,
    \* the acknowledgement semaphore on the stack of a joiner
    acknowledgement,
    \* registry list, id counter and cleanup queue
    registry, next_registry_id, cleanup_queue,
    \* the reaper thread and its locals
    reaper_pc, reaper_message, reaper_control, reaper_ack,
    \* the std::thread object that refers to a worker, and the thread it is in
    handle, owner

callVars == <<pc, stage, target, enqueue, acknowledgement>>
controlVars == <<memory, registry_id, detached, finished, cleanup_queued,
                 cleanup_ack, completion, lifecycle_mutex>>
registryVars == <<registry, next_registry_id>>
reaperVars == <<reaper_pc, reaper_message, reaper_control, reaper_ack>>
handleVars == <<handle, owner>>
vars == <<callVars, controlVars, registryVars, cleanup_queue, reaperVars, handleVars>>

-----------------------------------------------------------------------------
(* Program counters.  "user" stands for application code, inside the entry  *)
(* function or inside an exit callback (see stage).                         *)

LockedPCs == {"x_locked", "j_locked", "d_locked"}
SendPCs == {"x_send", "j_send", "d_send"}
CreatePCs == {"c_register", "c_start", "c_undo", "c_store"}
JoinPCs == {"j_get", "j_wait", "j_lock", "j_locked", "j_send", "j_ack"}
DetachPCs == {"d_lock", "d_locked", "d_send"}
ExitPCs == {"x_lock", "x_locked", "x_put", "x_send", "returning"}
PCs == {"off", "start", "user", "completed"}
         \union CreatePCs \union JoinPCs \union DetachPCs \union ExitPCs
ReaperPCs == {"receive", "find", "poll", "delete", "unregister", "free", "acknowledge"}

\* The thread is past its exit callbacks, so it cannot call the backend again.
Left(t) == pc[t] \in ExitPCs \union {"completed"}

-----------------------------------------------------------------------------
(* Initially only Main runs.  Any number of threads may have come and gone  *)
(* before, which only the id counter remembers.                             *)
Init ==
    /\ pc = [t \in Threads |-> IF t = Main THEN "user" ELSE "off"]
    /\ stage = [t \in Threads |-> "entry"]
    /\ target = [t \in Threads |-> None]
    /\ enqueue = [t \in Threads |-> FALSE]
    /\ acknowledgement = [t \in Threads |-> "none"]
    /\ memory = [w \in Workers |-> "unused"]
    /\ registry_id = [w \in Workers |-> 0]
    /\ detached = [w \in Workers |-> FALSE]
    /\ finished = [w \in Workers |-> FALSE]
    /\ cleanup_queued = [w \in Workers |-> FALSE]
    /\ cleanup_ack = [w \in Workers |-> None]
    /\ completion = [w \in Workers |-> 0]
    /\ lifecycle_mutex = [w \in Workers |-> None]
    /\ registry = {}
    /\ next_registry_id \in FirstIds
    /\ cleanup_queue = <<>>
    /\ reaper_pc = "receive"
    /\ reaper_message = 0
    /\ reaper_control = None
    /\ reaper_ack = None
    /\ handle = [w \in Workers |-> "none"]
    /\ owner = [w \in Workers |-> None]

-----------------------------------------------------------------------------
(* Helpers.                                                                 *)

Go(t, label) == pc' = [pc EXCEPT ![t] = label]

\* A backend call returns to the application code that made it.
Return(t) ==
    /\ pc' = [pc EXCEPT ![t] = "user"]
    /\ target' = [target EXCEPT ![t] = None]

\* tx_mutex_get and tx_mutex_put of a control's lifecycle mutex.
Acquire(t, w) ==
    /\ lifecycle_mutex[w] = None
    /\ lifecycle_mutex' = [lifecycle_mutex EXCEPT ![w] = t]
Release(w) == lifecycle_mutex' = [lifecycle_mutex EXCEPT ![w] = None]

\* find_thread: the registered control with this id, None for a null pointer.
FindThread(id) ==
    LET found == {w \in registry : registry_id[w] = id}
    IN  IF found = {} THEN None ELSE CHOOSE w \in found : TRUE

\* Bound: no thread lives while MaxId (2^32 - 1) others are created.
IdIsFree == \A w \in registry : registry_id[w] # next_registry_id

\* A std::thread object must not be used by two threads at once, so the only
\* caller is its owner, or Main once the owner has left.  With SharedHandles
\* that rule is broken: both may race, as long as the call starts before
\* somebody is in charge of the thread's cleanup.
MayCall(t, w) ==
    /\ handle[w] = "joinable"
    /\ IF SharedHandles
       THEN t \in {owner[w], Main} /\ ~cleanup_queued[w]
       ELSE IF Left(owner[w]) THEN t = Main ELSE t = owner[w]

-----------------------------------------------------------------------------
(* thread_create                                                            *)

\* The control, its stack, mutex and semaphore are allocated.  A failure up
\* to here is undone before anybody else can see it and leaves no trace.
ThreadCreate(t, w) ==
    /\ pc[t] = "user"
    /\ memory[w] = "unused"
    /\ memory' = [memory EXCEPT ![w] = "allocated"]
    /\ target' = [target EXCEPT ![t] = w]
    /\ Go(t, "c_register")
    /\ UNCHANGED <<stage, enqueue, acknowledgement, registry_id, detached, finished,
                   cleanup_queued, cleanup_ack, completion, lifecycle_mutex,
                   registryVars, cleanup_queue, reaperVars, handleVars>>

\* Mutant: the counter wraps to 0, which is not an id.
RegisterThread_NoSkip(t) ==
    /\ pc[t] = "c_register"
    /\ IdIsFree
    /\ registry_id' = [registry_id EXCEPT ![target[t]] = next_registry_id]
    /\ next_registry_id' = (next_registry_id + 1) % (MaxId + 1)
    /\ registry' = registry \union {target[t]}
    /\ Go(t, "c_start")
    /\ UNCHANGED <<stage, target, enqueue, acknowledgement, memory, detached, finished,
                   cleanup_queued, cleanup_ack, completion, lifecycle_mutex,
                   cleanup_queue, reaperVars, handleVars>>

\* Mutant: the counter is not advanced.
RegisterThread_SameId(t) ==
    /\ pc[t] = "c_register"
    /\ registry_id' = [registry_id EXCEPT ![target[t]] = next_registry_id]
    /\ registry' = registry \union {target[t]}
    /\ Go(t, "c_start")
    /\ UNCHANGED next_registry_id
    /\ UNCHANGED <<stage, target, enqueue, acknowledgement, memory, detached, finished,
                   cleanup_queued, cleanup_ack, completion, lifecycle_mutex,
                   cleanup_queue, reaperVars, handleVars>>

\* register_thread: take the next id (0 is never an id) and link the control.
RegisterThread(t) ==
    /\ pc[t] = "c_register"
    /\ IdIsFree
    /\ registry_id' = [registry_id EXCEPT ![target[t]] = next_registry_id]
    /\ next_registry_id' = IF next_registry_id = MaxId THEN 1 ELSE next_registry_id + 1
    /\ registry' = registry \union {target[t]}
    /\ Go(t, "c_start")
    /\ UNCHANGED <<stage, target, enqueue, acknowledgement, memory, detached, finished,
                   cleanup_queued, cleanup_ack, completion, lifecycle_mutex,
                   cleanup_queue, reaperVars, handleVars>>

\* tx_thread_create succeeds with TX_AUTO_START: the thread may run, and even
\* end, before its creator stores the handle.
StartThread(t) ==
    /\ pc[t] = "c_start"
    /\ pc' = [pc EXCEPT ![t] = "c_store", ![target[t]] = "start"]
    /\ UNCHANGED <<stage, target, enqueue, acknowledgement, controlVars, registryVars,
                   cleanup_queue, reaperVars, handleVars>>

StartThreadFails(t) ==
    /\ pc[t] = "c_start"
    /\ Go(t, "c_undo")
    /\ UNCHANGED <<stage, target, enqueue, acknowledgement, controlVars, registryVars,
                   cleanup_queue, reaperVars, handleVars>>

\* Rollback of a failed tx_thread_create; thread_create returns EAGAIN.
UndoCreate(t) ==
    /\ pc[t] = "c_undo"
    /\ registry' = registry \ {target[t]}
    /\ memory' = [memory EXCEPT ![target[t]] = "freed"]
    /\ Return(t)
    /\ UNCHANGED <<stage, enqueue, acknowledgement, registry_id, detached, finished,
                   cleanup_queued, cleanup_ack, completion, lifecycle_mutex,
                   next_registry_id, cleanup_queue, reaperVars, handleVars>>

StoreHandle(t) ==
    /\ pc[t] = "c_store"
    /\ handle' = [handle EXCEPT ![target[t]] = "joinable"]
    /\ owner' = [owner EXCEPT ![target[t]] = t]
    /\ Return(t)
    /\ UNCHANGED <<stage, enqueue, acknowledgement, controlVars, registryVars,
                   cleanup_queue, reaperVars>>

-----------------------------------------------------------------------------
(* thread_entry                                                             *)

\* The thread finds its own control through the id it was started with (any
\* other outcome is fatal_error or worse: see LookupsSucceed).
EntryFind(w) ==
    /\ pc[w] = "start"
    /\ FindThread(registry_id[w]) = w
    /\ Go(w, "user")
    /\ UNCHANGED <<stage, target, enqueue, acknowledgement, controlVars, registryVars,
                   cleanup_queue, reaperVars, handleVars>>

\* Mutant: the thread counts as finished before its exit callbacks run.
EntryReturns_FinishedFirst(w) ==
    /\ pc[w] = "user"
    /\ stage[w] = "entry"
    /\ stage' = [stage EXCEPT ![w] = "callbacks"]
    /\ finished' = [finished EXCEPT ![w] = TRUE]
    /\ UNCHANGED <<pc, target, enqueue, acknowledgement, memory, registry_id, detached,
                   cleanup_queued, cleanup_ack, completion, lifecycle_mutex,
                   registryVars, cleanup_queue, reaperVars, handleVars>>

\* control->entry returns and cleanup_thread_runtime runs the exit callbacks,
\* which are application code and may call the backend themselves.
EntryReturns(w) ==
    /\ pc[w] = "user"
    /\ stage[w] = "entry"
    /\ stage' = [stage EXCEPT ![w] = "callbacks"]
    /\ UNCHANGED <<pc, target, enqueue, acknowledgement, controlVars, registryVars,
                   cleanup_queue, reaperVars, handleVars>>

\* Mutant: cleanup_thread_runtime is not called.
CallbacksReturn_Skipped(w) ==
    /\ pc[w] = "user"
    /\ Go(w, "x_lock")
    /\ UNCHANGED <<stage, target, enqueue, acknowledgement, controlVars, registryVars,
                   cleanup_queue, reaperVars, handleVars>>

CallbacksReturn(w) ==
    /\ pc[w] = "user"
    /\ stage[w] = "callbacks"
    /\ Go(w, "x_lock")
    /\ UNCHANGED <<stage, target, enqueue, acknowledgement, controlVars, registryVars,
                   cleanup_queue, reaperVars, handleVars>>

ExitLock(w) ==
    /\ pc[w] = "x_lock"
    /\ Acquire(w, w)
    /\ Go(w, "x_locked")
    /\ UNCHANGED <<stage, target, enqueue, acknowledgement, memory, registry_id,
                   detached, finished, cleanup_queued, cleanup_ack, completion,
                   registryVars, cleanup_queue, reaperVars, handleVars>>

\* Mutant: cleanup_queued is not set.
PublishFinished_FlagForgotten(w) ==
    /\ pc[w] = "x_locked"
    /\ finished' = [finished EXCEPT ![w] = TRUE]
    /\ enqueue' = [enqueue EXCEPT ![w] = detached[w] /\ ~cleanup_queued[w]]
    /\ Release(w)
    /\ Go(w, "x_put")
    /\ UNCHANGED <<stage, target, acknowledgement, memory, registry_id, detached,
                   cleanup_queued, cleanup_ack, completion, registryVars,
                   cleanup_queue, reaperVars, handleVars>>

\* Mutant: the exiting thread leaves its cleanup to others even when detached.
PublishFinished_NoCleanup(w) ==
    /\ pc[w] = "x_locked"
    /\ finished' = [finished EXCEPT ![w] = TRUE]
    /\ Release(w)
    /\ Go(w, "x_put")
    /\ UNCHANGED <<stage, target, enqueue, acknowledgement, memory, registry_id,
                   detached, cleanup_queued, cleanup_ack, completion, registryVars,
                   cleanup_queue, reaperVars, handleVars>>

\* Publish `finished`; a detached thread takes charge of its own cleanup.
PublishFinished(w) ==
    /\ pc[w] = "x_locked"
    /\ finished' = [finished EXCEPT ![w] = TRUE]
    /\ enqueue' = [enqueue EXCEPT ![w] = detached[w] /\ ~cleanup_queued[w]]
    /\ cleanup_queued' = [cleanup_queued EXCEPT ![w] = @ \/ detached[w]]
    /\ Release(w)
    /\ Go(w, "x_put")
    /\ UNCHANGED <<stage, target, acknowledgement, memory, registry_id, detached,
                   cleanup_ack, completion, registryVars, cleanup_queue, reaperVars,
                   handleVars>>

PutCompletion(w) ==
    /\ pc[w] = "x_put"
    /\ completion' = [completion EXCEPT ![w] = @ + 1]
    /\ Go(w, IF enqueue[w] THEN "x_send" ELSE "returning")
    /\ UNCHANGED <<stage, target, enqueue, acknowledgement, memory, registry_id,
                   detached, finished, cleanup_queued, cleanup_ack, lifecycle_mutex,
                   registryVars, cleanup_queue, reaperVars, handleVars>>

\* thread_entry has returned; ThreadX marks the thread TX_COMPLETED.
ThreadReturns(w) ==
    /\ pc[w] = "returning"
    /\ Go(w, "completed")
    /\ UNCHANGED <<stage, target, enqueue, acknowledgement, controlVars, registryVars,
                   cleanup_queue, reaperVars, handleVars>>

-----------------------------------------------------------------------------
(* thread_join                                                              *)

\* Joining oneself returns EDEADLK and changes nothing, so t is not w.
ThreadJoin(t, w) ==
    /\ pc[t] = "user"
    /\ MayCall(t, w)
    /\ t # w
    /\ target' = [target EXCEPT ![t] = w]
    /\ Go(t, "j_get")
    /\ UNCHANGED <<stage, enqueue, acknowledgement, controlVars, registryVars,
                   cleanup_queue, reaperVars, handleVars>>

\* tx_semaphore_get on the completion suspends the joiner ...
JoinSuspends(t) ==
    /\ pc[t] = "j_get"
    /\ completion[target[t]] = 0
    /\ Go(t, "j_wait")
    /\ UNCHANGED <<stage, target, enqueue, acknowledgement, controlVars, registryVars,
                   cleanup_queue, reaperVars, handleVars>>

\* ... or takes the completion; the joiner then creates its acknowledgement.
JoinGetCompletion(t) ==
    /\ pc[t] \in {"j_get", "j_wait"}
    /\ completion[target[t]] > 0
    /\ completion' = [completion EXCEPT ![target[t]] = @ - 1]
    /\ acknowledgement' = [acknowledgement EXCEPT ![t] = "created"]
    /\ Go(t, "j_lock")
    /\ UNCHANGED <<stage, target, enqueue, memory, registry_id, detached, finished,
                   cleanup_queued, cleanup_ack, lifecycle_mutex, registryVars,
                   cleanup_queue, reaperVars, handleVars>>

\* Mutant: the control is freed without deleting its completion semaphore.
JoinDeleted_Never(t) == FALSE

\* The semaphore is deleted under a suspended joiner: TX_DELETED, so EINVAL.
JoinDeleted(t) ==
    /\ pc[t] = "j_wait"
    /\ memory[target[t]] # "allocated"
    /\ Return(t)
    /\ UNCHANGED <<stage, enqueue, acknowledgement, controlVars, registryVars,
                   cleanup_queue, reaperVars, handleVars>>

JoinLock(t) ==
    /\ pc[t] = "j_lock"
    /\ Acquire(t, target[t])
    /\ Go(t, "j_locked")
    /\ UNCHANGED <<stage, target, enqueue, acknowledgement, memory, registry_id,
                   detached, finished, cleanup_queued, cleanup_ack, completion,
                   registryVars, cleanup_queue, reaperVars, handleVars>>

\* Somebody else already is in charge of the cleanup: EINVAL.
JoinRefused(t) ==
    LET w == target[t] IN
    /\ pc[t] = "j_locked"
    /\ detached[w] \/ cleanup_queued[w]
    /\ Release(w)
    /\ acknowledgement' = [acknowledgement EXCEPT ![t] = "none"]
    /\ Return(t)
    /\ UNCHANGED <<stage, enqueue, memory, registry_id, detached, finished,
                   cleanup_queued, cleanup_ack, completion, registryVars,
                   cleanup_queue, reaperVars, handleVars>>

\* Mutant: the joiner does not look at the flags.
JoinClaims_Unchecked(t) ==
    LET w == target[t] IN
    /\ pc[t] = "j_locked"
    /\ cleanup_ack' = [cleanup_ack EXCEPT ![w] = t]
    /\ cleanup_queued' = [cleanup_queued EXCEPT ![w] = TRUE]
    /\ Release(w)
    /\ Go(t, "j_send")
    /\ UNCHANGED <<stage, target, enqueue, acknowledgement, memory, registry_id,
                   detached, finished, completion, registryVars, cleanup_queue,
                   reaperVars, handleVars>>

JoinClaims(t) ==
    LET w == target[t] IN
    /\ pc[t] = "j_locked"
    /\ ~detached[w] /\ ~cleanup_queued[w]
    /\ cleanup_ack' = [cleanup_ack EXCEPT ![w] = t]
    /\ cleanup_queued' = [cleanup_queued EXCEPT ![w] = TRUE]
    /\ Release(w)
    /\ Go(t, "j_send")
    /\ UNCHANGED <<stage, target, enqueue, acknowledgement, memory, registry_id,
                   detached, finished, completion, registryVars, cleanup_queue,
                   reaperVars, handleVars>>

\* Mutant: the joiner does not wait for the reaper.
JoinAcknowledged_AtOnce(t) ==
    /\ pc[t] = "j_ack"
    /\ acknowledgement' = [acknowledgement EXCEPT ![t] = "none"]
    /\ handle' = [handle EXCEPT ![target[t]] = "joined"]
    /\ Return(t)
    /\ UNCHANGED <<stage, enqueue, controlVars, registryVars, cleanup_queue,
                   reaperVars, owner>>

\* The acknowledgement is taken and deleted; std::thread::join clears the id.
JoinAcknowledged(t) ==
    /\ pc[t] = "j_ack"
    /\ acknowledgement[t] = "posted"
    /\ acknowledgement' = [acknowledgement EXCEPT ![t] = "none"]
    /\ handle' = [handle EXCEPT ![target[t]] = "joined"]
    /\ Return(t)
    /\ UNCHANGED <<stage, enqueue, controlVars, registryVars, cleanup_queue,
                   reaperVars, owner>>

-----------------------------------------------------------------------------
(* thread_detach                                                            *)

ThreadDetach(t, w) ==
    /\ pc[t] = "user"
    /\ MayCall(t, w)
    /\ target' = [target EXCEPT ![t] = w]
    /\ Go(t, "d_lock")
    /\ UNCHANGED <<stage, enqueue, acknowledgement, controlVars, registryVars,
                   cleanup_queue, reaperVars, handleVars>>

DetachLock(t) ==
    /\ pc[t] = "d_lock"
    /\ Acquire(t, target[t])
    /\ Go(t, "d_locked")
    /\ UNCHANGED <<stage, target, enqueue, acknowledgement, memory, registry_id,
                   detached, finished, cleanup_queued, cleanup_ack, completion,
                   registryVars, cleanup_queue, reaperVars, handleVars>>

DetachRefused(t) ==
    LET w == target[t] IN
    /\ pc[t] = "d_locked"
    /\ detached[w] \/ cleanup_queued[w]
    /\ Release(w)
    /\ Return(t)
    /\ UNCHANGED <<stage, enqueue, acknowledgement, memory, registry_id, detached,
                   finished, cleanup_queued, cleanup_ack, completion, registryVars,
                   cleanup_queue, reaperVars, handleVars>>

\* The thread is still running: it will find `detached` when it exits.
DetachRunning(t) ==
    LET w == target[t] IN
    /\ pc[t] = "d_locked"
    /\ ~detached[w] /\ ~cleanup_queued[w] /\ ~finished[w]
    /\ detached' = [detached EXCEPT ![w] = TRUE]
    /\ handle' = [handle EXCEPT ![w] = "detached"]
    /\ Release(w)
    /\ Return(t)
    /\ UNCHANGED <<stage, enqueue, acknowledgement, memory, registry_id, finished,
                   cleanup_queued, cleanup_ack, completion, registryVars,
                   cleanup_queue, reaperVars, owner>>

\* The thread has finished without a cleanup: the detacher requests it.
DetachFinished(t) ==
    LET w == target[t] IN
    /\ pc[t] = "d_locked"
    /\ ~detached[w] /\ ~cleanup_queued[w] /\ finished[w]
    /\ detached' = [detached EXCEPT ![w] = TRUE]
    /\ cleanup_queued' = [cleanup_queued EXCEPT ![w] = TRUE]
    /\ Release(w)
    /\ Go(t, "d_send")
    /\ UNCHANGED <<stage, target, enqueue, acknowledgement, memory, registry_id,
                   finished, cleanup_ack, completion, registryVars, cleanup_queue,
                   reaperVars, handleVars>>

-----------------------------------------------------------------------------
(* enqueue_cleanup: the id of the control goes into the bounded queue; a    *)
(* sender that finds it full is suspended.                                  *)

SendTo(id) ==
    /\ Len(cleanup_queue) < QueueDepth
    /\ cleanup_queue' = Append(cleanup_queue, id)

ExitEnqueues(w) ==
    /\ pc[w] = "x_send"
    /\ SendTo(registry_id[w])
    /\ Go(w, "returning")
    /\ UNCHANGED <<stage, target, enqueue, acknowledgement, controlVars, registryVars,
                   reaperVars, handleVars>>

JoinEnqueues(t) ==
    /\ pc[t] = "j_send"
    /\ SendTo(registry_id[target[t]])
    /\ Go(t, "j_ack")
    /\ UNCHANGED <<stage, target, enqueue, acknowledgement, controlVars, registryVars,
                   reaperVars, handleVars>>

DetachEnqueues(t) ==
    /\ pc[t] = "d_send"
    /\ SendTo(registry_id[target[t]])
    /\ handle' = [handle EXCEPT ![target[t]] = "detached"]
    /\ Return(t)
    /\ UNCHANGED <<stage, enqueue, acknowledgement, controlVars, registryVars,
                   reaperVars, owner>>

-----------------------------------------------------------------------------
(* The reaper.  Its priority is the lowest one, so with StrictPriority it   *)
(* only runs when no thread inside a backend call can make a step.          *)

Blocked(t) ==
    \/ pc[t] \in {"off", "user", "completed"}
    \/ pc[t] = "x_lock" /\ lifecycle_mutex[t] # None
    \/ pc[t] \in {"j_lock", "d_lock"} /\ lifecycle_mutex[target[t]] # None
    \/ pc[t] \in SendPCs /\ Len(cleanup_queue) = QueueDepth
    \/ pc[t] = "j_wait" /\ completion[target[t]] = 0
                       /\ memory[target[t]] = "allocated"
    \/ pc[t] = "j_ack" /\ acknowledgement[t] = "created"

\* Mutant: the reaper may preempt application threads.
ReaperRuns_Anytime == TRUE

ReaperRuns == StrictPriority => \A t \in Threads : Blocked(t)

ReaperGo(label) == reaper_pc' = label

ReaperReceive ==
    /\ reaper_pc = "receive"
    /\ ReaperRuns
    /\ cleanup_queue # <<>>
    /\ reaper_message' = Head(cleanup_queue)
    /\ cleanup_queue' = Tail(cleanup_queue)
    /\ ReaperGo("find")
    /\ UNCHANGED <<callVars, controlVars, registryVars, reaper_control, reaper_ack,
                   handleVars>>

\* find_thread (a null result is fatal_error: see LookupsSucceed).
ReaperFind ==
    /\ reaper_pc = "find"
    /\ ReaperRuns
    /\ FindThread(reaper_message) # None
    /\ reaper_control' = FindThread(reaper_message)
    /\ ReaperGo("poll")
    /\ UNCHANGED <<callVars, controlVars, registryVars, cleanup_queue, reaper_message,
                   reaper_ack, handleVars>>

\* Mutant: no poll for TX_COMPLETED.
ReaperPoll_NoWait ==
    /\ reaper_pc = "poll"
    /\ ReaperRuns
    /\ reaper_ack' = cleanup_ack[reaper_control]
    /\ ReaperGo("delete")
    /\ UNCHANGED <<callVars, controlVars, registryVars, cleanup_queue, reaper_message,
                   reaper_control, handleVars>>

\* The poll ends once the thread is TX_COMPLETED; until then the reaper sleeps
\* a tick and asks again.  Then it reads the joiner's acknowledgement.
ReaperPoll ==
    /\ reaper_pc = "poll"
    /\ ReaperRuns
    /\ pc[reaper_control] = "completed"
    /\ reaper_ack' = cleanup_ack[reaper_control]
    /\ ReaperGo("delete")
    /\ UNCHANGED <<callVars, controlVars, registryVars, cleanup_queue, reaper_message,
                   reaper_control, handleVars>>

\* The kernel thread, the lifecycle mutex and the completion are deleted.
ReaperDelete ==
    /\ reaper_pc = "delete"
    /\ ReaperRuns
    /\ memory' = [memory EXCEPT ![reaper_control] = "deleted"]
    /\ ReaperGo("unregister")
    /\ UNCHANGED <<callVars, registry_id, detached, finished, cleanup_queued,
                   cleanup_ack, completion, lifecycle_mutex, registryVars,
                   cleanup_queue, reaper_message, reaper_control, reaper_ack,
                   handleVars>>

ReaperUnregister ==
    /\ reaper_pc = "unregister"
    /\ ReaperRuns
    /\ registry' = registry \ {reaper_control}
    /\ ReaperGo("free")
    /\ UNCHANGED <<callVars, controlVars, next_registry_id, cleanup_queue,
                   reaper_message, reaper_control, reaper_ack, handleVars>>

\* The control and the stack go back to the heap.
ReaperFree ==
    /\ reaper_pc = "free"
    /\ ReaperRuns
    /\ memory' = [memory EXCEPT ![reaper_control] = "freed"]
    /\ ReaperGo("acknowledge")
    /\ UNCHANGED <<callVars, registry_id, detached, finished, cleanup_queued,
                   cleanup_ack, completion, lifecycle_mutex, registryVars,
                   cleanup_queue, reaper_message, reaper_control, reaper_ack,
                   handleVars>>

\* Wake the joiner, if there is one, and wait for the next request.
ReaperAcknowledge ==
    /\ reaper_pc = "acknowledge"
    /\ ReaperRuns
    /\ acknowledgement' = [t \in Threads |->
          IF t = reaper_ack THEN "posted" ELSE acknowledgement[t]]
    /\ reaper_control' = None
    /\ reaper_ack' = None
    /\ ReaperGo("receive")
    /\ UNCHANGED <<pc, stage, target, enqueue, controlVars, registryVars,
                   cleanup_queue, reaper_message, handleVars>>

-----------------------------------------------------------------------------
(* What application code does on its own, and what the runtime does.        *)

Calls(t) == \E w \in Workers : ThreadCreate(t, w) \/ ThreadJoin(t, w) \/ ThreadDetach(t, w)
Create(t) == RegisterThread(t) \/ StartThread(t) \/ StartThreadFails(t)
                \/ UndoCreate(t) \/ StoreHandle(t)
Join(t) == JoinSuspends(t) \/ JoinGetCompletion(t) \/ JoinDeleted(t) \/ JoinLock(t)
              \/ JoinRefused(t) \/ JoinClaims(t) \/ JoinEnqueues(t) \/ JoinAcknowledged(t)
Detach(t) == DetachLock(t) \/ DetachRefused(t) \/ DetachRunning(t)
                \/ DetachFinished(t) \/ DetachEnqueues(t)
Exit(w) == ExitLock(w) \/ PublishFinished(w) \/ PutCompletion(w) \/ ExitEnqueues(w)
              \/ ThreadReturns(w)
Reaper == ReaperReceive \/ ReaperFind \/ ReaperPoll \/ ReaperDelete
             \/ ReaperUnregister \/ ReaperFree \/ ReaperAcknowledge

Next ==
    \/ \E t \in Threads : Calls(t) \/ Create(t) \/ Join(t) \/ Detach(t)
    \/ \E w \in Workers : EntryFind(w) \/ EntryReturns(w) \/ CallbacksReturn(w) \/ Exit(w)
    \/ Reaper

\* A thread inside the runtime, and the reaper, are scheduled eventually; the
\* application promises nothing, its code may run for ever.
Fairness ==
    /\ \A t \in Threads : WF_vars(Create(t)) /\ WF_vars(Join(t)) /\ WF_vars(Detach(t))
    /\ \A w \in Workers : WF_vars(EntryFind(w)) /\ WF_vars(Exit(w))
    /\ WF_vars(Reaper)

Spec == Init /\ [][Next]_vars
FairSpec == Spec /\ Fairness

-----------------------------------------------------------------------------
(* Properties.                                                              *)

TypeOK ==
    /\ pc \in [Threads -> PCs]
    /\ stage \in [Threads -> {"entry", "callbacks"}]
    /\ target \in [Threads -> Workers \union {None}]
    /\ enqueue \in [Threads -> BOOLEAN]
    /\ acknowledgement \in [Threads -> {"none", "created", "posted"}]
    /\ memory \in [Workers -> {"unused", "allocated", "deleted", "freed"}]
    /\ registry_id \in [Workers -> 0..MaxId]
    /\ detached \in [Workers -> BOOLEAN]
    /\ finished \in [Workers -> BOOLEAN]
    /\ cleanup_queued \in [Workers -> BOOLEAN]
    /\ cleanup_ack \in [Workers -> Threads \union {None}]
    /\ completion \in [Workers -> Nat]
    /\ lifecycle_mutex \in [Workers -> Threads \union {None}]
    /\ registry \in SUBSET Workers
    /\ next_registry_id \in 1..MaxId
    /\ cleanup_queue \in Seq(0..MaxId)
    /\ reaper_pc \in ReaperPCs
    /\ reaper_message \in 0..MaxId
    /\ reaper_control \in Workers \union {None}
    /\ reaper_ack \in Threads \union {None}
    /\ handle \in [Workers -> {"none", "joinable", "joined", "detached"}]
    /\ owner \in [Workers -> Threads \union {None}]

\* The thread still executes on its own stack.
OnStack(w) == pc[w] \notin {"off", "completed"}

\* The next step of t inside the backend dereferences the control of w.  A
\* joiner suspended on the completion does not, nor does one that waits for the
\* acknowledgement or a creator that only stores the address.
Dereferences(t, w) ==
    /\ target[t] = w
    /\ pc[t] \in {"c_register", "c_start", "c_undo", "j_get", "j_lock", "j_locked",
                  "j_send", "d_lock", "d_locked", "d_send"}

\* A thread's stack and control are not deleted or freed (reaper_entry) while
\* the thread runs on the stack or any backend call is about to use the control.
NoUseAfterFree ==
    \A w \in Workers :
        OnStack(w) \/ (\E t \in Threads : Dereferences(t, w)) => memory[w] = "allocated"

\* The reaper only handles a control that nobody reclaimed before it, deletes
\* its kernel objects before its memory, and posts an acknowledgement only to
\* a semaphore whose joiner is still waiting with it on its stack.
ReaperOwnsControl ==
    /\ reaper_pc \in {"poll", "delete"} => memory[reaper_control] = "allocated"
    /\ reaper_pc \in {"unregister", "free"} => memory[reaper_control] = "deleted"
    /\ reaper_ack # None =>
          /\ pc[reaper_ack] \in {"j_ack"}
          /\ target[reaper_ack] = reaper_control
          /\ acknowledgement[reaper_ack] = "created"

\* Threads that decided to request the cleanup of w and have not sent it yet.
Requesters(w) ==
    {t \in Threads : \/ t = w /\ pc[t] \in {"x_put", "x_send"} /\ enqueue[t]
                     \/ target[t] = w /\ pc[t] \in {"j_send", "d_send"}}
\* Positions of the queue that hold a request for w.
Requests(w) == {i \in 1..Len(cleanup_queue) : cleanup_queue[i] = registry_id[w]}
\* The reaper has received the request for w and has not freed w.
ReaperHas(w) ==
    \/ reaper_pc = "find" /\ reaper_message = registry_id[w]
    \/ reaper_pc \in {"poll", "delete", "unregister", "free"} /\ reaper_control = w

\* cleanup_queued is a promise kept exactly once: as long as a registered
\* control has it set, one request for it exists, with a thread about to send
\* it, in the queue, or with the reaper, and otherwise none does
\* (thread_entry, thread_join and thread_detach race for the flag).
OneRequest ==
    \A w \in registry :
        Cardinality(Requesters(w)) + Cardinality(Requests(w))
           + (IF ReaperHas(w) THEN 1 ELSE 0)
        = (IF cleanup_queued[w] THEN 1 ELSE 0)

\* find_thread never returns null, nor another thread's control: not to a
\* starting thread, and not to the reaper (both would be fatal_error).
LookupsSucceed ==
    /\ \A w \in Workers : pc[w] = "start" => FindThread(registry_id[w]) = w
    /\ \A i \in 1..Len(cleanup_queue) :
          FindThread(cleanup_queue[i]) # None
    /\ reaper_pc = "find" => FindThread(reaper_message) # None

\* README: "Thread exit completes TLS/TSS destructors before publishing
\* completion": nobody sees `finished` or the completion before the callbacks ran.
PublishedAfterCallbacks ==
    \A w \in Workers :
        finished[w] \/ completion[w] > 0 => stage[w] = "callbacks" /\ Left(w)

\* The whole life of a thread ends once: published after its callbacks, with one
\* request for its cleanup, which only the reaper serves.
EndsOnce == PublishedAfterCallbacks /\ OneRequest /\ ReaperOwnsControl

\* The same when several threads join and detach one handle: the EINVAL paths
\* touch a control that another thread has already given up.
EndsOnceShared == NoUseAfterFree /\ EndsOnce

\* A join of a thread that has ended returns, also when it is called from an
\* exit callback: the reaper is never stuck on a thread that waits for it.
JoinCompletes ==
    \A t \in Threads, w \in Workers :
        (pc[t] \in JoinPCs /\ target[t] = w /\ pc[w] = "completed")
            ~> (pc[t] = "user")

-----------------------------------------------------------------------------
(* Refinement.                                                              *)

\* The life of a thread as its creator sees it.
Life(w) ==
    IF memory[w] = "freed" /\ pc[w] = "completed" THEN "reclaimed"
    ELSE IF pc[w] = "off" THEN "absent"
    ELSE IF stage[w] = "callbacks" /\ Left(w) THEN "exited" ELSE "running"

Claim(w) == IF detached[w] THEN "detach"
            ELSE IF cleanup_queued[w] THEN "join" ELSE "none"

Contract == INSTANCE ThreadContract WITH
    life <- [w \in Workers |-> Life(w)],
    claim <- [w \in Workers |-> Claim(w)],
    joined <- {w \in Workers : handle[w] = "joined"}

\* The implementation keeps the promises std::thread makes (ThreadContract).
ImplementsContract == Contract!Spec

=============================================================================
