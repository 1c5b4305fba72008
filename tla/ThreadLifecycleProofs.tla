----------------------- MODULE ThreadLifecycleProofs ------------------------
(***************************************************************************)
(* The safety of ThreadLifecycle for every set of workers, queue depth and *)
(* range of ids.  First types and the inductive invariant, with the proof  *)
(* that every step keeps the parts of it that do not speak of cleanup      *)
(* requests; then who holds the one request for a cleanup, from which the  *)
(* safety theorems follow; last, that a life ends once, and as             *)
(* ThreadContract says.                                                    *)
(*                                                                         *)
(* Each part relates at most two threads and one control, so each lemma    *)
(* fixes them (y, z and x) and goes through the steps one by one.          *)
(***************************************************************************)
EXTENDS ThreadLifecycle, FiniteSetTheorems, TLAPS

-----------------------------------------------------------------------------
(* The queue as a data type.                                                *)

\* Sending and receiving keep the queue a sequence of ids.
LEMMA QueueTypes ==
    ASSUME NEW S, NEW q \in Seq(S)
    PROVE  /\ \A x \in S : Append(q, x) \in Seq(S)
           /\ q # <<>> => Head(q) \in S /\ Tail(q) \in Seq(S)
  OBVIOUS

\* find_thread returns a registered control with the id asked for, or null.
LEMMA FindThreadResult ==
    ASSUME NEW id, registry \in SUBSET Workers
    PROVE  /\ FindThread(id) \in Workers \union {None}
           /\ FindThread(id) # None /\ None \notin Workers =>
                 FindThread(id) \in registry /\ registry_id[FindThread(id)] = id
  BY DEF FindThread

-----------------------------------------------------------------------------
(* Types.                                                                   *)

CallPCs == CreatePCs \union JoinPCs \union DetachPCs

\* What TypeOK needs to be inductive: inside a call the target is a control,
\* and so is what the reaper works on.
TypeInv ==
    /\ TypeOK
    /\ \A t \in Threads : pc[t] \in CallPCs => target[t] \in Workers
    /\ reaper_pc \in {"poll", "delete", "unregister", "free"} => reaper_control \in Workers

LEMMA InitTypeInv == Init => TypeInv
  BY ConstantsAssumption DEF Init, TypeInv, TypeOK, CallPCs, CreatePCs, JoinPCs,
     DetachPCs, PCs, ReaperPCs, Threads

\* thread_create keeps the types.
LEMMA CreateTypeInv ==
    ASSUME TypeInv, NEW t \in Threads, Create(t) \/ (\E w \in Workers : ThreadCreate(t, w))
    PROVE  TypeInv'
  <1> USE ConstantsAssumption DEF TypeInv, TypeOK, CallPCs, CreatePCs, JoinPCs,
          DetachPCs, PCs, ReaperPCs, Threads, Go, Return, controlVars, registryVars,
          reaperVars, handleVars, ExitPCs
  <1>1. CASE \E w \in Workers : ThreadCreate(t, w)
    BY <1>1 DEF ThreadCreate
  <1>2. CASE RegisterThread(t)
    BY <1>2 DEF RegisterThread
  <1>3. CASE StartThread(t)
    BY <1>3 DEF StartThread
  <1>4. CASE StartThreadFails(t)
    BY <1>4 DEF StartThreadFails
  <1>5. CASE UndoCreate(t)
    BY <1>5 DEF UndoCreate
  <1>6. CASE StoreHandle(t)
    BY <1>6 DEF StoreHandle
  <1> QED
    BY <1>1, <1>2, <1>3, <1>4, <1>5, <1>6 DEF Create

\* thread_join keeps the types.
LEMMA JoinTypeInv ==
    ASSUME TypeInv, NEW t \in Threads, Join(t) \/ (\E w \in Workers : ThreadJoin(t, w))
    PROVE  TypeInv'
  <1> USE ConstantsAssumption DEF TypeInv, TypeOK, CallPCs, CreatePCs, JoinPCs,
          DetachPCs, PCs, ReaperPCs, Threads, Go, Return, Acquire, Release, SendTo,
          controlVars, registryVars, reaperVars, handleVars, callVars, ExitPCs, ReaperGo
  <1>1. CASE \E w \in Workers : ThreadJoin(t, w)
    BY <1>1 DEF ThreadJoin
  <1>2. CASE JoinSuspends(t)
    BY <1>2 DEF JoinSuspends
  <1>3. CASE JoinGetCompletion(t)
    BY <1>3 DEF JoinGetCompletion
  <1>4. CASE JoinDeleted(t)
    BY <1>4 DEF JoinDeleted
  <1>5. CASE JoinLock(t)
    BY <1>5 DEF JoinLock
  <1>6. CASE JoinRefused(t)
    BY <1>6 DEF JoinRefused
  <1>7. CASE JoinClaims(t)
    BY <1>7 DEF JoinClaims
  <1>8. CASE JoinEnqueues(t)
    BY <1>8, QueueTypes DEF JoinEnqueues
  <1>9. CASE JoinAcknowledged(t)
    BY <1>9 DEF JoinAcknowledged
  <1> QED
    BY <1>1, <1>2, <1>3, <1>4, <1>5, <1>6, <1>7, <1>8, <1>9 DEF Join

\* thread_detach keeps the types.
LEMMA DetachTypeInv ==
    ASSUME TypeInv, NEW t \in Threads, Detach(t) \/ (\E w \in Workers : ThreadDetach(t, w))
    PROVE  TypeInv'
  <1> USE ConstantsAssumption DEF TypeInv, TypeOK, CallPCs, CreatePCs, JoinPCs,
          DetachPCs, PCs, ReaperPCs, Threads, Go, Return, Acquire, Release, SendTo,
          controlVars, registryVars, reaperVars, handleVars, callVars, ExitPCs, ReaperGo
  <1>1. CASE \E w \in Workers : ThreadDetach(t, w)
    BY <1>1 DEF ThreadDetach
  <1>2. CASE DetachLock(t)
    BY <1>2 DEF DetachLock
  <1>3. CASE DetachRefused(t)
    BY <1>3 DEF DetachRefused
  <1>4. CASE DetachRunning(t)
    BY <1>4 DEF DetachRunning
  <1>5. CASE DetachFinished(t)
    BY <1>5 DEF DetachFinished
  <1>6. CASE DetachEnqueues(t)
    BY <1>6, QueueTypes DEF DetachEnqueues
  <1> QED
    BY <1>1, <1>2, <1>3, <1>4, <1>5, <1>6 DEF Detach

\* thread_entry keeps the types.
LEMMA ExitTypeInv ==
    ASSUME TypeInv, NEW w \in Workers,
           EntryFind(w) \/ EntryReturns(w) \/ CallbacksReturn(w) \/ Exit(w)
    PROVE  TypeInv'
  <1> USE ConstantsAssumption DEF TypeInv, TypeOK, CallPCs, CreatePCs, JoinPCs,
          DetachPCs, PCs, ReaperPCs, Threads, Go, Return, Acquire, Release, SendTo,
          controlVars, registryVars, reaperVars, handleVars, callVars, ExitPCs, ReaperGo
  <1>1. CASE EntryFind(w)
    BY <1>1 DEF EntryFind
  <1>2. CASE EntryReturns(w)
    BY <1>2 DEF EntryReturns
  <1>3. CASE CallbacksReturn(w)
    BY <1>3 DEF CallbacksReturn
  <1>4. CASE ExitLock(w)
    BY <1>4 DEF ExitLock
  <1>5. CASE PublishFinished(w)
    BY <1>5 DEF PublishFinished
  <1>6. CASE PutCompletion(w)
    BY <1>6 DEF PutCompletion
  <1>7. CASE ExitEnqueues(w)
    BY <1>7, QueueTypes DEF ExitEnqueues
  <1>8. CASE ThreadReturns(w)
    BY <1>8 DEF ThreadReturns
  <1> QED
    BY <1>1, <1>2, <1>3, <1>4, <1>5, <1>6, <1>7, <1>8 DEF Exit

\* reaper_entry keeps the types.
LEMMA ReaperTypeInv ==
    ASSUME TypeInv, Reaper
    PROVE  TypeInv'
  <1> USE ConstantsAssumption DEF TypeInv, TypeOK, CallPCs, CreatePCs, JoinPCs,
          DetachPCs, PCs, ReaperPCs, Threads, Go, Return, Acquire, Release, SendTo,
          controlVars, registryVars, reaperVars, handleVars, callVars, ExitPCs, ReaperGo
  <1>1. CASE ReaperReceive
    BY <1>1, QueueTypes DEF ReaperReceive
  <1>2. CASE ReaperFind
    BY <1>2, FindThreadResult DEF ReaperFind
  <1>3. CASE ReaperPoll
    BY <1>3 DEF ReaperPoll
  <1>4. CASE ReaperDelete
    BY <1>4 DEF ReaperDelete
  <1>5. CASE ReaperUnregister
    BY <1>5 DEF ReaperUnregister
  <1>6. CASE ReaperFree
    BY <1>6 DEF ReaperFree
  <1>7. CASE ReaperAcknowledge
    BY <1>7 DEF ReaperAcknowledge
  <1> QED
    BY <1>1, <1>2, <1>3, <1>4, <1>5, <1>6, <1>7 DEF Reaper

\* No step breaks a type.
LEMMA TypeStep == TypeInv /\ [Next]_vars => TypeInv'
  <1> SUFFICES ASSUME TypeInv, [Next]_vars
               PROVE  TypeInv'
    OBVIOUS
  <1>1. CASE \E t \in Threads : Calls(t) \/ Create(t) \/ Join(t) \/ Detach(t)
    BY <1>1, CreateTypeInv, JoinTypeInv, DetachTypeInv DEF Calls
  <1>2. CASE \E w \in Workers :
                EntryFind(w) \/ EntryReturns(w) \/ CallbacksReturn(w) \/ Exit(w)
    BY <1>2, ExitTypeInv
  <1>3. CASE Reaper
    BY <1>3, ReaperTypeInv
  <1>4. CASE UNCHANGED vars
    BY <1>4 DEF vars, callVars, controlVars, registryVars, reaperVars, handleVars,
       TypeInv, TypeOK
  <1> QED
    BY <1>1, <1>2, <1>3, <1>4 DEF Next

\* Every variable keeps the type its declaration in backend.cpp gives it, and
\* the controls that the backend and the reaper work on exist.
THEOREM TypeCorrect == Spec => []TypeOK
  <1>1. TypeInv => TypeOK
    BY DEF TypeInv
  <1> QED
    BY <1>1, TypeStep, InitTypeInv, PTL DEF Spec


-----------------------------------------------------------------------------
(* The inductive invariant.  NoUseAfterFree by itself is not inductive: that *)
(* nobody uses a control when the reaper deletes it follows from who may     *)
(* still be inside a call on it, which the flags, the lifecycle mutex and    *)
(* the one request per cleanup decide.                                       *)

Creating(t, w) == target[t] = w /\ pc[t] \in CreatePCs
Caller(t, w) == target[t] = w /\ pc[t] \in JoinPCs \union DetachPCs
\* The caller has not become responsible for the cleanup (yet).
Early(t, w) == target[t] = w /\ pc[t] \in {"j_get", "j_wait", "j_lock", "j_locked",
                                           "d_lock", "d_locked"}
Claimed(t, w) == target[t] = w /\ pc[t] \in {"j_send", "j_ack", "d_send"}
Sender(t, w) == \/ t = w /\ pc[t] \in {"x_put", "x_send"} /\ enqueue[t]
                \/ target[t] = w /\ pc[t] \in {"j_send", "d_send"}
InQueue(w) == \E i \in 1..Len(cleanup_queue) : cleanup_queue[i] = registry_id[w]
Dead(w) == memory[w] \in {"deleted", "freed"}

\* Calls: who is inside one, and on which control.
CallAt(t, w) ==
    /\ pc[t] \notin CallPCs => target[t] = None
    /\ pc[Main] \in {"user"} \union CallPCs
    /\ Caller(t, w) => handle[w] # "none"

\* A control is private to its creator until the handle is stored.
CreateAt(t, w) ==
    /\ memory[w] = "unused" => pc[w] = "off" /\ w \notin registry /\ target[t] # w
    /\ Creating(t, w) =>
          /\ handle[w] = "none"
          /\ IF pc[t] = "c_store" THEN pc[w] # "off"
             ELSE pc[w] = "off" /\ memory[w] = "allocated"
          /\ pc[t] = "c_register" => w \notin registry
          /\ pc[t] \in {"c_start", "c_undo"} => w \in registry
    /\ pc[w] = "off" => handle[w] = "none" /\ ~finished[w] /\ completion[w] = 0
    /\ handle[w] = "none" => ~detached[w] /\ ~cleanup_queued[w]
    /\ handle[w] # "none" => owner[w] \in Threads
OneCreator(t, u, w) == Creating(t, w) /\ Creating(u, w) => t = u

\* The registry holds the controls that exist, each under an id of its own.
RegistryAt(v, w) ==
    /\ w \in registry => memory[w] \in {"allocated", "deleted"}
    /\ pc[w] # "off" /\ memory[w] = "allocated" => w \in registry
    /\ v \in registry /\ w \in registry /\ registry_id[v] = registry_id[w] => v = w

\* The lifecycle mutex is held by the thread inside the critical section.
LockAt(t, w) ==
    /\ pc[w] = "x_locked" => lifecycle_mutex[w] = w
    /\ target[t] = w /\ pc[t] \in {"j_locked", "d_locked"} => lifecycle_mutex[w] = t
    /\ lifecycle_mutex[w] = t =>
          \/ t = w /\ pc[w] = "x_locked"
          \/ target[t] = w /\ pc[t] \in {"j_locked", "d_locked"}

\* What the flags say about the progress of the exiting thread.
FlagAt(t, w) ==
    /\ finished[w] <=> pc[w] \in {"x_put", "x_send", "returning", "completed"}
    /\ completion[w] > 0 => finished[w]
    /\ cleanup_queued[w] => finished[w]
    /\ target[t] = w /\ pc[t] \in {"j_lock", "j_locked", "j_send", "j_ack", "d_send"}
          => finished[w]
    /\ pc[w] = "x_send" => enqueue[w]
    /\ pc[w] \in {"x_put", "x_send"} /\ enqueue[w] => cleanup_queued[w]

\* Without SharedHandles the handle has one user, and as long as it has not
\* claimed the cleanup nobody else has.
User(w) == IF Left(owner[w]) THEN Main ELSE owner[w]
OwnedAt(t, w) == ~SharedHandles =>
    /\ Caller(t, w) => handle[w] = "joinable" /\ t = User(w)
    /\ Early(t, w) => ~detached[w] /\ ~cleanup_queued[w]
    /\ handle[w] = "joinable" /\ (detached[w] \/ cleanup_queued[w]) => Claimed(User(w), w)

\* One request per cleanup: with a sender, in the queue, or with the reaper.
RequestAt(t, w) ==
    /\ Sender(t, w) =>
          /\ cleanup_queued[w] /\ ~InQueue(w) /\ ~ReaperHas(w)
          /\ w \in registry /\ memory[w] = "allocated"
    /\ w \in registry /\ InQueue(w) =>
          cleanup_queued[w] /\ ~ReaperHas(w) /\ memory[w] = "allocated"
OneSender(t, u, w) == Sender(t, w) /\ Sender(u, w) => t = u
QueueAt(i, j) ==
    /\ cleanup_queue[i] = cleanup_queue[j] => i = j
    /\ \E w \in registry : cleanup_queue[i] = registry_id[w]

\* The reaper's control is the one the request was for, and still exists.
ReaperAt(w) ==
    /\ w = reaper_control =>
          /\ reaper_pc \in {"poll", "delete"} => memory[w] = "allocated" /\ w \in registry
          /\ reaper_pc = "unregister" => memory[w] = "deleted" /\ w \in registry
          /\ reaper_pc = "free" => memory[w] = "deleted" /\ w \notin registry
          /\ reaper_pc \in {"poll", "delete", "unregister", "free"} => cleanup_queued[w]
          /\ reaper_pc \in {"delete", "unregister", "free"} => pc[w] = "completed"
    /\ memory[w] = "deleted" => reaper_pc \in {"unregister", "free"} /\ reaper_control = w
ReaperFinds == reaper_pc = "find" =>
    \E w \in registry : /\ reaper_message = registry_id[w]
                        /\ cleanup_queued[w] /\ memory[w] = "allocated"

\* Nobody can reach a control once it is deleted.
DeadAt(t, w) == Dead(w) =>
    /\ pc[w] \in {"off", "completed"}
    /\ pc[w] = "off" => target[t] # w
    /\ pc[w] = "completed" => cleanup_queued[w]
    /\ ~Dereferences(t, w)
    /\ target[t] = w /\ pc[t] = "j_wait" => completion[w] = 0

CallInv == \A t \in Threads, w \in Workers : CallAt(t, w)
CreateInv == /\ \A t \in Threads, w \in Workers : CreateAt(t, w)
             /\ \A t, u \in Threads, w \in Workers : OneCreator(t, u, w)
RegistryInv == \A v, w \in Workers : RegistryAt(v, w)
LockInv == \A t \in Threads, w \in Workers : LockAt(t, w)
FlagInv == \A t \in Threads, w \in Workers : FlagAt(t, w)
OwnedInv == \A t \in Threads, w \in Workers : OwnedAt(t, w)
RequestInv == /\ \A t \in Threads, w \in Workers : RequestAt(t, w)
              /\ \A t, u \in Threads, w \in Workers : OneSender(t, u, w)
              /\ \A i, j \in 1..Len(cleanup_queue) : QueueAt(i, j)
ReaperInv == /\ \A w \in Workers : ReaperAt(w)
             /\ ReaperFinds
DeadInv == \A t \in Threads, w \in Workers : DeadAt(t, w)

IInv == /\ TypeInv /\ CallInv /\ CreateInv /\ RegistryInv /\ LockInv /\ FlagInv
        /\ OwnedInv /\ RequestInv /\ ReaperInv /\ DeadInv

LEMMA InitIInv == Init => IInv
  BY InitTypeInv, ConstantsAssumption
     DEF Init, IInv, CallInv, CallAt, Caller, CreateInv, CreateAt, OneCreator, Creating,
     RegistryInv, RegistryAt, LockInv, LockAt, FlagInv, FlagAt, OwnedInv, OwnedAt, User,
     Left, Early, Claimed, RequestInv, RequestAt, OneSender, QueueAt, Sender, InQueue,
     ReaperHas, ReaperInv, ReaperAt, ReaperFinds, DeadInv, DeadAt, Dead, Dereferences,
     CallPCs, CreatePCs, JoinPCs, DetachPCs, ExitPCs, Threads

-----------------------------------------------------------------------------
(* What two kinds of step do to the state, for the lemmas below.            *)

\* The new thread was off, and is not its creator.
LEMMA StartThreadEffect ==
    ASSUME IInv, NEW t \in Threads, StartThread(t)
    PROVE  /\ target[t] \in Workers /\ t # target[t]
           /\ pc[t] = "c_start" /\ pc[target[t]] = "off"
           /\ \A u \in Threads : pc'[u] = IF u = target[t] THEN "start"
                                         ELSE IF u = t THEN "c_store" ELSE pc[u]
           /\ UNCHANGED <<target, enqueue, memory, registry_id, detached, finished,
                 cleanup_queued, completion, lifecycle_mutex, registry, cleanup_queue,
                 handle, owner, reaper_pc, reaper_message, reaper_control, stage,
                 acknowledgement, cleanup_ack, reaper_ack>>
  <1>1. target[t] \in Workers /\ pc[t] = "c_start" /\ pc \in [Threads -> PCs]
    BY DEF IInv, StartThread, TypeInv, TypeOK, CallPCs, CreatePCs
  <1>2. pc[target[t]] = "off"
    BY <1>1 DEF IInv, CreateInv, CreateAt, Creating, CreatePCs
  <1>3. pc' = [pc EXCEPT ![t] = "c_store", ![target[t]] = "start"]
    BY DEF StartThread
  <1>4. t # target[t] /\ target[t] \in Threads
    BY <1>1, <1>2 DEF Threads
  <1>5. \A u \in Threads : pc'[u] = IF u = target[t] THEN "start"
                                   ELSE IF u = t THEN "c_store" ELSE pc[u]
    BY <1>1, <1>3, <1>4
  <1> QED
    BY <1>1, <1>2, <1>4, <1>5
       DEF StartThread, controlVars, registryVars, reaperVars, handleVars

\* The reaper disturbs no thread, and of a control only its memory.
LEMMA ReaperFrame ==
    ASSUME Reaper
    PROVE  UNCHANGED <<pc, target, enqueue, registry_id, detached, finished,
              cleanup_queued, completion, lifecycle_mutex, handle, owner>>
  BY DEF Reaper, ReaperReceive, ReaperFind, ReaperPoll, ReaperDelete, ReaperUnregister,
     ReaperFree, ReaperAcknowledge, callVars, controlVars, handleVars, registryVars

-----------------------------------------------------------------------------
(* The steps keep the invariant.                                            *)

\* The target of a call is set when it starts and cleared when it returns.
LEMMA CallStep ==
    ASSUME IInv, TypeInv', Next,
           NEW y \in Threads, NEW x \in Workers
    PROVE  CallAt(y, x)'
  <1>1. ASSUME NEW t \in Threads, StartThread(t)
        PROVE  CallAt(y, x)'
    BY <1>1, StartThreadEffect, ConstantsAssumption
       DEF IInv, CallInv, CallAt, Caller, CallPCs, CreatePCs, JoinPCs, DetachPCs,
       Threads
  <1>2. CASE Reaper
    BY <1>2, ReaperFrame
       DEF IInv, CallInv, CreateInv, CallAt, CreateAt, OneCreator, Caller,
       Creating
  <1> USE ConstantsAssumption
          DEF IInv, CallInv, CreateInv, CallAt, CreateAt, OneCreator, TypeInv,
          TypeOK, CallPCs, CreatePCs, JoinPCs, DetachPCs, ExitPCs, Threads, Go,
          Return, Acquire, Release, SendTo, ReaperGo, callVars, controlVars,
          registryVars, reaperVars, handleVars, Caller, Creating
  <1>3. ASSUME NEW t \in Threads, NEW w \in Workers, ThreadCreate(t, w)
        PROVE  CallAt(y, x)'
    BY <1>3 DEF ThreadCreate
  <1>4. ASSUME NEW t \in Threads, NEW w \in Workers, ThreadJoin(t, w)
        PROVE  CallAt(y, x)'
    BY <1>4 DEF ThreadJoin, MayCall, Left
  <1>5. ASSUME NEW t \in Threads, NEW w \in Workers, ThreadDetach(t, w)
        PROVE  CallAt(y, x)'
    BY <1>5 DEF ThreadDetach, MayCall, Left
  <1>6. ASSUME NEW t \in Threads, RegisterThread(t)
        PROVE  CallAt(y, x)'
    BY <1>6 DEF RegisterThread, IdIsFree
  <1>7. ASSUME NEW t \in Threads, StartThreadFails(t)
        PROVE  CallAt(y, x)'
    BY <1>7 DEF StartThreadFails
  <1>8. ASSUME NEW t \in Threads, UndoCreate(t)
        PROVE  CallAt(y, x)'
    BY <1>8 DEF UndoCreate
  <1>9. ASSUME NEW t \in Threads, StoreHandle(t)
        PROVE  CallAt(y, x)'
    BY <1>9 DEF StoreHandle
  <1>10. ASSUME NEW t \in Threads, JoinSuspends(t)
        PROVE  CallAt(y, x)'
    BY <1>10 DEF JoinSuspends
  <1>11. ASSUME NEW t \in Threads, JoinGetCompletion(t)
        PROVE  CallAt(y, x)'
    BY <1>11 DEF JoinGetCompletion
  <1>12. ASSUME NEW t \in Threads, JoinDeleted(t)
        PROVE  CallAt(y, x)'
    BY <1>12 DEF JoinDeleted
  <1>13. ASSUME NEW t \in Threads, JoinLock(t)
        PROVE  CallAt(y, x)'
    BY <1>13 DEF JoinLock
  <1>14. ASSUME NEW t \in Threads, JoinRefused(t)
        PROVE  CallAt(y, x)'
    BY <1>14 DEF JoinRefused
  <1>15. ASSUME NEW t \in Threads, JoinClaims(t)
        PROVE  CallAt(y, x)'
    BY <1>15 DEF JoinClaims
  <1>16. ASSUME NEW t \in Threads, JoinEnqueues(t)
        PROVE  CallAt(y, x)'
    BY SMTT(60), <1>16 DEF JoinEnqueues
  <1>17. ASSUME NEW t \in Threads, JoinAcknowledged(t)
        PROVE  CallAt(y, x)'
    BY <1>17 DEF JoinAcknowledged
  <1>18. ASSUME NEW t \in Threads, DetachLock(t)
        PROVE  CallAt(y, x)'
    BY <1>18 DEF DetachLock
  <1>19. ASSUME NEW t \in Threads, DetachRefused(t)
        PROVE  CallAt(y, x)'
    BY <1>19 DEF DetachRefused
  <1>20. ASSUME NEW t \in Threads, DetachRunning(t)
        PROVE  CallAt(y, x)'
    BY <1>20 DEF DetachRunning
  <1>21. ASSUME NEW t \in Threads, DetachFinished(t)
        PROVE  CallAt(y, x)'
    BY <1>21 DEF DetachFinished
  <1>22. ASSUME NEW t \in Threads, DetachEnqueues(t)
        PROVE  CallAt(y, x)'
    BY <1>22 DEF DetachEnqueues
  <1>23. ASSUME NEW w \in Workers, EntryFind(w)
        PROVE  CallAt(y, x)'
    BY <1>23 DEF EntryFind
  <1>24. ASSUME NEW w \in Workers, EntryReturns(w)
        PROVE  CallAt(y, x)'
    BY <1>24 DEF EntryReturns
  <1>25. ASSUME NEW w \in Workers, CallbacksReturn(w)
        PROVE  CallAt(y, x)'
    BY <1>25 DEF CallbacksReturn
  <1>26. ASSUME NEW w \in Workers, ExitLock(w)
        PROVE  CallAt(y, x)'
    BY <1>26 DEF ExitLock
  <1>27. ASSUME NEW w \in Workers, PublishFinished(w)
        PROVE  CallAt(y, x)'
    BY <1>27 DEF PublishFinished
  <1>28. ASSUME NEW w \in Workers, PutCompletion(w)
        PROVE  CallAt(y, x)'
    BY <1>28 DEF PutCompletion
  <1>29. ASSUME NEW w \in Workers, ExitEnqueues(w)
        PROVE  CallAt(y, x)'
    BY SMTT(60), <1>29 DEF ExitEnqueues
  <1>30. ASSUME NEW w \in Workers, ThreadReturns(w)
        PROVE  CallAt(y, x)'
    BY <1>30 DEF ThreadReturns
  <1> HIDE DEF CallAt, IInv, TypeInv
  <1> QED
    BY <1>1, <1>2, <1>3, <1>4, <1>5, <1>6, <1>7, <1>8, <1>9, <1>10, <1>11, <1>12,
    <1>13, <1>14, <1>15, <1>16, <1>17, <1>18, <1>19, <1>20, <1>21, <1>22, <1>23,
    <1>24, <1>25, <1>26, <1>27, <1>28, <1>29, <1>30
       DEF Next, Calls, Create, Join, Detach, Exit, Reaper

\* A control that is being created belongs to its creator alone.
LEMMA CreateStep ==
    ASSUME IInv, TypeInv', Next,
           NEW y \in Threads, NEW x \in Workers
    PROVE  CreateAt(y, x)'
  <1>1. ASSUME NEW t \in Threads, StartThread(t)
        PROVE  CreateAt(y, x)'
    BY <1>1, StartThreadEffect, ConstantsAssumption
       DEF IInv, CallInv, CallAt, CreateInv, CreateAt, OneCreator, Creating,
       CallPCs, CreatePCs, JoinPCs, DetachPCs, Threads
  <1> USE ConstantsAssumption
          DEF IInv, CallInv, CreateInv, FlagInv, ReaperInv, RegistryInv, CallAt,
          CreateAt, OneCreator, FlagAt, ReaperAt, ReaperFinds, RegistryAt,
          TypeInv, TypeOK, CallPCs, CreatePCs, JoinPCs, DetachPCs, ExitPCs,
          Threads, Go, Return, Acquire, Release, SendTo, ReaperGo, callVars,
          controlVars, registryVars, reaperVars, handleVars, Caller, Creating
  <1>2. ASSUME NEW t \in Threads, NEW w \in Workers, ThreadCreate(t, w)
        PROVE  CreateAt(y, x)'
    BY <1>2 DEF ThreadCreate
  <1>3. ASSUME NEW t \in Threads, NEW w \in Workers, ThreadJoin(t, w)
        PROVE  CreateAt(y, x)'
    BY <1>3 DEF ThreadJoin, MayCall, Left
  <1>4. ASSUME NEW t \in Threads, NEW w \in Workers, ThreadDetach(t, w)
        PROVE  CreateAt(y, x)'
    BY <1>4 DEF ThreadDetach, MayCall, Left
  <1>5. ASSUME NEW t \in Threads, RegisterThread(t)
        PROVE  CreateAt(y, x)'
    BY <1>5 DEF RegisterThread, IdIsFree
  <1>6. ASSUME NEW t \in Threads, StartThreadFails(t)
        PROVE  CreateAt(y, x)'
    BY <1>6 DEF StartThreadFails
  <1>7. ASSUME NEW t \in Threads, UndoCreate(t)
        PROVE  CreateAt(y, x)'
    BY <1>7 DEF UndoCreate
  <1>8. ASSUME NEW t \in Threads, StoreHandle(t)
        PROVE  CreateAt(y, x)'
    BY <1>8 DEF StoreHandle
  <1>9. ASSUME NEW t \in Threads, JoinSuspends(t)
        PROVE  CreateAt(y, x)'
    BY <1>9 DEF JoinSuspends
  <1>10. ASSUME NEW t \in Threads, JoinGetCompletion(t)
        PROVE  CreateAt(y, x)'
    BY <1>10 DEF JoinGetCompletion
  <1>11. ASSUME NEW t \in Threads, JoinDeleted(t)
        PROVE  CreateAt(y, x)'
    BY <1>11 DEF JoinDeleted
  <1>12. ASSUME NEW t \in Threads, JoinLock(t)
        PROVE  CreateAt(y, x)'
    BY <1>12 DEF JoinLock
  <1>13. ASSUME NEW t \in Threads, JoinRefused(t)
        PROVE  CreateAt(y, x)'
    BY <1>13 DEF JoinRefused
  <1>14. ASSUME NEW t \in Threads, JoinClaims(t)
        PROVE  CreateAt(y, x)'
    BY <1>14 DEF JoinClaims
  <1>15. ASSUME NEW t \in Threads, JoinEnqueues(t)
        PROVE  CreateAt(y, x)'
    BY <1>15 DEF JoinEnqueues
  <1>16. ASSUME NEW t \in Threads, JoinAcknowledged(t)
        PROVE  CreateAt(y, x)'
    BY <1>16 DEF JoinAcknowledged
  <1>17. ASSUME NEW t \in Threads, DetachLock(t)
        PROVE  CreateAt(y, x)'
    BY <1>17 DEF DetachLock
  <1>18. ASSUME NEW t \in Threads, DetachRefused(t)
        PROVE  CreateAt(y, x)'
    BY <1>18 DEF DetachRefused
  <1>19. ASSUME NEW t \in Threads, DetachRunning(t)
        PROVE  CreateAt(y, x)'
    BY <1>19 DEF DetachRunning
  <1>20. ASSUME NEW t \in Threads, DetachFinished(t)
        PROVE  CreateAt(y, x)'
    BY <1>20 DEF DetachFinished
  <1>21. ASSUME NEW t \in Threads, DetachEnqueues(t)
        PROVE  CreateAt(y, x)'
    BY <1>21 DEF DetachEnqueues
  <1>22. ASSUME NEW w \in Workers, EntryFind(w)
        PROVE  CreateAt(y, x)'
    BY <1>22 DEF EntryFind
  <1>23. ASSUME NEW w \in Workers, EntryReturns(w)
        PROVE  CreateAt(y, x)'
    BY <1>23 DEF EntryReturns
  <1>24. ASSUME NEW w \in Workers, CallbacksReturn(w)
        PROVE  CreateAt(y, x)'
    BY <1>24 DEF CallbacksReturn
  <1>25. ASSUME NEW w \in Workers, ExitLock(w)
        PROVE  CreateAt(y, x)'
    BY <1>25 DEF ExitLock
  <1>26. ASSUME NEW w \in Workers, PublishFinished(w)
        PROVE  CreateAt(y, x)'
    BY <1>26 DEF PublishFinished
  <1>27. ASSUME NEW w \in Workers, PutCompletion(w)
        PROVE  CreateAt(y, x)'
    BY <1>27 DEF PutCompletion
  <1>28. ASSUME NEW w \in Workers, ExitEnqueues(w)
        PROVE  CreateAt(y, x)'
    BY <1>28 DEF ExitEnqueues
  <1>29. ASSUME NEW w \in Workers, ThreadReturns(w)
        PROVE  CreateAt(y, x)'
    BY <1>29 DEF ThreadReturns
  <1>30. CASE ReaperReceive
    BY <1>30 DEF ReaperReceive
  <1>31. CASE ReaperFind
    BY <1>31 DEF ReaperFind
  <1>32. CASE ReaperPoll
    BY <1>32 DEF ReaperPoll
  <1>33. CASE ReaperDelete
    BY <1>33 DEF ReaperDelete
  <1>34. CASE ReaperUnregister
    BY <1>34 DEF ReaperUnregister
  <1>35. CASE ReaperFree
    BY <1>35 DEF ReaperFree
  <1>36. CASE ReaperAcknowledge
    BY <1>36 DEF ReaperAcknowledge
  <1> HIDE DEF CreateAt, IInv, TypeInv
  <1> QED
    BY <1>1, <1>2, <1>3, <1>4, <1>5, <1>6, <1>7, <1>8, <1>9, <1>10, <1>11, <1>12,
    <1>13, <1>14, <1>15, <1>16, <1>17, <1>18, <1>19, <1>20, <1>21, <1>22, <1>23,
    <1>24, <1>25, <1>26, <1>27, <1>28, <1>29, <1>30, <1>31, <1>32, <1>33, <1>34,
    <1>35, <1>36
       DEF Next, Calls, Create, Join, Detach, Exit, Reaper

\* A control has one creator.
LEMMA OneCreatorStep ==
    ASSUME IInv, TypeInv', Next,
           NEW y \in Threads, NEW z \in Threads, NEW x \in Workers
    PROVE  OneCreator(y, z, x)'
  <1>1. ASSUME NEW t \in Threads, StartThread(t)
        PROVE  OneCreator(y, z, x)'
    BY <1>1, StartThreadEffect, ConstantsAssumption
       DEF IInv, CallInv, CallAt, CreateInv, CreateAt, OneCreator, Creating,
       CallPCs, CreatePCs, JoinPCs, DetachPCs, Threads
  <1>2. CASE Reaper
    BY <1>2, ReaperFrame
       DEF IInv, CallInv, CreateInv, CallAt, CreateAt, OneCreator, Caller,
       Creating
  <1> USE ConstantsAssumption
          DEF IInv, CallInv, CreateInv, CallAt, CreateAt, OneCreator, TypeInv,
          TypeOK, CallPCs, CreatePCs, JoinPCs, DetachPCs, ExitPCs, Threads, Go,
          Return, Acquire, Release, SendTo, ReaperGo, callVars, controlVars,
          registryVars, reaperVars, handleVars, Caller, Creating
  <1>3. ASSUME NEW t \in Threads, NEW w \in Workers, ThreadCreate(t, w)
        PROVE  OneCreator(y, z, x)'
    BY <1>3 DEF ThreadCreate
  <1>4. ASSUME NEW t \in Threads, NEW w \in Workers, ThreadJoin(t, w)
        PROVE  OneCreator(y, z, x)'
    BY <1>4 DEF ThreadJoin, MayCall, Left
  <1>5. ASSUME NEW t \in Threads, NEW w \in Workers, ThreadDetach(t, w)
        PROVE  OneCreator(y, z, x)'
    BY <1>5 DEF ThreadDetach, MayCall, Left
  <1>6. ASSUME NEW t \in Threads, RegisterThread(t)
        PROVE  OneCreator(y, z, x)'
    BY <1>6 DEF RegisterThread, IdIsFree
  <1>7. ASSUME NEW t \in Threads, StartThreadFails(t)
        PROVE  OneCreator(y, z, x)'
    BY <1>7 DEF StartThreadFails
  <1>8. ASSUME NEW t \in Threads, UndoCreate(t)
        PROVE  OneCreator(y, z, x)'
    BY <1>8 DEF UndoCreate
  <1>9. ASSUME NEW t \in Threads, StoreHandle(t)
        PROVE  OneCreator(y, z, x)'
    BY <1>9 DEF StoreHandle
  <1>10. ASSUME NEW t \in Threads, JoinSuspends(t)
        PROVE  OneCreator(y, z, x)'
    BY <1>10 DEF JoinSuspends
  <1>11. ASSUME NEW t \in Threads, JoinGetCompletion(t)
        PROVE  OneCreator(y, z, x)'
    BY <1>11 DEF JoinGetCompletion
  <1>12. ASSUME NEW t \in Threads, JoinDeleted(t)
        PROVE  OneCreator(y, z, x)'
    BY <1>12 DEF JoinDeleted
  <1>13. ASSUME NEW t \in Threads, JoinLock(t)
        PROVE  OneCreator(y, z, x)'
    BY <1>13 DEF JoinLock
  <1>14. ASSUME NEW t \in Threads, JoinRefused(t)
        PROVE  OneCreator(y, z, x)'
    BY <1>14 DEF JoinRefused
  <1>15. ASSUME NEW t \in Threads, JoinClaims(t)
        PROVE  OneCreator(y, z, x)'
    BY <1>15 DEF JoinClaims
  <1>16. ASSUME NEW t \in Threads, JoinEnqueues(t)
        PROVE  OneCreator(y, z, x)'
    BY <1>16 DEF JoinEnqueues
  <1>17. ASSUME NEW t \in Threads, JoinAcknowledged(t)
        PROVE  OneCreator(y, z, x)'
    BY <1>17 DEF JoinAcknowledged
  <1>18. ASSUME NEW t \in Threads, DetachLock(t)
        PROVE  OneCreator(y, z, x)'
    BY <1>18 DEF DetachLock
  <1>19. ASSUME NEW t \in Threads, DetachRefused(t)
        PROVE  OneCreator(y, z, x)'
    BY <1>19 DEF DetachRefused
  <1>20. ASSUME NEW t \in Threads, DetachRunning(t)
        PROVE  OneCreator(y, z, x)'
    BY <1>20 DEF DetachRunning
  <1>21. ASSUME NEW t \in Threads, DetachFinished(t)
        PROVE  OneCreator(y, z, x)'
    BY <1>21 DEF DetachFinished
  <1>22. ASSUME NEW t \in Threads, DetachEnqueues(t)
        PROVE  OneCreator(y, z, x)'
    BY <1>22 DEF DetachEnqueues
  <1>23. ASSUME NEW w \in Workers, EntryFind(w)
        PROVE  OneCreator(y, z, x)'
    BY <1>23 DEF EntryFind
  <1>24. ASSUME NEW w \in Workers, EntryReturns(w)
        PROVE  OneCreator(y, z, x)'
    BY <1>24 DEF EntryReturns
  <1>25. ASSUME NEW w \in Workers, CallbacksReturn(w)
        PROVE  OneCreator(y, z, x)'
    BY <1>25 DEF CallbacksReturn
  <1>26. ASSUME NEW w \in Workers, ExitLock(w)
        PROVE  OneCreator(y, z, x)'
    BY <1>26 DEF ExitLock
  <1>27. ASSUME NEW w \in Workers, PublishFinished(w)
        PROVE  OneCreator(y, z, x)'
    BY <1>27 DEF PublishFinished
  <1>28. ASSUME NEW w \in Workers, PutCompletion(w)
        PROVE  OneCreator(y, z, x)'
    BY <1>28 DEF PutCompletion
  <1>29. ASSUME NEW w \in Workers, ExitEnqueues(w)
        PROVE  OneCreator(y, z, x)'
    BY <1>29 DEF ExitEnqueues
  <1>30. ASSUME NEW w \in Workers, ThreadReturns(w)
        PROVE  OneCreator(y, z, x)'
    BY <1>30 DEF ThreadReturns
  <1> HIDE DEF OneCreator, IInv, TypeInv
  <1> QED
    BY <1>1, <1>2, <1>3, <1>4, <1>5, <1>6, <1>7, <1>8, <1>9, <1>10, <1>11, <1>12,
    <1>13, <1>14, <1>15, <1>16, <1>17, <1>18, <1>19, <1>20, <1>21, <1>22, <1>23,
    <1>24, <1>25, <1>26, <1>27, <1>28, <1>29, <1>30
       DEF Next, Calls, Create, Join, Detach, Exit, Reaper

\* Ids are unique in the registry (IdIsFree), and what exists is registered.
LEMMA RegistryStep ==
    ASSUME IInv, TypeInv', Next,
           NEW z \in Workers, NEW x \in Workers
    PROVE  RegistryAt(z, x)'
  <1>1. ASSUME NEW t \in Threads, StartThread(t)
        PROVE  RegistryAt(z, x)'
    BY <1>1, StartThreadEffect, ConstantsAssumption
       DEF IInv, RegistryInv, RegistryAt, CreateInv, CreateAt, Creating,
       CreatePCs, Threads
  <1> USE ConstantsAssumption
          DEF IInv, CallInv, CreateInv, RegistryInv, ReaperInv, CallAt, CreateAt,
          OneCreator, RegistryAt, ReaperAt, ReaperFinds, TypeInv, TypeOK, CallPCs,
          CreatePCs, JoinPCs, DetachPCs, ExitPCs, Threads, Go, Return, Acquire,
          Release, SendTo, ReaperGo, callVars, controlVars, registryVars,
          reaperVars, handleVars, Caller, Creating
  <1>2. ASSUME NEW t \in Threads, NEW w \in Workers, ThreadCreate(t, w)
        PROVE  RegistryAt(z, x)'
    BY <1>2 DEF ThreadCreate
  <1>3. ASSUME NEW t \in Threads, NEW w \in Workers, ThreadJoin(t, w)
        PROVE  RegistryAt(z, x)'
    BY <1>3 DEF ThreadJoin, MayCall, Left
  <1>4. ASSUME NEW t \in Threads, NEW w \in Workers, ThreadDetach(t, w)
        PROVE  RegistryAt(z, x)'
    BY <1>4 DEF ThreadDetach, MayCall, Left
  <1>5. ASSUME NEW t \in Threads, RegisterThread(t)
        PROVE  RegistryAt(z, x)'
    BY <1>5 DEF RegisterThread, IdIsFree
  <1>6. ASSUME NEW t \in Threads, StartThreadFails(t)
        PROVE  RegistryAt(z, x)'
    BY <1>6 DEF StartThreadFails
  <1>7. ASSUME NEW t \in Threads, UndoCreate(t)
        PROVE  RegistryAt(z, x)'
    BY <1>7 DEF UndoCreate
  <1>8. ASSUME NEW t \in Threads, StoreHandle(t)
        PROVE  RegistryAt(z, x)'
    BY <1>8 DEF StoreHandle
  <1>9. ASSUME NEW t \in Threads, JoinSuspends(t)
        PROVE  RegistryAt(z, x)'
    BY <1>9 DEF JoinSuspends
  <1>10. ASSUME NEW t \in Threads, JoinGetCompletion(t)
        PROVE  RegistryAt(z, x)'
    BY <1>10 DEF JoinGetCompletion
  <1>11. ASSUME NEW t \in Threads, JoinDeleted(t)
        PROVE  RegistryAt(z, x)'
    BY <1>11 DEF JoinDeleted
  <1>12. ASSUME NEW t \in Threads, JoinLock(t)
        PROVE  RegistryAt(z, x)'
    BY <1>12 DEF JoinLock
  <1>13. ASSUME NEW t \in Threads, JoinRefused(t)
        PROVE  RegistryAt(z, x)'
    BY <1>13 DEF JoinRefused
  <1>14. ASSUME NEW t \in Threads, JoinClaims(t)
        PROVE  RegistryAt(z, x)'
    BY <1>14 DEF JoinClaims
  <1>15. ASSUME NEW t \in Threads, JoinEnqueues(t)
        PROVE  RegistryAt(z, x)'
    BY <1>15 DEF JoinEnqueues
  <1>16. ASSUME NEW t \in Threads, JoinAcknowledged(t)
        PROVE  RegistryAt(z, x)'
    BY <1>16 DEF JoinAcknowledged
  <1>17. ASSUME NEW t \in Threads, DetachLock(t)
        PROVE  RegistryAt(z, x)'
    BY <1>17 DEF DetachLock
  <1>18. ASSUME NEW t \in Threads, DetachRefused(t)
        PROVE  RegistryAt(z, x)'
    BY <1>18 DEF DetachRefused
  <1>19. ASSUME NEW t \in Threads, DetachRunning(t)
        PROVE  RegistryAt(z, x)'
    BY <1>19 DEF DetachRunning
  <1>20. ASSUME NEW t \in Threads, DetachFinished(t)
        PROVE  RegistryAt(z, x)'
    BY <1>20 DEF DetachFinished
  <1>21. ASSUME NEW t \in Threads, DetachEnqueues(t)
        PROVE  RegistryAt(z, x)'
    BY <1>21 DEF DetachEnqueues
  <1>22. ASSUME NEW w \in Workers, EntryFind(w)
        PROVE  RegistryAt(z, x)'
    BY <1>22 DEF EntryFind
  <1>23. ASSUME NEW w \in Workers, EntryReturns(w)
        PROVE  RegistryAt(z, x)'
    BY <1>23 DEF EntryReturns
  <1>24. ASSUME NEW w \in Workers, CallbacksReturn(w)
        PROVE  RegistryAt(z, x)'
    BY <1>24 DEF CallbacksReturn
  <1>25. ASSUME NEW w \in Workers, ExitLock(w)
        PROVE  RegistryAt(z, x)'
    BY <1>25 DEF ExitLock
  <1>26. ASSUME NEW w \in Workers, PublishFinished(w)
        PROVE  RegistryAt(z, x)'
    BY <1>26 DEF PublishFinished
  <1>27. ASSUME NEW w \in Workers, PutCompletion(w)
        PROVE  RegistryAt(z, x)'
    BY <1>27 DEF PutCompletion
  <1>28. ASSUME NEW w \in Workers, ExitEnqueues(w)
        PROVE  RegistryAt(z, x)'
    BY <1>28 DEF ExitEnqueues
  <1>29. ASSUME NEW w \in Workers, ThreadReturns(w)
        PROVE  RegistryAt(z, x)'
    BY <1>29 DEF ThreadReturns
  <1>30. CASE ReaperReceive
    BY <1>30 DEF ReaperReceive
  <1>31. CASE ReaperFind
    BY <1>31 DEF ReaperFind
  <1>32. CASE ReaperPoll
    BY <1>32 DEF ReaperPoll
  <1>33. CASE ReaperDelete
    BY <1>33 DEF ReaperDelete
  <1>34. CASE ReaperUnregister
    BY <1>34 DEF ReaperUnregister
  <1>35. CASE ReaperFree
    BY <1>35 DEF ReaperFree
  <1>36. CASE ReaperAcknowledge
    BY <1>36 DEF ReaperAcknowledge
  <1> HIDE DEF RegistryAt, IInv, TypeInv
  <1> QED
    BY <1>1, <1>2, <1>3, <1>4, <1>5, <1>6, <1>7, <1>8, <1>9, <1>10, <1>11, <1>12,
    <1>13, <1>14, <1>15, <1>16, <1>17, <1>18, <1>19, <1>20, <1>21, <1>22, <1>23,
    <1>24, <1>25, <1>26, <1>27, <1>28, <1>29, <1>30, <1>31, <1>32, <1>33, <1>34,
    <1>35, <1>36
       DEF Next, Calls, Create, Join, Detach, Exit, Reaper

\* The lifecycle mutex excludes.
LEMMA LockStep ==
    ASSUME IInv, TypeInv', Next,
           NEW y \in Threads, NEW x \in Workers
    PROVE  LockAt(y, x)'
  <1>1. ASSUME NEW t \in Threads, StartThread(t)
        PROVE  LockAt(y, x)'
    BY <1>1, StartThreadEffect, ConstantsAssumption
       DEF IInv, CallInv, CallAt, LockInv, LockAt, Threads
  <1>2. ASSUME NEW t \in Threads, JoinGetCompletion(t)
        PROVE  LockAt(y, x)'
    <2>1. /\ pc[t] \in {"j_get", "j_wait"} /\ pc' = [pc EXCEPT ![t] = "j_lock"]
          /\ UNCHANGED <<target, lifecycle_mutex>>
      BY <1>2 DEF JoinGetCompletion, Go
    <2>2. pc \in [Threads -> PCs] /\ x \in Threads /\ LockAt(y, x)
      BY DEF IInv, TypeInv, TypeOK, LockInv, Threads
    <2> QED
      BY <2>1, <2>2 DEF LockAt
  <1>3. ASSUME NEW t \in Threads, JoinDeleted(t)
        PROVE  LockAt(y, x)'
    <2>1. /\ pc[t] = "j_wait" /\ pc' = [pc EXCEPT ![t] = "user"]
          /\ target' = [target EXCEPT ![t] = None]
          /\ UNCHANGED lifecycle_mutex
      BY <1>3 DEF JoinDeleted, Return, controlVars
    <2>2. /\ pc \in [Threads -> PCs] /\ target \in [Threads -> Workers \union {None}]
          /\ x \in Threads /\ LockAt(y, x)
      BY DEF IInv, TypeInv, TypeOK, LockInv, Threads
    <2> QED
      BY <2>1, <2>2 DEF LockAt
  <1>4. CASE Reaper
    BY <1>4, ReaperFrame
       DEF IInv, CallInv, LockInv, CreateInv, CallAt, LockAt, CreateAt,
       OneCreator, Caller, Creating
  <1> USE ConstantsAssumption
          DEF IInv, CallInv, LockInv, CreateInv, CallAt, LockAt, CreateAt,
          OneCreator, TypeInv, TypeOK, CallPCs, CreatePCs, JoinPCs, DetachPCs,
          ExitPCs, Threads, Go, Return, Acquire, Release, SendTo, ReaperGo,
          callVars, controlVars, registryVars, reaperVars, handleVars, Caller,
          Creating
  <1>5. ASSUME NEW t \in Threads, NEW w \in Workers, ThreadCreate(t, w)
        PROVE  LockAt(y, x)'
    BY <1>5 DEF ThreadCreate
  <1>6. ASSUME NEW t \in Threads, NEW w \in Workers, ThreadJoin(t, w)
        PROVE  LockAt(y, x)'
    BY <1>6 DEF ThreadJoin, MayCall, Left
  <1>7. ASSUME NEW t \in Threads, NEW w \in Workers, ThreadDetach(t, w)
        PROVE  LockAt(y, x)'
    BY <1>7 DEF ThreadDetach, MayCall, Left
  <1>8. ASSUME NEW t \in Threads, RegisterThread(t)
        PROVE  LockAt(y, x)'
    BY <1>8 DEF RegisterThread, IdIsFree
  <1>9. ASSUME NEW t \in Threads, StartThreadFails(t)
        PROVE  LockAt(y, x)'
    BY <1>9 DEF StartThreadFails
  <1>10. ASSUME NEW t \in Threads, UndoCreate(t)
        PROVE  LockAt(y, x)'
    BY <1>10 DEF UndoCreate
  <1>11. ASSUME NEW t \in Threads, StoreHandle(t)
        PROVE  LockAt(y, x)'
    BY <1>11 DEF StoreHandle
  <1>12. ASSUME NEW t \in Threads, JoinSuspends(t)
        PROVE  LockAt(y, x)'
    BY <1>12 DEF JoinSuspends
  <1>13. ASSUME NEW t \in Threads, JoinLock(t)
        PROVE  LockAt(y, x)'
    BY <1>13 DEF JoinLock
  <1>14. ASSUME NEW t \in Threads, JoinRefused(t)
        PROVE  LockAt(y, x)'
    BY <1>14 DEF JoinRefused
  <1>15. ASSUME NEW t \in Threads, JoinClaims(t)
        PROVE  LockAt(y, x)'
    BY <1>15 DEF JoinClaims
  <1>16. ASSUME NEW t \in Threads, JoinEnqueues(t)
        PROVE  LockAt(y, x)'
    BY <1>16 DEF JoinEnqueues
  <1>17. ASSUME NEW t \in Threads, JoinAcknowledged(t)
        PROVE  LockAt(y, x)'
    BY <1>17 DEF JoinAcknowledged
  <1>18. ASSUME NEW t \in Threads, DetachLock(t)
        PROVE  LockAt(y, x)'
    BY <1>18 DEF DetachLock
  <1>19. ASSUME NEW t \in Threads, DetachRefused(t)
        PROVE  LockAt(y, x)'
    BY <1>19 DEF DetachRefused
  <1>20. ASSUME NEW t \in Threads, DetachRunning(t)
        PROVE  LockAt(y, x)'
    BY <1>20 DEF DetachRunning
  <1>21. ASSUME NEW t \in Threads, DetachFinished(t)
        PROVE  LockAt(y, x)'
    BY <1>21 DEF DetachFinished
  <1>22. ASSUME NEW t \in Threads, DetachEnqueues(t)
        PROVE  LockAt(y, x)'
    BY <1>22 DEF DetachEnqueues
  <1>23. ASSUME NEW w \in Workers, EntryFind(w)
        PROVE  LockAt(y, x)'
    BY <1>23 DEF EntryFind
  <1>24. ASSUME NEW w \in Workers, EntryReturns(w)
        PROVE  LockAt(y, x)'
    BY <1>24 DEF EntryReturns
  <1>25. ASSUME NEW w \in Workers, CallbacksReturn(w)
        PROVE  LockAt(y, x)'
    BY <1>25 DEF CallbacksReturn
  <1>26. ASSUME NEW w \in Workers, ExitLock(w)
        PROVE  LockAt(y, x)'
    BY <1>26 DEF ExitLock
  <1>27. ASSUME NEW w \in Workers, PublishFinished(w)
        PROVE  LockAt(y, x)'
    BY <1>27 DEF PublishFinished
  <1>28. ASSUME NEW w \in Workers, PutCompletion(w)
        PROVE  LockAt(y, x)'
    BY <1>28 DEF PutCompletion
  <1>29. ASSUME NEW w \in Workers, ExitEnqueues(w)
        PROVE  LockAt(y, x)'
    BY <1>29 DEF ExitEnqueues
  <1>30. ASSUME NEW w \in Workers, ThreadReturns(w)
        PROVE  LockAt(y, x)'
    BY <1>30 DEF ThreadReturns
  <1> HIDE DEF LockAt, IInv, TypeInv
  <1> QED
    BY <1>1, <1>2, <1>3, <1>4, <1>5, <1>6, <1>7, <1>8, <1>9, <1>10, <1>11, <1>12,
    <1>13, <1>14, <1>15, <1>16, <1>17, <1>18, <1>19, <1>20, <1>21, <1>22, <1>23,
    <1>24, <1>25, <1>26, <1>27, <1>28, <1>29, <1>30
       DEF Next, Calls, Create, Join, Detach, Exit, Reaper

\* Flags and program counters agree.
LEMMA FlagStep ==
    ASSUME IInv, TypeInv', Next,
           NEW y \in Threads, NEW x \in Workers
    PROVE  FlagAt(y, x)'
  <1>1. ASSUME NEW t \in Threads, StartThread(t)
        PROVE  FlagAt(y, x)'
    BY <1>1, StartThreadEffect, ConstantsAssumption
       DEF IInv, CallInv, CallAt, FlagInv, FlagAt, Threads
  <1>2. CASE Reaper
    BY <1>2, ReaperFrame
       DEF IInv, CallInv, CreateInv, FlagInv, LockInv, CallAt, CreateAt,
       OneCreator, FlagAt, LockAt, Caller, Creating
  <1> USE ConstantsAssumption
          DEF IInv, CallInv, CreateInv, FlagInv, LockInv, CallAt, CreateAt,
          OneCreator, FlagAt, LockAt, TypeInv, TypeOK, CallPCs, CreatePCs,
          JoinPCs, DetachPCs, ExitPCs, Threads, Go, Return, Acquire, Release,
          SendTo, ReaperGo, callVars, controlVars, registryVars, reaperVars,
          handleVars, Caller, Creating
  <1>3. ASSUME NEW t \in Threads, NEW w \in Workers, ThreadCreate(t, w)
        PROVE  FlagAt(y, x)'
    BY <1>3 DEF ThreadCreate
  <1>4. ASSUME NEW t \in Threads, NEW w \in Workers, ThreadJoin(t, w)
        PROVE  FlagAt(y, x)'
    BY <1>4 DEF ThreadJoin, MayCall, Left
  <1>5. ASSUME NEW t \in Threads, NEW w \in Workers, ThreadDetach(t, w)
        PROVE  FlagAt(y, x)'
    BY <1>5 DEF ThreadDetach, MayCall, Left
  <1>6. ASSUME NEW t \in Threads, RegisterThread(t)
        PROVE  FlagAt(y, x)'
    BY <1>6 DEF RegisterThread, IdIsFree
  <1>7. ASSUME NEW t \in Threads, StartThreadFails(t)
        PROVE  FlagAt(y, x)'
    BY <1>7 DEF StartThreadFails
  <1>8. ASSUME NEW t \in Threads, UndoCreate(t)
        PROVE  FlagAt(y, x)'
    BY <1>8 DEF UndoCreate
  <1>9. ASSUME NEW t \in Threads, StoreHandle(t)
        PROVE  FlagAt(y, x)'
    BY <1>9 DEF StoreHandle
  <1>10. ASSUME NEW t \in Threads, JoinSuspends(t)
        PROVE  FlagAt(y, x)'
    BY <1>10 DEF JoinSuspends
  <1>11. ASSUME NEW t \in Threads, JoinGetCompletion(t)
        PROVE  FlagAt(y, x)'
    BY <1>11 DEF JoinGetCompletion
  <1>12. ASSUME NEW t \in Threads, JoinDeleted(t)
        PROVE  FlagAt(y, x)'
    BY <1>12 DEF JoinDeleted
  <1>13. ASSUME NEW t \in Threads, JoinLock(t)
        PROVE  FlagAt(y, x)'
    BY <1>13 DEF JoinLock
  <1>14. ASSUME NEW t \in Threads, JoinRefused(t)
        PROVE  FlagAt(y, x)'
    BY <1>14 DEF JoinRefused
  <1>15. ASSUME NEW t \in Threads, JoinClaims(t)
        PROVE  FlagAt(y, x)'
    BY <1>15 DEF JoinClaims
  <1>16. ASSUME NEW t \in Threads, JoinEnqueues(t)
        PROVE  FlagAt(y, x)'
    BY <1>16 DEF JoinEnqueues
  <1>17. ASSUME NEW t \in Threads, JoinAcknowledged(t)
        PROVE  FlagAt(y, x)'
    BY <1>17 DEF JoinAcknowledged
  <1>18. ASSUME NEW t \in Threads, DetachLock(t)
        PROVE  FlagAt(y, x)'
    BY <1>18 DEF DetachLock
  <1>19. ASSUME NEW t \in Threads, DetachRefused(t)
        PROVE  FlagAt(y, x)'
    BY <1>19 DEF DetachRefused
  <1>20. ASSUME NEW t \in Threads, DetachRunning(t)
        PROVE  FlagAt(y, x)'
    BY <1>20 DEF DetachRunning
  <1>21. ASSUME NEW t \in Threads, DetachFinished(t)
        PROVE  FlagAt(y, x)'
    BY <1>21 DEF DetachFinished
  <1>22. ASSUME NEW t \in Threads, DetachEnqueues(t)
        PROVE  FlagAt(y, x)'
    BY <1>22 DEF DetachEnqueues
  <1>23. ASSUME NEW w \in Workers, EntryFind(w)
        PROVE  FlagAt(y, x)'
    BY <1>23 DEF EntryFind
  <1>24. ASSUME NEW w \in Workers, EntryReturns(w)
        PROVE  FlagAt(y, x)'
    BY <1>24 DEF EntryReturns
  <1>25. ASSUME NEW w \in Workers, CallbacksReturn(w)
        PROVE  FlagAt(y, x)'
    BY <1>25 DEF CallbacksReturn
  <1>26. ASSUME NEW w \in Workers, ExitLock(w)
        PROVE  FlagAt(y, x)'
    BY <1>26 DEF ExitLock
  <1>27. ASSUME NEW w \in Workers, PublishFinished(w)
        PROVE  FlagAt(y, x)'
    BY <1>27 DEF PublishFinished
  <1>28. ASSUME NEW w \in Workers, PutCompletion(w)
        PROVE  FlagAt(y, x)'
    BY <1>28 DEF PutCompletion
  <1>29. ASSUME NEW w \in Workers, ExitEnqueues(w)
        PROVE  FlagAt(y, x)'
    BY <1>29 DEF ExitEnqueues
  <1>30. ASSUME NEW w \in Workers, ThreadReturns(w)
        PROVE  FlagAt(y, x)'
    BY <1>30 DEF ThreadReturns
  <1> HIDE DEF FlagAt, IInv, TypeInv
  <1> QED
    BY <1>1, <1>2, <1>3, <1>4, <1>5, <1>6, <1>7, <1>8, <1>9, <1>10, <1>11, <1>12,
    <1>13, <1>14, <1>15, <1>16, <1>17, <1>18, <1>19, <1>20, <1>21, <1>22, <1>23,
    <1>24, <1>25, <1>26, <1>27, <1>28, <1>29, <1>30
       DEF Next, Calls, Create, Join, Detach, Exit, Reaper

\* The only user of a handle has not claimed the cleanup before it says so.
LEMMA OwnedStep ==
    ASSUME IInv, TypeInv', Next,
           NEW y \in Threads, NEW x \in Workers
    PROVE  OwnedAt(y, x)'
  <1>1. ASSUME NEW t \in Threads, StartThread(t)
        PROVE  OwnedAt(y, x)'
    BY <1>1, StartThreadEffect, ConstantsAssumption
       DEF IInv, CallInv, CallAt, CreateInv, CreateAt, OwnedInv, OwnedAt, User,
       Left, Caller, Early, Claimed, ExitPCs, JoinPCs, DetachPCs, Threads
  <1> USE ConstantsAssumption
          DEF IInv, CallInv, CreateInv, OwnedInv, FlagInv, CallAt, CreateAt,
          OneCreator, OwnedAt, FlagAt, TypeInv, TypeOK, CallPCs, CreatePCs,
          JoinPCs, DetachPCs, ExitPCs, Threads, Go, Return, Acquire, Release,
          SendTo, ReaperGo, callVars, controlVars, registryVars, reaperVars,
          handleVars, Caller, Creating, User, Left, Early, Claimed
  <1>2. ASSUME NEW t \in Threads, NEW w \in Workers, ThreadCreate(t, w)
        PROVE  OwnedAt(y, x)'
    BY <1>2 DEF ThreadCreate
  <1>3. ASSUME NEW t \in Threads, NEW w \in Workers, ThreadJoin(t, w)
        PROVE  OwnedAt(y, x)'
    BY <1>3 DEF ThreadJoin, MayCall
  <1>4. ASSUME NEW t \in Threads, NEW w \in Workers, ThreadDetach(t, w)
        PROVE  OwnedAt(y, x)'
    BY SMTT(30), <1>4 DEF ThreadDetach, MayCall
  <1>5. ASSUME NEW t \in Threads, RegisterThread(t)
        PROVE  OwnedAt(y, x)'
    BY <1>5 DEF RegisterThread, IdIsFree
  <1>6. ASSUME NEW t \in Threads, StartThreadFails(t)
        PROVE  OwnedAt(y, x)'
    BY <1>6 DEF StartThreadFails
  <1>7. ASSUME NEW t \in Threads, UndoCreate(t)
        PROVE  OwnedAt(y, x)'
    BY <1>7 DEF UndoCreate
  <1>8. ASSUME NEW t \in Threads, StoreHandle(t)
        PROVE  OwnedAt(y, x)'
    BY <1>8 DEF StoreHandle
  <1>9. ASSUME NEW t \in Threads, JoinSuspends(t)
        PROVE  OwnedAt(y, x)'
    BY <1>9 DEF JoinSuspends
  <1>10. ASSUME NEW t \in Threads, JoinGetCompletion(t)
        PROVE  OwnedAt(y, x)'
    BY <1>10 DEF JoinGetCompletion
  <1>11. ASSUME NEW t \in Threads, JoinDeleted(t)
        PROVE  OwnedAt(y, x)'
    BY <1>11 DEF JoinDeleted
  <1>12. ASSUME NEW t \in Threads, JoinLock(t)
        PROVE  OwnedAt(y, x)'
    BY <1>12 DEF JoinLock
  <1>13. ASSUME NEW t \in Threads, JoinRefused(t)
        PROVE  OwnedAt(y, x)'
    BY <1>13 DEF JoinRefused
  <1>14. ASSUME NEW t \in Threads, JoinClaims(t)
        PROVE  OwnedAt(y, x)'
    BY <1>14 DEF JoinClaims
  <1>15. ASSUME NEW t \in Threads, JoinEnqueues(t)
        PROVE  OwnedAt(y, x)'
    BY <1>15 DEF JoinEnqueues
  <1>16. ASSUME NEW t \in Threads, JoinAcknowledged(t)
        PROVE  OwnedAt(y, x)'
    BY <1>16 DEF JoinAcknowledged
  <1>17. ASSUME NEW t \in Threads, DetachLock(t)
        PROVE  OwnedAt(y, x)'
    BY <1>17 DEF DetachLock
  <1>18. ASSUME NEW t \in Threads, DetachRefused(t)
        PROVE  OwnedAt(y, x)'
    BY <1>18 DEF DetachRefused
  <1>19. ASSUME NEW t \in Threads, DetachRunning(t)
        PROVE  OwnedAt(y, x)'
    BY <1>19 DEF DetachRunning
  <1>20. ASSUME NEW t \in Threads, DetachFinished(t)
        PROVE  OwnedAt(y, x)'
    BY <1>20 DEF DetachFinished
  <1>21. ASSUME NEW t \in Threads, DetachEnqueues(t)
        PROVE  OwnedAt(y, x)'
    BY <1>21 DEF DetachEnqueues
  <1>22. ASSUME NEW w \in Workers, EntryFind(w)
        PROVE  OwnedAt(y, x)'
    BY <1>22 DEF EntryFind
  <1>23. ASSUME NEW w \in Workers, EntryReturns(w)
        PROVE  OwnedAt(y, x)'
    BY <1>23 DEF EntryReturns
  <1>24. ASSUME NEW w \in Workers, CallbacksReturn(w)
        PROVE  OwnedAt(y, x)'
    BY <1>24 DEF CallbacksReturn
  <1>25. ASSUME NEW w \in Workers, ExitLock(w)
        PROVE  OwnedAt(y, x)'
    BY <1>25 DEF ExitLock
  <1>26. ASSUME NEW w \in Workers, PublishFinished(w)
        PROVE  OwnedAt(y, x)'
    BY <1>26 DEF PublishFinished
  <1>27. ASSUME NEW w \in Workers, PutCompletion(w)
        PROVE  OwnedAt(y, x)'
    BY <1>27 DEF PutCompletion
  <1>28. ASSUME NEW w \in Workers, ExitEnqueues(w)
        PROVE  OwnedAt(y, x)'
    BY <1>28 DEF ExitEnqueues
  <1>29. ASSUME NEW w \in Workers, ThreadReturns(w)
        PROVE  OwnedAt(y, x)'
    BY <1>29 DEF ThreadReturns
  <1>30. CASE ReaperReceive
    BY <1>30 DEF ReaperReceive
  <1>31. CASE ReaperFind
    BY <1>31 DEF ReaperFind
  <1>32. CASE ReaperPoll
    BY <1>32 DEF ReaperPoll
  <1>33. CASE ReaperDelete
    BY <1>33 DEF ReaperDelete
  <1>34. CASE ReaperUnregister
    BY <1>34 DEF ReaperUnregister
  <1>35. CASE ReaperFree
    BY <1>35 DEF ReaperFree
  <1>36. CASE ReaperAcknowledge
    BY <1>36 DEF ReaperAcknowledge
  <1> HIDE DEF OwnedAt, IInv, TypeInv
  <1> QED
    BY <1>1, <1>2, <1>3, <1>4, <1>5, <1>6, <1>7, <1>8, <1>9, <1>10, <1>11, <1>12,
    <1>13, <1>14, <1>15, <1>16, <1>17, <1>18, <1>19, <1>20, <1>21, <1>22, <1>23,
    <1>24, <1>25, <1>26, <1>27, <1>28, <1>29, <1>30, <1>31, <1>32, <1>33, <1>34,
    <1>35, <1>36
       DEF Next, Calls, Create, Join, Detach, Exit, Reaper

-----------------------------------------------------------------------------
(* Requests.                                                                *)

LEMMA AppendIndex ==
    ASSUME NEW S, NEW q \in Seq(S), NEW e \in S
    PROVE  /\ Len(Append(q, e)) = Len(q) + 1 /\ Len(q) \in Nat
           /\ \A i \in 1..Len(q) : Append(q, e)[i] = q[i]
           /\ Append(q, e)[Len(q) + 1] = e
  OBVIOUS

\* The request that enqueue_cleanup sends for v is the only one for v, and
\* changes nothing for the others.
LEMMA SendKeeps ==
    ASSUME IInv, NEW s \in Threads, NEW v \in Workers, Sender(s, v),
           SendTo(registry_id[v]), UNCHANGED <<registry, registry_id>>
    PROVE  /\ \A x \in registry : InQueue(x)' => InQueue(x) \/ x = v
           /\ \A i, j \in (1..Len(cleanup_queue))' : QueueAt(i, j)'
  <1> DEFINE n == Len(cleanup_queue)
  <1>1. /\ n \in Nat /\ Len(cleanup_queue') = n + 1
        /\ \A i \in 1..n : cleanup_queue'[i] = cleanup_queue[i]
        /\ cleanup_queue'[n + 1] = registry_id[v]
    <2>1. cleanup_queue \in Seq(0..MaxId) /\ registry_id[v] \in 0..MaxId
      BY DEF IInv, TypeInv, TypeOK
    <2> QED
      BY <2>1, AppendIndex DEF SendTo
  <1>2. v \in registry /\ ~InQueue(v)
    BY DEF IInv, RequestInv, RequestAt
  <1>3. \A x \in registry : registry_id[x] = registry_id[v] => x = v
    BY <1>2 DEF IInv, RegistryInv, RegistryAt, TypeInv, TypeOK
  <1>4. \A i \in 1..(n + 1) : i \in 1..n \/ i = n + 1
    BY <1>1
  <1>5. \A i \in 1..n : cleanup_queue[i] # registry_id[v]
    BY <1>2 DEF InQueue
  <1>6. ASSUME NEW x \in registry, InQueue(x)'
        PROVE  InQueue(x) \/ x = v
    BY <1>6, <1>1, <1>3, <1>4 DEF InQueue
  <1>7. ASSUME NEW i \in 1..(n + 1), NEW j \in 1..(n + 1)
        PROVE  QueueAt(i, j)'
    <2>1. CASE i \in 1..n /\ j \in 1..n
      BY <2>1, <1>1 DEF IInv, RequestInv, QueueAt
    <2>2. CASE i \in 1..n /\ j = n + 1
      BY <2>2, <1>1, <1>5 DEF IInv, RequestInv, QueueAt
    <2>3. CASE i = n + 1
      BY <2>3, <1>1, <1>2, <1>4, <1>5 DEF QueueAt
    <2> QED
      BY <1>4, <2>1, <2>2, <2>3
  <1> QED
    BY <1>1, <1>6, <1>7

\* find_thread gives the reaper the control that its message was sent for.
FoundControl(v) ==
    /\ reaper_message = registry_id[v] /\ reaper_pc = "find"
    /\ cleanup_queued[v] /\ memory[v] = "allocated"
    /\ reaper_control' = v /\ reaper_pc' = "poll"
    /\ UNCHANGED <<pc, target, enqueue, memory, registry, registry_id, cleanup_queued,
                   cleanup_queue>>

LEMMA ReaperFindEffect ==
    ASSUME IInv, ReaperFind
    PROVE  \E v \in registry : FoundControl(v)
  <1>1. PICK v \in registry : /\ reaper_message = registry_id[v]
                              /\ cleanup_queued[v] /\ memory[v] = "allocated"
    BY DEF IInv, ReaperInv, ReaperFinds, ReaperFind
  <1>2. registry \in SUBSET Workers /\ None \notin Workers
    BY ConstantsAssumption DEF IInv, TypeInv, TypeOK, Threads
  <1>3. /\ FindThread(reaper_message) \in registry
        /\ registry_id[FindThread(reaper_message)] = reaper_message
    BY <1>2, FindThreadResult DEF ReaperFind
  <1>4. FindThread(reaper_message) = v
    BY <1>1, <1>2, <1>3 DEF IInv, RegistryInv, RegistryAt
  <1> QED
    BY <1>1, <1>4
       DEF FoundControl, ReaperFind, ReaperGo, callVars, controlVars, registryVars

-----------------------------------------------------------------------------
(* The steps keep the invariant.                                            *)

\* A cleanup is requested by whoever set cleanup_queued, and by nobody else.
LEMMA RequestStep ==
    ASSUME IInv, TypeInv', Next,
           NEW y \in Threads, NEW x \in Workers
    PROVE  RequestAt(y, x)'
  <1>1. ASSUME NEW t \in Threads, StartThread(t)
        PROVE  RequestAt(y, x)'
    BY <1>1, StartThreadEffect, ConstantsAssumption
       DEF IInv, RequestInv, RequestAt, Sender, InQueue, ReaperHas, Threads
  <1>2. ASSUME NEW t \in Threads, JoinEnqueues(t)
        PROVE  RequestAt(y, x)'
    <2> DEFINE v == target[t]
    <2>1. v \in Workers /\ Sender(t, v)
      BY <1>2 DEF JoinEnqueues, IInv, TypeInv, CallPCs, JoinPCs, DetachPCs, Sender
    <2>2. /\ SendTo(registry_id[v])
          /\ UNCHANGED <<registry, registry_id, memory, cleanup_queued, enqueue,
                         reaper_pc, reaper_message, reaper_control>>
      BY <1>2 DEF JoinEnqueues, controlVars, registryVars, reaperVars
    <2>3. /\ pc'[t] \in {"j_ack", "user"}
          /\ y # t => pc'[y] = pc[y] /\ target'[y] = target[y]
      BY <1>2 DEF JoinEnqueues, Go, Return, IInv, TypeInv, TypeOK
    <2>4. Sender(y, x)' => Sender(y, x) /\ y # t
      BY <2>2, <2>3 DEF Sender
    <2>5. Sender(y, x)' => x # v
      BY <2>1, <2>4 DEF IInv, RequestInv, OneSender
    <2>6. ReaperHas(x)' <=> ReaperHas(x)
      BY <2>2 DEF ReaperHas
    <2>7. x \in registry => (InQueue(x)' => InQueue(x) \/ x = v)
      BY <2>1, <2>2, SendKeeps
    <2>8. RequestAt(y, x) /\ RequestAt(t, v)
      BY <2>1 DEF IInv, RequestInv
    <2> QED
      BY <2>1, <2>2, <2>4, <2>5, <2>6, <2>7, <2>8 DEF RequestAt
  <1>3. ASSUME NEW t \in Threads, DetachEnqueues(t)
        PROVE  RequestAt(y, x)'
    <2> DEFINE v == target[t]
    <2>1. v \in Workers /\ Sender(t, v)
      BY <1>3 DEF DetachEnqueues, IInv, TypeInv, CallPCs, JoinPCs, DetachPCs, Sender
    <2>2. /\ SendTo(registry_id[v])
          /\ UNCHANGED <<registry, registry_id, memory, cleanup_queued, enqueue,
                         reaper_pc, reaper_message, reaper_control>>
      BY <1>3 DEF DetachEnqueues, controlVars, registryVars, reaperVars
    <2>3. /\ pc'[t] \in {"j_ack", "user"}
          /\ y # t => pc'[y] = pc[y] /\ target'[y] = target[y]
      BY <1>3 DEF DetachEnqueues, Go, Return, IInv, TypeInv, TypeOK
    <2>4. Sender(y, x)' => Sender(y, x) /\ y # t
      BY <2>2, <2>3 DEF Sender
    <2>5. Sender(y, x)' => x # v
      BY <2>1, <2>4 DEF IInv, RequestInv, OneSender
    <2>6. ReaperHas(x)' <=> ReaperHas(x)
      BY <2>2 DEF ReaperHas
    <2>7. x \in registry => (InQueue(x)' => InQueue(x) \/ x = v)
      BY <2>1, <2>2, SendKeeps
    <2>8. RequestAt(y, x) /\ RequestAt(t, v)
      BY <2>1 DEF IInv, RequestInv
    <2> QED
      BY <2>1, <2>2, <2>4, <2>5, <2>6, <2>7, <2>8 DEF RequestAt
  <1>4. CASE ReaperFind
    <2>1. PICK v \in registry : FoundControl(v)
      BY <1>4, ReaperFindEffect
    <2>2. ReaperHas(x)' => ReaperHas(x)
      BY <2>1 DEF FoundControl, ReaperHas
    <2>3. (Sender(y, x)' <=> Sender(y, x)) /\ (InQueue(x)' <=> InQueue(x))
      BY <2>1 DEF FoundControl, Sender, InQueue
    <2> QED
      BY <2>1, <2>2, <2>3 DEF FoundControl, IInv, RequestInv, RequestAt
  <1>5. ASSUME NEW w \in Workers, ExitEnqueues(w)
        PROVE  RequestAt(y, x)'
    <2>1. w \in Threads /\ Sender(w, w) /\ pc[w] = "x_send"
      BY <1>5 DEF ExitEnqueues, IInv, FlagInv, FlagAt, Sender, Threads
    <2>2. /\ SendTo(registry_id[w])
          /\ UNCHANGED <<registry, registry_id, memory, cleanup_queued, enqueue,
                         target, reaper_pc, reaper_message, reaper_control>>
      BY <1>5 DEF ExitEnqueues, controlVars, registryVars, reaperVars
    <2>3. pc'[w] = "returning" /\ (y # w => pc'[y] = pc[y])
      BY <1>5, <2>1 DEF ExitEnqueues, Go, IInv, TypeInv, TypeOK
    <2>4. Sender(y, x)' => Sender(y, x) /\ y # w
      BY <2>2, <2>3 DEF Sender
    <2>5. Sender(y, x)' => x # w
      BY <2>1, <2>4 DEF IInv, RequestInv, OneSender
    <2>6. ReaperHas(x)' <=> ReaperHas(x)
      BY <2>2 DEF ReaperHas
    <2>7. x \in registry => (InQueue(x)' => InQueue(x) \/ x = w)
      BY <2>1, <2>2, SendKeeps
    <2>8. RequestAt(y, x) /\ RequestAt(w, w)
      BY <2>1 DEF IInv, RequestInv
    <2> QED
      BY <2>1, <2>2, <2>4, <2>5, <2>6, <2>7, <2>8 DEF RequestAt
  <1>6. CASE ReaperReceive
    <2>1. /\ reaper_message' = cleanup_queue[1] /\ cleanup_queue \in Seq(0..MaxId)
          /\ Len(cleanup_queue) \in Nat \ {0}
          /\ Len(cleanup_queue') = Len(cleanup_queue) - 1
          /\ \A i \in 1..Len(cleanup_queue') : cleanup_queue'[i] = cleanup_queue[i + 1]
      BY <1>6 DEF ReaperReceive, IInv, TypeInv, TypeOK
    <2>2. /\ reaper_pc = "receive" /\ reaper_pc' = "find"
          /\ UNCHANGED <<pc, target, enqueue, memory, registry, registry_id,
                         cleanup_queued>>
      BY <1>6 DEF ReaperReceive, ReaperGo, callVars, controlVars, registryVars
    <2>3. Sender(y, x)' <=> Sender(y, x)
      BY <2>2 DEF Sender
    <2>4. InQueue(x)' => InQueue(x)
      BY <2>1, <2>2 DEF InQueue
    <2>5. ReaperHas(x)' => InQueue(x)
      BY <2>1, <2>2 DEF ReaperHas, InQueue
    <2>6. ~(ReaperHas(x)' /\ InQueue(x)')
      BY <2>1, <2>2 DEF ReaperHas, InQueue, IInv, RequestInv, QueueAt
    <2>7. ~ReaperHas(x)
      BY <2>2 DEF ReaperHas
    <2> QED
      BY <2>2, <2>3, <2>4, <2>5, <2>6, <2>7 DEF IInv, RequestInv, RequestAt
  <1> USE ConstantsAssumption
          DEF IInv, CallInv, CreateInv, RegistryInv, FlagInv, RequestInv,
          ReaperInv, DeadInv, CallAt, CreateAt, OneCreator, RegistryAt, FlagAt,
          RequestAt, OneSender, QueueAt, ReaperAt, ReaperFinds, DeadAt, TypeInv,
          TypeOK, CallPCs, CreatePCs, JoinPCs, DetachPCs, ExitPCs, Threads, Go,
          Return, Acquire, Release, SendTo, ReaperGo, callVars, controlVars,
          registryVars, reaperVars, handleVars, Caller, Creating, Sender, InQueue,
          ReaperHas, Dead, Dereferences
  <1>7. ASSUME NEW t \in Threads, NEW w \in Workers, ThreadCreate(t, w)
        PROVE  RequestAt(y, x)'
    BY <1>7 DEF ThreadCreate
  <1>8. ASSUME NEW t \in Threads, NEW w \in Workers, ThreadJoin(t, w)
        PROVE  RequestAt(y, x)'
    BY <1>8 DEF ThreadJoin, MayCall, Left
  <1>9. ASSUME NEW t \in Threads, NEW w \in Workers, ThreadDetach(t, w)
        PROVE  RequestAt(y, x)'
    BY <1>9 DEF ThreadDetach, MayCall, Left
  <1>10. ASSUME NEW t \in Threads, RegisterThread(t)
        PROVE  RequestAt(y, x)'
    BY <1>10 DEF RegisterThread, IdIsFree
  <1>11. ASSUME NEW t \in Threads, StartThreadFails(t)
        PROVE  RequestAt(y, x)'
    BY SMTT(60), <1>11 DEF StartThreadFails
  <1>12. ASSUME NEW t \in Threads, UndoCreate(t)
        PROVE  RequestAt(y, x)'
    BY <1>12 DEF UndoCreate
  <1>13. ASSUME NEW t \in Threads, StoreHandle(t)
        PROVE  RequestAt(y, x)'
    BY <1>13 DEF StoreHandle
  <1>14. ASSUME NEW t \in Threads, JoinSuspends(t)
        PROVE  RequestAt(y, x)'
    BY SMTT(60), <1>14 DEF JoinSuspends
  <1>15. ASSUME NEW t \in Threads, JoinGetCompletion(t)
        PROVE  RequestAt(y, x)'
    BY <1>15 DEF JoinGetCompletion
  <1>16. ASSUME NEW t \in Threads, JoinDeleted(t)
        PROVE  RequestAt(y, x)'
    BY <1>16 DEF JoinDeleted
  <1>17. ASSUME NEW t \in Threads, JoinLock(t)
        PROVE  RequestAt(y, x)'
    BY <1>17 DEF JoinLock
  <1>18. ASSUME NEW t \in Threads, JoinRefused(t)
        PROVE  RequestAt(y, x)'
    BY <1>18 DEF JoinRefused
  <1>19. ASSUME NEW t \in Threads, JoinClaims(t)
        PROVE  RequestAt(y, x)'
    BY <1>19 DEF JoinClaims
  <1>20. ASSUME NEW t \in Threads, JoinAcknowledged(t)
        PROVE  RequestAt(y, x)'
    BY <1>20 DEF JoinAcknowledged
  <1>21. ASSUME NEW t \in Threads, DetachLock(t)
        PROVE  RequestAt(y, x)'
    BY <1>21 DEF DetachLock
  <1>22. ASSUME NEW t \in Threads, DetachRefused(t)
        PROVE  RequestAt(y, x)'
    BY <1>22 DEF DetachRefused
  <1>23. ASSUME NEW t \in Threads, DetachRunning(t)
        PROVE  RequestAt(y, x)'
    BY <1>23 DEF DetachRunning
  <1>24. ASSUME NEW t \in Threads, DetachFinished(t)
        PROVE  RequestAt(y, x)'
    BY <1>24 DEF DetachFinished
  <1>25. ASSUME NEW w \in Workers, EntryFind(w)
        PROVE  RequestAt(y, x)'
    BY SMTT(60), <1>25 DEF EntryFind
  <1>26. ASSUME NEW w \in Workers, EntryReturns(w)
        PROVE  RequestAt(y, x)'
    BY SMTT(60), <1>26 DEF EntryReturns
  <1>27. ASSUME NEW w \in Workers, CallbacksReturn(w)
        PROVE  RequestAt(y, x)'
    BY SMTT(60), <1>27 DEF CallbacksReturn
  <1>28. ASSUME NEW w \in Workers, ExitLock(w)
        PROVE  RequestAt(y, x)'
    BY <1>28 DEF ExitLock
  <1>29. ASSUME NEW w \in Workers, PublishFinished(w)
        PROVE  RequestAt(y, x)'
    BY <1>29 DEF PublishFinished
  <1>30. ASSUME NEW w \in Workers, PutCompletion(w)
        PROVE  RequestAt(y, x)'
    BY <1>30 DEF PutCompletion
  <1>31. ASSUME NEW w \in Workers, ThreadReturns(w)
        PROVE  RequestAt(y, x)'
    BY SMTT(60), <1>31 DEF ThreadReturns
  <1>32. CASE ReaperPoll
    BY SMTT(60), <1>32 DEF ReaperPoll
  <1>33. CASE ReaperDelete
    BY <1>33 DEF ReaperDelete
  <1>34. CASE ReaperUnregister
    BY <1>34 DEF ReaperUnregister
  <1>35. CASE ReaperFree
    BY <1>35 DEF ReaperFree
  <1>36. CASE ReaperAcknowledge
    BY <1>36 DEF ReaperAcknowledge
  <1> HIDE DEF RequestAt, IInv, TypeInv
  <1> QED
    BY <1>1, <1>2, <1>3, <1>4, <1>5, <1>6, <1>7, <1>8, <1>9, <1>10, <1>11, <1>12,
    <1>13, <1>14, <1>15, <1>16, <1>17, <1>18, <1>19, <1>20, <1>21, <1>22, <1>23,
    <1>24, <1>25, <1>26, <1>27, <1>28, <1>29, <1>30, <1>31, <1>32, <1>33, <1>34,
    <1>35, <1>36
       DEF Next, Calls, Create, Join, Detach, Exit, Reaper

\* A cleanup is requested by one thread.
LEMMA OneSenderStep ==
    ASSUME IInv, TypeInv', Next,
           NEW y \in Threads, NEW z \in Threads, NEW x \in Workers
    PROVE  OneSender(y, z, x)'
  <1>1. ASSUME NEW t \in Threads, StartThread(t)
        PROVE  OneSender(y, z, x)'
    BY <1>1, StartThreadEffect, ConstantsAssumption
       DEF IInv, RequestInv, OneSender, Sender, Threads
  <1>2. ASSUME NEW w \in Workers, PublishFinished(w)
        PROVE  OneSender(y, z, x)'
    <2>1. /\ pc[w] = "x_locked" /\ pc' = [pc EXCEPT ![w] = "x_put"]
          /\ enqueue' = [enqueue EXCEPT ![w] = detached[w] /\ ~cleanup_queued[w]]
          /\ UNCHANGED target
      BY <1>2 DEF PublishFinished, Go
    <2>2. ~cleanup_queued[w]
      BY <2>1 DEF IInv, FlagInv, FlagAt, Threads
    <2>3. \A u \in Threads : ~Sender(u, w)
      BY <2>2 DEF IInv, RequestInv, RequestAt
    <2>4. target[w] = None
      BY <2>1 DEF IInv, CallInv, CallAt, CallPCs, CreatePCs, JoinPCs, DetachPCs, Threads
    <2>5. \A u \in Threads, v \in Workers :
              Sender(u, v)' => (u = w /\ v = w) \/ Sender(u, v)
      BY <2>1, <2>4, ConstantsAssumption DEF IInv, TypeInv, TypeOK, Sender, Threads
    <2> QED
      BY <2>3, <2>5 DEF IInv, RequestInv, OneSender
  <1>3. CASE Reaper
    BY <1>3, ReaperFrame
       DEF IInv, CallInv, CreateInv, FlagInv, RequestInv, CallAt, CreateAt,
       OneCreator, FlagAt, RequestAt, OneSender, QueueAt, Caller, Creating,
       Sender, InQueue, ReaperHas
  <1> USE ConstantsAssumption
          DEF IInv, CallInv, CreateInv, FlagInv, RequestInv, CallAt, CreateAt,
          OneCreator, FlagAt, RequestAt, OneSender, QueueAt, TypeInv, TypeOK,
          CallPCs, CreatePCs, JoinPCs, DetachPCs, ExitPCs, Threads, Go, Return,
          Acquire, Release, SendTo, ReaperGo, callVars, controlVars, registryVars,
          reaperVars, handleVars, Caller, Creating, Sender, InQueue, ReaperHas
  <1>4. ASSUME NEW t \in Threads, NEW w \in Workers, ThreadCreate(t, w)
        PROVE  OneSender(y, z, x)'
    BY <1>4 DEF ThreadCreate
  <1>5. ASSUME NEW t \in Threads, NEW w \in Workers, ThreadJoin(t, w)
        PROVE  OneSender(y, z, x)'
    BY <1>5 DEF ThreadJoin, MayCall, Left
  <1>6. ASSUME NEW t \in Threads, NEW w \in Workers, ThreadDetach(t, w)
        PROVE  OneSender(y, z, x)'
    BY <1>6 DEF ThreadDetach, MayCall, Left
  <1>7. ASSUME NEW t \in Threads, RegisterThread(t)
        PROVE  OneSender(y, z, x)'
    BY <1>7 DEF RegisterThread, IdIsFree
  <1>8. ASSUME NEW t \in Threads, StartThreadFails(t)
        PROVE  OneSender(y, z, x)'
    BY <1>8 DEF StartThreadFails
  <1>9. ASSUME NEW t \in Threads, UndoCreate(t)
        PROVE  OneSender(y, z, x)'
    BY <1>9 DEF UndoCreate
  <1>10. ASSUME NEW t \in Threads, StoreHandle(t)
        PROVE  OneSender(y, z, x)'
    BY <1>10 DEF StoreHandle
  <1>11. ASSUME NEW t \in Threads, JoinSuspends(t)
        PROVE  OneSender(y, z, x)'
    BY <1>11 DEF JoinSuspends
  <1>12. ASSUME NEW t \in Threads, JoinGetCompletion(t)
        PROVE  OneSender(y, z, x)'
    BY <1>12 DEF JoinGetCompletion
  <1>13. ASSUME NEW t \in Threads, JoinDeleted(t)
        PROVE  OneSender(y, z, x)'
    BY <1>13 DEF JoinDeleted
  <1>14. ASSUME NEW t \in Threads, JoinLock(t)
        PROVE  OneSender(y, z, x)'
    BY <1>14 DEF JoinLock
  <1>15. ASSUME NEW t \in Threads, JoinRefused(t)
        PROVE  OneSender(y, z, x)'
    BY <1>15 DEF JoinRefused
  <1>16. ASSUME NEW t \in Threads, JoinClaims(t)
        PROVE  OneSender(y, z, x)'
    BY <1>16 DEF JoinClaims
  <1>17. ASSUME NEW t \in Threads, JoinEnqueues(t)
        PROVE  OneSender(y, z, x)'
    BY <1>17 DEF JoinEnqueues
  <1>18. ASSUME NEW t \in Threads, JoinAcknowledged(t)
        PROVE  OneSender(y, z, x)'
    BY <1>18 DEF JoinAcknowledged
  <1>19. ASSUME NEW t \in Threads, DetachLock(t)
        PROVE  OneSender(y, z, x)'
    BY <1>19 DEF DetachLock
  <1>20. ASSUME NEW t \in Threads, DetachRefused(t)
        PROVE  OneSender(y, z, x)'
    BY <1>20 DEF DetachRefused
  <1>21. ASSUME NEW t \in Threads, DetachRunning(t)
        PROVE  OneSender(y, z, x)'
    BY <1>21 DEF DetachRunning
  <1>22. ASSUME NEW t \in Threads, DetachFinished(t)
        PROVE  OneSender(y, z, x)'
    BY <1>22 DEF DetachFinished
  <1>23. ASSUME NEW t \in Threads, DetachEnqueues(t)
        PROVE  OneSender(y, z, x)'
    BY <1>23 DEF DetachEnqueues
  <1>24. ASSUME NEW w \in Workers, EntryFind(w)
        PROVE  OneSender(y, z, x)'
    BY <1>24 DEF EntryFind
  <1>25. ASSUME NEW w \in Workers, EntryReturns(w)
        PROVE  OneSender(y, z, x)'
    BY <1>25 DEF EntryReturns
  <1>26. ASSUME NEW w \in Workers, CallbacksReturn(w)
        PROVE  OneSender(y, z, x)'
    BY <1>26 DEF CallbacksReturn
  <1>27. ASSUME NEW w \in Workers, ExitLock(w)
        PROVE  OneSender(y, z, x)'
    BY <1>27 DEF ExitLock
  <1>28. ASSUME NEW w \in Workers, PutCompletion(w)
        PROVE  OneSender(y, z, x)'
    BY <1>28 DEF PutCompletion
  <1>29. ASSUME NEW w \in Workers, ExitEnqueues(w)
        PROVE  OneSender(y, z, x)'
    BY <1>29 DEF ExitEnqueues
  <1>30. ASSUME NEW w \in Workers, ThreadReturns(w)
        PROVE  OneSender(y, z, x)'
    BY <1>30 DEF ThreadReturns
  <1> HIDE DEF OneSender, IInv, TypeInv
  <1> QED
    BY <1>1, <1>2, <1>3, <1>4, <1>5, <1>6, <1>7, <1>8, <1>9, <1>10, <1>11, <1>12,
    <1>13, <1>14, <1>15, <1>16, <1>17, <1>18, <1>19, <1>20, <1>21, <1>22, <1>23,
    <1>24, <1>25, <1>26, <1>27, <1>28, <1>29, <1>30
       DEF Next, Calls, Create, Join, Detach, Exit, Reaper

\* The queue holds no request twice, and each of a registered control.
LEMMA QueueStep ==
    ASSUME IInv, TypeInv', Next,
           NEW i \in (1..Len(cleanup_queue))', NEW j \in (1..Len(cleanup_queue))'
    PROVE  QueueAt(i, j)'
  <1>1. ASSUME NEW t \in Threads, StartThread(t)
        PROVE  QueueAt(i, j)'
    BY <1>1, StartThreadEffect, ConstantsAssumption
       DEF IInv, RequestInv, QueueAt, Threads
  <1>2. ASSUME NEW t \in Threads, JoinEnqueues(t)
        PROVE  QueueAt(i, j)'
    <2>1. target[t] \in Workers /\ Sender(t, target[t])
      BY <1>2 DEF JoinEnqueues, IInv, TypeInv, CallPCs, JoinPCs, DetachPCs, Sender
    <2> QED
      BY <1>2, <2>1, SendKeeps DEF JoinEnqueues, controlVars, registryVars
  <1>3. ASSUME NEW t \in Threads, DetachEnqueues(t)
        PROVE  QueueAt(i, j)'
    <2>1. target[t] \in Workers /\ Sender(t, target[t])
      BY <1>3 DEF DetachEnqueues, IInv, TypeInv, CallPCs, JoinPCs, DetachPCs, Sender
    <2> QED
      BY <1>3, <2>1, SendKeeps DEF DetachEnqueues, controlVars, registryVars
  <1>4. ASSUME NEW w \in Workers, ExitEnqueues(w)
        PROVE  QueueAt(i, j)'
    <2>1. w \in Threads /\ Sender(w, w)
      BY <1>4 DEF ExitEnqueues, IInv, FlagInv, FlagAt, Sender, Threads
    <2> QED
      BY <1>4, <2>1, SendKeeps DEF ExitEnqueues, controlVars, registryVars
  <1> USE ConstantsAssumption
          DEF IInv, CallInv, RegistryInv, RequestInv, ReaperInv, CreateInv,
          CallAt, RegistryAt, RequestAt, OneSender, QueueAt, ReaperAt,
          ReaperFinds, CreateAt, OneCreator, TypeInv, TypeOK, CallPCs, CreatePCs,
          JoinPCs, DetachPCs, ExitPCs, Threads, Go, Return, Acquire, Release,
          SendTo, ReaperGo, callVars, controlVars, registryVars, reaperVars,
          handleVars, Caller, Sender, InQueue, ReaperHas, Creating
  <1>5. ASSUME NEW t \in Threads, NEW w \in Workers, ThreadCreate(t, w)
        PROVE  QueueAt(i, j)'
    BY <1>5 DEF ThreadCreate
  <1>6. ASSUME NEW t \in Threads, NEW w \in Workers, ThreadJoin(t, w)
        PROVE  QueueAt(i, j)'
    BY <1>6 DEF ThreadJoin, MayCall, Left
  <1>7. ASSUME NEW t \in Threads, NEW w \in Workers, ThreadDetach(t, w)
        PROVE  QueueAt(i, j)'
    BY <1>7 DEF ThreadDetach, MayCall, Left
  <1>8. ASSUME NEW t \in Threads, RegisterThread(t)
        PROVE  QueueAt(i, j)'
    BY <1>8 DEF RegisterThread, IdIsFree
  <1>9. ASSUME NEW t \in Threads, StartThreadFails(t)
        PROVE  QueueAt(i, j)'
    BY SMTT(60), <1>9 DEF StartThreadFails
  <1>10. ASSUME NEW t \in Threads, UndoCreate(t)
        PROVE  QueueAt(i, j)'
    BY <1>10 DEF UndoCreate
  <1>11. ASSUME NEW t \in Threads, StoreHandle(t)
        PROVE  QueueAt(i, j)'
    BY <1>11 DEF StoreHandle
  <1>12. ASSUME NEW t \in Threads, JoinSuspends(t)
        PROVE  QueueAt(i, j)'
    BY SMTT(60), <1>12 DEF JoinSuspends
  <1>13. ASSUME NEW t \in Threads, JoinGetCompletion(t)
        PROVE  QueueAt(i, j)'
    BY <1>13 DEF JoinGetCompletion
  <1>14. ASSUME NEW t \in Threads, JoinDeleted(t)
        PROVE  QueueAt(i, j)'
    BY <1>14 DEF JoinDeleted
  <1>15. ASSUME NEW t \in Threads, JoinLock(t)
        PROVE  QueueAt(i, j)'
    BY <1>15 DEF JoinLock
  <1>16. ASSUME NEW t \in Threads, JoinRefused(t)
        PROVE  QueueAt(i, j)'
    BY <1>16 DEF JoinRefused
  <1>17. ASSUME NEW t \in Threads, JoinClaims(t)
        PROVE  QueueAt(i, j)'
    BY <1>17 DEF JoinClaims
  <1>18. ASSUME NEW t \in Threads, JoinAcknowledged(t)
        PROVE  QueueAt(i, j)'
    BY <1>18 DEF JoinAcknowledged
  <1>19. ASSUME NEW t \in Threads, DetachLock(t)
        PROVE  QueueAt(i, j)'
    BY <1>19 DEF DetachLock
  <1>20. ASSUME NEW t \in Threads, DetachRefused(t)
        PROVE  QueueAt(i, j)'
    BY <1>20 DEF DetachRefused
  <1>21. ASSUME NEW t \in Threads, DetachRunning(t)
        PROVE  QueueAt(i, j)'
    BY <1>21 DEF DetachRunning
  <1>22. ASSUME NEW t \in Threads, DetachFinished(t)
        PROVE  QueueAt(i, j)'
    BY <1>22 DEF DetachFinished
  <1>23. ASSUME NEW w \in Workers, EntryFind(w)
        PROVE  QueueAt(i, j)'
    BY SMTT(30), <1>23 DEF EntryFind
  <1>24. ASSUME NEW w \in Workers, EntryReturns(w)
        PROVE  QueueAt(i, j)'
    BY <1>24 DEF EntryReturns
  <1>25. ASSUME NEW w \in Workers, CallbacksReturn(w)
        PROVE  QueueAt(i, j)'
    BY <1>25 DEF CallbacksReturn
  <1>26. ASSUME NEW w \in Workers, ExitLock(w)
        PROVE  QueueAt(i, j)'
    BY <1>26 DEF ExitLock
  <1>27. ASSUME NEW w \in Workers, PublishFinished(w)
        PROVE  QueueAt(i, j)'
    BY <1>27 DEF PublishFinished
  <1>28. ASSUME NEW w \in Workers, PutCompletion(w)
        PROVE  QueueAt(i, j)'
    BY <1>28 DEF PutCompletion
  <1>29. ASSUME NEW w \in Workers, ThreadReturns(w)
        PROVE  QueueAt(i, j)'
    BY SMTT(30), <1>29 DEF ThreadReturns
  <1>30. CASE ReaperReceive
    BY SMTT(60), <1>30 DEF ReaperReceive
  <1>31. CASE ReaperFind
    BY SMTT(60), <1>31 DEF ReaperFind
  <1>32. CASE ReaperPoll
    BY SMTT(60), <1>32 DEF ReaperPoll
  <1>33. CASE ReaperDelete
    BY <1>33 DEF ReaperDelete
  <1>34. CASE ReaperUnregister
    BY <1>34 DEF ReaperUnregister
  <1>35. CASE ReaperFree
    BY <1>35 DEF ReaperFree
  <1>36. CASE ReaperAcknowledge
    BY <1>36 DEF ReaperAcknowledge
  <1> HIDE DEF QueueAt, IInv, TypeInv
  <1> QED
    BY <1>1, <1>2, <1>3, <1>4, <1>5, <1>6, <1>7, <1>8, <1>9, <1>10, <1>11, <1>12,
    <1>13, <1>14, <1>15, <1>16, <1>17, <1>18, <1>19, <1>20, <1>21, <1>22, <1>23,
    <1>24, <1>25, <1>26, <1>27, <1>28, <1>29, <1>30, <1>31, <1>32, <1>33, <1>34,
    <1>35, <1>36
       DEF Next, Calls, Create, Join, Detach, Exit, Reaper

\* The reaper's control exists until the reaper frees it.
LEMMA ReaperStep ==
    ASSUME IInv, TypeInv', Next,
           NEW x \in Workers
    PROVE  ReaperAt(x)'
  <1>1. ASSUME NEW t \in Threads, StartThread(t)
        PROVE  ReaperAt(x)'
    BY <1>1, StartThreadEffect, ConstantsAssumption
       DEF IInv, ReaperInv, ReaperAt, Threads
  <1>2. CASE ReaperFind
    BY <1>2, ReaperFindEffect DEF FoundControl, IInv, ReaperInv, ReaperAt
  <1> USE ConstantsAssumption
          DEF IInv, CallInv, CreateInv, RegistryInv, RequestInv, ReaperInv,
          CallAt, CreateAt, OneCreator, RegistryAt, RequestAt, OneSender, QueueAt,
          ReaperAt, ReaperFinds, TypeInv, TypeOK, CallPCs, CreatePCs, JoinPCs,
          DetachPCs, ExitPCs, Threads, Go, Return, Acquire, Release, SendTo,
          ReaperGo, callVars, controlVars, registryVars, reaperVars, handleVars,
          Caller, Creating, Sender, InQueue, ReaperHas
  <1>3. ASSUME NEW t \in Threads, NEW w \in Workers, ThreadCreate(t, w)
        PROVE  ReaperAt(x)'
    BY <1>3 DEF ThreadCreate
  <1>4. ASSUME NEW t \in Threads, NEW w \in Workers, ThreadJoin(t, w)
        PROVE  ReaperAt(x)'
    BY <1>4 DEF ThreadJoin, MayCall, Left
  <1>5. ASSUME NEW t \in Threads, NEW w \in Workers, ThreadDetach(t, w)
        PROVE  ReaperAt(x)'
    BY <1>5 DEF ThreadDetach, MayCall, Left
  <1>6. ASSUME NEW t \in Threads, RegisterThread(t)
        PROVE  ReaperAt(x)'
    BY <1>6 DEF RegisterThread, IdIsFree
  <1>7. ASSUME NEW t \in Threads, StartThreadFails(t)
        PROVE  ReaperAt(x)'
    BY <1>7 DEF StartThreadFails
  <1>8. ASSUME NEW t \in Threads, UndoCreate(t)
        PROVE  ReaperAt(x)'
    BY <1>8 DEF UndoCreate
  <1>9. ASSUME NEW t \in Threads, StoreHandle(t)
        PROVE  ReaperAt(x)'
    BY <1>9 DEF StoreHandle
  <1>10. ASSUME NEW t \in Threads, JoinSuspends(t)
        PROVE  ReaperAt(x)'
    BY <1>10 DEF JoinSuspends
  <1>11. ASSUME NEW t \in Threads, JoinGetCompletion(t)
        PROVE  ReaperAt(x)'
    BY <1>11 DEF JoinGetCompletion
  <1>12. ASSUME NEW t \in Threads, JoinDeleted(t)
        PROVE  ReaperAt(x)'
    BY <1>12 DEF JoinDeleted
  <1>13. ASSUME NEW t \in Threads, JoinLock(t)
        PROVE  ReaperAt(x)'
    BY <1>13 DEF JoinLock
  <1>14. ASSUME NEW t \in Threads, JoinRefused(t)
        PROVE  ReaperAt(x)'
    BY <1>14 DEF JoinRefused
  <1>15. ASSUME NEW t \in Threads, JoinClaims(t)
        PROVE  ReaperAt(x)'
    BY <1>15 DEF JoinClaims
  <1>16. ASSUME NEW t \in Threads, JoinEnqueues(t)
        PROVE  ReaperAt(x)'
    BY <1>16 DEF JoinEnqueues
  <1>17. ASSUME NEW t \in Threads, JoinAcknowledged(t)
        PROVE  ReaperAt(x)'
    BY <1>17 DEF JoinAcknowledged
  <1>18. ASSUME NEW t \in Threads, DetachLock(t)
        PROVE  ReaperAt(x)'
    BY <1>18 DEF DetachLock
  <1>19. ASSUME NEW t \in Threads, DetachRefused(t)
        PROVE  ReaperAt(x)'
    BY <1>19 DEF DetachRefused
  <1>20. ASSUME NEW t \in Threads, DetachRunning(t)
        PROVE  ReaperAt(x)'
    BY <1>20 DEF DetachRunning
  <1>21. ASSUME NEW t \in Threads, DetachFinished(t)
        PROVE  ReaperAt(x)'
    BY <1>21 DEF DetachFinished
  <1>22. ASSUME NEW t \in Threads, DetachEnqueues(t)
        PROVE  ReaperAt(x)'
    BY <1>22 DEF DetachEnqueues
  <1>23. ASSUME NEW w \in Workers, EntryFind(w)
        PROVE  ReaperAt(x)'
    BY <1>23 DEF EntryFind
  <1>24. ASSUME NEW w \in Workers, EntryReturns(w)
        PROVE  ReaperAt(x)'
    BY <1>24 DEF EntryReturns
  <1>25. ASSUME NEW w \in Workers, CallbacksReturn(w)
        PROVE  ReaperAt(x)'
    BY <1>25 DEF CallbacksReturn
  <1>26. ASSUME NEW w \in Workers, ExitLock(w)
        PROVE  ReaperAt(x)'
    BY <1>26 DEF ExitLock
  <1>27. ASSUME NEW w \in Workers, PublishFinished(w)
        PROVE  ReaperAt(x)'
    BY <1>27 DEF PublishFinished
  <1>28. ASSUME NEW w \in Workers, PutCompletion(w)
        PROVE  ReaperAt(x)'
    BY <1>28 DEF PutCompletion
  <1>29. ASSUME NEW w \in Workers, ExitEnqueues(w)
        PROVE  ReaperAt(x)'
    BY <1>29 DEF ExitEnqueues
  <1>30. ASSUME NEW w \in Workers, ThreadReturns(w)
        PROVE  ReaperAt(x)'
    BY <1>30 DEF ThreadReturns
  <1>31. CASE ReaperReceive
    BY <1>31 DEF ReaperReceive
  <1>32. CASE ReaperPoll
    BY <1>32 DEF ReaperPoll
  <1>33. CASE ReaperDelete
    BY <1>33 DEF ReaperDelete
  <1>34. CASE ReaperUnregister
    BY <1>34 DEF ReaperUnregister
  <1>35. CASE ReaperFree
    BY <1>35 DEF ReaperFree
  <1>36. CASE ReaperAcknowledge
    BY <1>36 DEF ReaperAcknowledge
  <1> HIDE DEF ReaperAt, IInv, TypeInv
  <1> QED
    BY <1>1, <1>2, <1>3, <1>4, <1>5, <1>6, <1>7, <1>8, <1>9, <1>10, <1>11, <1>12,
    <1>13, <1>14, <1>15, <1>16, <1>17, <1>18, <1>19, <1>20, <1>21, <1>22, <1>23,
    <1>24, <1>25, <1>26, <1>27, <1>28, <1>29, <1>30, <1>31, <1>32, <1>33, <1>34,
    <1>35, <1>36
       DEF Next, Calls, Create, Join, Detach, Exit, Reaper

\* The message received is that of a control which still exists.
LEMMA ReaperFindsStep ==
    ASSUME IInv, TypeInv', Next
    PROVE  ReaperFinds'
  <1>1. ASSUME NEW t \in Threads, StartThread(t)
        PROVE  ReaperFinds'
    BY <1>1, StartThreadEffect, ConstantsAssumption
       DEF IInv, ReaperInv, ReaperFinds, Threads
  <1> USE ConstantsAssumption
          DEF IInv, CallInv, CreateInv, RegistryInv, RequestInv, ReaperInv,
          CallAt, CreateAt, OneCreator, RegistryAt, RequestAt, OneSender, QueueAt,
          ReaperAt, ReaperFinds, TypeInv, TypeOK, CallPCs, CreatePCs, JoinPCs,
          DetachPCs, ExitPCs, Threads, Go, Return, Acquire, Release, SendTo,
          ReaperGo, callVars, controlVars, registryVars, reaperVars, handleVars,
          Caller, Creating, Sender, InQueue, ReaperHas
  <1>2. ASSUME NEW t \in Threads, NEW w \in Workers, ThreadCreate(t, w)
        PROVE  ReaperFinds'
    BY <1>2 DEF ThreadCreate
  <1>3. ASSUME NEW t \in Threads, NEW w \in Workers, ThreadJoin(t, w)
        PROVE  ReaperFinds'
    BY <1>3 DEF ThreadJoin, MayCall, Left
  <1>4. ASSUME NEW t \in Threads, NEW w \in Workers, ThreadDetach(t, w)
        PROVE  ReaperFinds'
    BY <1>4 DEF ThreadDetach, MayCall, Left
  <1>5. ASSUME NEW t \in Threads, RegisterThread(t)
        PROVE  ReaperFinds'
    BY <1>5 DEF RegisterThread, IdIsFree
  <1>6. ASSUME NEW t \in Threads, StartThreadFails(t)
        PROVE  ReaperFinds'
    BY <1>6 DEF StartThreadFails
  <1>7. ASSUME NEW t \in Threads, UndoCreate(t)
        PROVE  ReaperFinds'
    BY <1>7 DEF UndoCreate
  <1>8. ASSUME NEW t \in Threads, StoreHandle(t)
        PROVE  ReaperFinds'
    BY <1>8 DEF StoreHandle
  <1>9. ASSUME NEW t \in Threads, JoinSuspends(t)
        PROVE  ReaperFinds'
    BY <1>9 DEF JoinSuspends
  <1>10. ASSUME NEW t \in Threads, JoinGetCompletion(t)
        PROVE  ReaperFinds'
    BY <1>10 DEF JoinGetCompletion
  <1>11. ASSUME NEW t \in Threads, JoinDeleted(t)
        PROVE  ReaperFinds'
    BY <1>11 DEF JoinDeleted
  <1>12. ASSUME NEW t \in Threads, JoinLock(t)
        PROVE  ReaperFinds'
    BY <1>12 DEF JoinLock
  <1>13. ASSUME NEW t \in Threads, JoinRefused(t)
        PROVE  ReaperFinds'
    BY <1>13 DEF JoinRefused
  <1>14. ASSUME NEW t \in Threads, JoinClaims(t)
        PROVE  ReaperFinds'
    BY <1>14 DEF JoinClaims
  <1>15. ASSUME NEW t \in Threads, JoinEnqueues(t)
        PROVE  ReaperFinds'
    BY <1>15 DEF JoinEnqueues
  <1>16. ASSUME NEW t \in Threads, JoinAcknowledged(t)
        PROVE  ReaperFinds'
    BY <1>16 DEF JoinAcknowledged
  <1>17. ASSUME NEW t \in Threads, DetachLock(t)
        PROVE  ReaperFinds'
    BY <1>17 DEF DetachLock
  <1>18. ASSUME NEW t \in Threads, DetachRefused(t)
        PROVE  ReaperFinds'
    BY <1>18 DEF DetachRefused
  <1>19. ASSUME NEW t \in Threads, DetachRunning(t)
        PROVE  ReaperFinds'
    BY <1>19 DEF DetachRunning
  <1>20. ASSUME NEW t \in Threads, DetachFinished(t)
        PROVE  ReaperFinds'
    BY <1>20 DEF DetachFinished
  <1>21. ASSUME NEW t \in Threads, DetachEnqueues(t)
        PROVE  ReaperFinds'
    BY <1>21 DEF DetachEnqueues
  <1>22. ASSUME NEW w \in Workers, EntryFind(w)
        PROVE  ReaperFinds'
    BY <1>22 DEF EntryFind
  <1>23. ASSUME NEW w \in Workers, EntryReturns(w)
        PROVE  ReaperFinds'
    BY <1>23 DEF EntryReturns
  <1>24. ASSUME NEW w \in Workers, CallbacksReturn(w)
        PROVE  ReaperFinds'
    BY <1>24 DEF CallbacksReturn
  <1>25. ASSUME NEW w \in Workers, ExitLock(w)
        PROVE  ReaperFinds'
    BY <1>25 DEF ExitLock
  <1>26. ASSUME NEW w \in Workers, PublishFinished(w)
        PROVE  ReaperFinds'
    BY <1>26 DEF PublishFinished
  <1>27. ASSUME NEW w \in Workers, PutCompletion(w)
        PROVE  ReaperFinds'
    BY <1>27 DEF PutCompletion
  <1>28. ASSUME NEW w \in Workers, ExitEnqueues(w)
        PROVE  ReaperFinds'
    BY <1>28 DEF ExitEnqueues
  <1>29. ASSUME NEW w \in Workers, ThreadReturns(w)
        PROVE  ReaperFinds'
    BY <1>29 DEF ThreadReturns
  <1>30. CASE ReaperReceive
    BY <1>30 DEF ReaperReceive
  <1>31. CASE ReaperFind
    BY <1>31 DEF ReaperFind
  <1>32. CASE ReaperPoll
    BY <1>32 DEF ReaperPoll
  <1>33. CASE ReaperDelete
    BY <1>33 DEF ReaperDelete
  <1>34. CASE ReaperUnregister
    BY <1>34 DEF ReaperUnregister
  <1>35. CASE ReaperFree
    BY <1>35 DEF ReaperFree
  <1>36. CASE ReaperAcknowledge
    BY <1>36 DEF ReaperAcknowledge
  <1> HIDE DEF ReaperFinds, IInv, TypeInv
  <1> QED
    BY <1>1, <1>2, <1>3, <1>4, <1>5, <1>6, <1>7, <1>8, <1>9, <1>10, <1>11, <1>12,
    <1>13, <1>14, <1>15, <1>16, <1>17, <1>18, <1>19, <1>20, <1>21, <1>22, <1>23,
    <1>24, <1>25, <1>26, <1>27, <1>28, <1>29, <1>30, <1>31, <1>32, <1>33, <1>34,
    <1>35, <1>36
       DEF Next, Calls, Create, Join, Detach, Exit, Reaper

\* Nobody is about to use a control when the reaper deletes it, and nobody
\* reaches it afterwards.
LEMMA DeadStep ==
    ASSUME IInv, TypeInv', Next,
           NEW y \in Threads, NEW x \in Workers
    PROVE  DeadAt(y, x)'
  <1>1. ASSUME NEW t \in Threads, StartThread(t)
        PROVE  DeadAt(y, x)'
    BY <1>1, StartThreadEffect, ConstantsAssumption
       DEF IInv, DeadInv, DeadAt, Dead, Dereferences, CreateInv, CreateAt,
       Creating, CreatePCs, Threads
  <1>2. CASE ReaperDelete
    <2>1. /\ reaper_pc = "delete"
          /\ memory' = [memory EXCEPT ![reaper_control] = "deleted"]
          /\ UNCHANGED <<pc, target, completion, cleanup_queued>>
      BY <1>2 DEF ReaperDelete, callVars
    <2>2. CASE x # reaper_control
      BY <2>1, <2>2 DEF IInv, TypeInv, TypeOK, DeadInv, DeadAt, Dead, Dereferences
    <2>3. CASE x = reaper_control
      <3>1. pc[x] = "completed" /\ cleanup_queued[x] /\ ReaperHas(x)
        BY <2>1, <2>3 DEF IInv, ReaperInv, ReaperAt, ReaperHas
      <3>2. ~(target[y] = x /\ pc[y] \in {"c_register", "c_start", "c_undo"})
        BY <3>1 DEF IInv, CreateInv, CreateAt, Creating, CreatePCs
      <3>3. ~(target[y] = x /\ pc[y] \in {"j_send", "d_send"})
        BY <3>1 DEF IInv, RequestInv, RequestAt, Sender
      <3>4. ~SharedHandles => ~Early(y, x)
        BY <3>1 DEF IInv, OwnedInv, OwnedAt
      <3>5. SharedHandles => \A u \in Threads : Blocked(u)
        BY <1>2, ConstantsAssumption DEF ReaperDelete, ReaperRuns
      <3>6. SharedHandles => lifecycle_mutex[x] = None
        <4> SUFFICES ASSUME SharedHandles, lifecycle_mutex[x] \in Threads
                     PROVE  FALSE
          BY DEF IInv, TypeInv, TypeOK
        <4>1. pc[lifecycle_mutex[x]] \in {"j_locked", "d_locked"}
          BY <3>1 DEF IInv, LockInv, LockAt
        <4> QED
          BY <4>1, <3>5 DEF Blocked, SendPCs
      <3>7. SharedHandles /\ Early(y, x) => pc[y] = "j_wait" /\ completion[x] = 0
        BY <3>5, <3>6 DEF Early, Blocked, SendPCs
      <3>8. /\ ~Dereferences(y, x)
            /\ target[y] = x /\ pc[y] = "j_wait" => completion[x] = 0
        BY <3>2, <3>3, <3>4, <3>7, ConstantsAssumption DEF Dereferences, Early
      <3> QED
        BY <2>1, <3>1, <3>8 DEF DeadAt, Dead, Dereferences
    <2> QED
      BY <2>2, <2>3
  <1> USE ConstantsAssumption
          DEF IInv, CallInv, CreateInv, RegistryInv, LockInv, FlagInv, OwnedInv,
          RequestInv, ReaperInv, DeadInv, CallAt, CreateAt, OneCreator,
          RegistryAt, LockAt, FlagAt, OwnedAt, RequestAt, OneSender, QueueAt,
          ReaperAt, ReaperFinds, DeadAt, TypeInv, TypeOK, CallPCs, CreatePCs,
          JoinPCs, DetachPCs, ExitPCs, Threads, Go, Return, Acquire, Release,
          SendTo, ReaperGo, callVars, controlVars, registryVars, reaperVars,
          handleVars, Caller, Creating, User, Left, Early, Claimed, Sender,
          InQueue, ReaperHas, Dead, Dereferences
  <1>3. ASSUME NEW t \in Threads, NEW w \in Workers, ThreadCreate(t, w)
        PROVE  DeadAt(y, x)'
    BY <1>3 DEF ThreadCreate
  <1>4. ASSUME NEW t \in Threads, NEW w \in Workers, ThreadJoin(t, w)
        PROVE  DeadAt(y, x)'
    BY <1>4 DEF ThreadJoin, MayCall
  <1>5. ASSUME NEW t \in Threads, NEW w \in Workers, ThreadDetach(t, w)
        PROVE  DeadAt(y, x)'
    BY <1>5 DEF ThreadDetach, MayCall
  <1>6. ASSUME NEW t \in Threads, RegisterThread(t)
        PROVE  DeadAt(y, x)'
    BY <1>6 DEF RegisterThread, IdIsFree
  <1>7. ASSUME NEW t \in Threads, StartThreadFails(t)
        PROVE  DeadAt(y, x)'
    BY <1>7 DEF StartThreadFails
  <1>8. ASSUME NEW t \in Threads, UndoCreate(t)
        PROVE  DeadAt(y, x)'
    BY <1>8 DEF UndoCreate
  <1>9. ASSUME NEW t \in Threads, StoreHandle(t)
        PROVE  DeadAt(y, x)'
    BY <1>9 DEF StoreHandle
  <1>10. ASSUME NEW t \in Threads, JoinSuspends(t)
        PROVE  DeadAt(y, x)'
    BY <1>10 DEF JoinSuspends
  <1>11. ASSUME NEW t \in Threads, JoinGetCompletion(t)
        PROVE  DeadAt(y, x)'
    BY <1>11 DEF JoinGetCompletion
  <1>12. ASSUME NEW t \in Threads, JoinDeleted(t)
        PROVE  DeadAt(y, x)'
    BY <1>12 DEF JoinDeleted
  <1>13. ASSUME NEW t \in Threads, JoinLock(t)
        PROVE  DeadAt(y, x)'
    BY <1>13 DEF JoinLock
  <1>14. ASSUME NEW t \in Threads, JoinRefused(t)
        PROVE  DeadAt(y, x)'
    BY <1>14 DEF JoinRefused
  <1>15. ASSUME NEW t \in Threads, JoinClaims(t)
        PROVE  DeadAt(y, x)'
    BY <1>15 DEF JoinClaims
  <1>16. ASSUME NEW t \in Threads, JoinEnqueues(t)
        PROVE  DeadAt(y, x)'
    BY <1>16 DEF JoinEnqueues
  <1>17. ASSUME NEW t \in Threads, JoinAcknowledged(t)
        PROVE  DeadAt(y, x)'
    BY <1>17 DEF JoinAcknowledged
  <1>18. ASSUME NEW t \in Threads, DetachLock(t)
        PROVE  DeadAt(y, x)'
    BY <1>18 DEF DetachLock
  <1>19. ASSUME NEW t \in Threads, DetachRefused(t)
        PROVE  DeadAt(y, x)'
    BY <1>19 DEF DetachRefused
  <1>20. ASSUME NEW t \in Threads, DetachRunning(t)
        PROVE  DeadAt(y, x)'
    BY <1>20 DEF DetachRunning
  <1>21. ASSUME NEW t \in Threads, DetachFinished(t)
        PROVE  DeadAt(y, x)'
    BY <1>21 DEF DetachFinished
  <1>22. ASSUME NEW t \in Threads, DetachEnqueues(t)
        PROVE  DeadAt(y, x)'
    BY <1>22 DEF DetachEnqueues
  <1>23. ASSUME NEW w \in Workers, EntryFind(w)
        PROVE  DeadAt(y, x)'
    BY <1>23 DEF EntryFind
  <1>24. ASSUME NEW w \in Workers, EntryReturns(w)
        PROVE  DeadAt(y, x)'
    BY <1>24 DEF EntryReturns
  <1>25. ASSUME NEW w \in Workers, CallbacksReturn(w)
        PROVE  DeadAt(y, x)'
    BY <1>25 DEF CallbacksReturn
  <1>26. ASSUME NEW w \in Workers, ExitLock(w)
        PROVE  DeadAt(y, x)'
    BY <1>26 DEF ExitLock
  <1>27. ASSUME NEW w \in Workers, PublishFinished(w)
        PROVE  DeadAt(y, x)'
    BY <1>27 DEF PublishFinished
  <1>28. ASSUME NEW w \in Workers, PutCompletion(w)
        PROVE  DeadAt(y, x)'
    BY <1>28 DEF PutCompletion
  <1>29. ASSUME NEW w \in Workers, ExitEnqueues(w)
        PROVE  DeadAt(y, x)'
    BY <1>29 DEF ExitEnqueues
  <1>30. ASSUME NEW w \in Workers, ThreadReturns(w)
        PROVE  DeadAt(y, x)'
    BY <1>30 DEF ThreadReturns
  <1>31. CASE ReaperReceive
    BY <1>31 DEF ReaperReceive
  <1>32. CASE ReaperFind
    BY <1>32 DEF ReaperFind
  <1>33. CASE ReaperPoll
    BY <1>33 DEF ReaperPoll
  <1>34. CASE ReaperUnregister
    BY <1>34 DEF ReaperUnregister
  <1>35. CASE ReaperFree
    BY <1>35 DEF ReaperFree
  <1>36. CASE ReaperAcknowledge
    BY <1>36 DEF ReaperAcknowledge
  <1> HIDE DEF DeadAt, IInv, TypeInv
  <1> QED
    BY <1>1, <1>2, <1>3, <1>4, <1>5, <1>6, <1>7, <1>8, <1>9, <1>10, <1>11, <1>12,
    <1>13, <1>14, <1>15, <1>16, <1>17, <1>18, <1>19, <1>20, <1>21, <1>22, <1>23,
    <1>24, <1>25, <1>26, <1>27, <1>28, <1>29, <1>30, <1>31, <1>32, <1>33, <1>34,
    <1>35, <1>36
       DEF Next, Calls, Create, Join, Detach, Exit, Reaper

-----------------------------------------------------------------------------
(* Theorems.                                                                *)

LEMMA IInvStep == IInv /\ [Next]_vars => IInv'
  <1>1. ASSUME IInv, UNCHANGED vars
        PROVE  IInv'
    BY <1>1 DEF vars, callVars, controlVars, registryVars, reaperVars, handleVars,
       IInv, TypeInv, TypeOK, CallInv, CallAt, Caller, CreateInv, CreateAt, OneCreator,
       Creating, RegistryInv, RegistryAt, LockInv, LockAt, FlagInv, FlagAt, OwnedInv,
       OwnedAt, User, Left, Early, Claimed, RequestInv, RequestAt, OneSender, QueueAt,
       Sender, InQueue, ReaperHas, ReaperInv, ReaperAt, ReaperFinds, DeadInv, DeadAt,
       Dead, Dereferences
  <1>2. ASSUME IInv, Next
        PROVE  IInv'
    <2>1. TypeInv'
      BY <1>2, TypeStep DEF IInv
    <2>2. CallInv' /\ LockInv' /\ FlagInv' /\ OwnedInv'
      BY <1>2, <2>1, CallStep, LockStep, FlagStep, OwnedStep
         DEF CallInv, LockInv, FlagInv, OwnedInv
    <2>3. CreateInv'
      BY <1>2, <2>1, CreateStep, OneCreatorStep DEF CreateInv
    <2>4. RegistryInv'
      BY <1>2, <2>1, RegistryStep DEF RegistryInv
    <2>5. RequestInv'
      BY <1>2, <2>1, RequestStep, OneSenderStep, QueueStep DEF RequestInv
    <2>6. ReaperInv' /\ DeadInv'
      BY <1>2, <2>1, ReaperStep, ReaperFindsStep, DeadStep DEF ReaperInv, DeadInv
    <2> QED
      BY <2>1, <2>2, <2>3, <2>4, <2>5, <2>6 DEF IInv
  <1> QED
    BY <1>1, <1>2

\* The invariant implies memory safety.
LEMMA IInvSafe == IInv => NoUseAfterFree
  <1> SUFFICES ASSUME IInv, NEW w \in Workers, memory[w] # "allocated"
               PROVE  ~OnStack(w) /\ \A t \in Threads : ~Dereferences(t, w)
    BY DEF NoUseAfterFree
  <1>1. CASE memory[w] = "unused"
    BY <1>1, ConstantsAssumption
       DEF IInv, CreateInv, CreateAt, OnStack, Dereferences, Threads
  <1>2. CASE Dead(w)
    BY <1>2, ConstantsAssumption DEF IInv, DeadInv, DeadAt, OnStack, Threads
  <1> QED
    BY <1>1, <1>2 DEF IInv, TypeInv, TypeOK, Dead

\* reaper_entry never deletes or frees a stack that is in use or a control that
\* a backend call is about to dereference, for any number of threads.
THEOREM MemorySafe == Spec => []NoUseAfterFree
  <1> QED
    BY IInvSafe, InitIInv, IInvStep, PTL DEF Spec

\* find_thread never fails and never finds another thread: thread_entry and
\* reaper_entry do not reach fatal_error, however the ids wrap.
THEOREM NoLookupFails == Spec => []LookupsSucceed
  <1>1. ASSUME IInv, NEW v \in registry
        PROVE  FindThread(registry_id[v]) = v
    <2>1. registry \in SUBSET Workers /\ None \notin Workers
      BY <1>1, ConstantsAssumption DEF IInv, TypeInv, TypeOK, Threads
    <2> QED
      BY <1>1, <2>1 DEF FindThread, IInv, RegistryInv, RegistryAt
  <1>2. ASSUME IInv
        PROVE  LookupsSucceed
    <2>1. registry \in SUBSET Workers /\ None \notin Workers
      BY <1>2, ConstantsAssumption DEF IInv, TypeInv, TypeOK, Threads
    <2>2. ASSUME NEW w \in Workers, pc[w] = "start"
          PROVE  FindThread(registry_id[w]) = w
      <3>1. memory[w] = "allocated"
        BY <1>2, <2>2, IInvSafe DEF NoUseAfterFree, OnStack
      <3>2. w \in registry
        BY <1>2, <2>2, <3>1 DEF IInv, RegistryInv, RegistryAt
      <3> QED
        BY <1>1, <1>2, <3>2
    <2>3. ASSUME NEW i \in 1..Len(cleanup_queue)
          PROVE  FindThread(cleanup_queue[i]) # None
      <3>1. PICK v \in registry : cleanup_queue[i] = registry_id[v]
        BY <1>2 DEF IInv, RequestInv, QueueAt
      <3> QED
        BY <1>1, <1>2, <2>1, <3>1
    <2>4. reaper_pc = "find" => FindThread(reaper_message) # None
      BY <1>1, <1>2, <2>1 DEF IInv, ReaperInv, ReaperFinds
    <2> QED
      BY <2>2, <2>3, <2>4 DEF LookupsSucceed
  <1> QED
    BY <1>2, InitIInv, IInvStep, PTL DEF Spec

\* The reaper does not run on a thread's stack.
LEMMA ReaperStage == ASSUME Reaper PROVE UNCHANGED stage
  BY DEF Reaper, ReaperReceive, ReaperFind, ReaperPoll, ReaperDelete, ReaperUnregister,
     ReaperFree, ReaperAcknowledge, callVars

-----------------------------------------------------------------------------
(* A life ends once.                                                       *)

\* The thread is past its callbacks once it is past the code that runs them.
StageAt(w) == pc[w] \in ExitPCs \union {"completed"} => stage[w] = "callbacks"

\* A control that has cleanup_queued set has a request underway.
PromiseAt(w) == w \in registry /\ cleanup_queued[w] =>
    (\E t \in Threads : Sender(t, w)) \/ InQueue(w) \/ ReaperHas(w)

\* The joiner named by a control, or by the reaper, waits for it with its
\* acknowledgement semaphore on its stack.
AckAt(t, w) ==
    /\ pc[t] \in {"j_lock", "j_locked", "j_send"} => acknowledgement[t] = "created"
    /\ cleanup_ack[w] = t /\ memory[w] # "freed" =>
          /\ target[t] = w /\ pc[t] \in {"j_send", "j_ack"}
          /\ acknowledgement[t] = "created"
ReaperAckAt(t) == reaper_ack = t =>
    /\ reaper_pc \in {"delete", "unregister", "free", "acknowledge"}
    /\ reaper_control \in Workers
    /\ reaper_pc = "acknowledge" => memory[reaper_control] = "freed"
    /\ target[t] = reaper_control /\ pc[t] = "j_ack"
    /\ acknowledgement[t] = "created"

StageInv == \A w \in Workers : StageAt(w)
PromiseInv == \A w \in Workers : PromiseAt(w)
AckInv == /\ \A t \in Threads, w \in Workers : AckAt(t, w)
          /\ \A t \in Threads : ReaperAckAt(t)

\* What EndsOnce needs beyond IInv.
EndsInv == StageInv /\ PromiseInv /\ AckInv

\* Nobody has started or claimed anything yet.
LEMMA InitEndsInv == Init => EndsInv
  BY ConstantsAssumption
     DEF Init, EndsInv, StageInv, StageAt, PromiseInv, PromiseAt, AckInv, AckAt,
     ReaperAckAt, ExitPCs, Threads

\* The thread enters the code that follows its callbacks with them behind it.
LEMMA StageStep ==
    ASSUME IInv, TypeInv', Next,
           NEW x \in Workers, StageAt(x)
    PROVE  StageAt(x)'
  <1>1. ASSUME NEW t \in Threads, StartThread(t)
        PROVE  StageAt(x)'
    BY <1>1, StartThreadEffect, ConstantsAssumption DEF StageAt, ExitPCs, Threads
  <1>2. CASE Reaper
    BY <1>2, ReaperFrame, ReaperStage DEF StageAt
  <1> USE ConstantsAssumption DEF IInv, CallInv, CallAt, Caller, StageAt, TypeInv,
    TypeOK, CallPCs, CreatePCs, JoinPCs, DetachPCs, ExitPCs, Threads, Go, Return,
    Acquire, Release, SendTo, ReaperGo, callVars, controlVars, registryVars,
    reaperVars, handleVars
  <1>3. ASSUME NEW t \in Threads, NEW w \in Workers, ThreadCreate(t, w)
        PROVE  StageAt(x)'
    BY <1>3 DEF ThreadCreate
  <1>4. ASSUME NEW t \in Threads, NEW w \in Workers, ThreadJoin(t, w)
        PROVE  StageAt(x)'
    BY <1>4 DEF ThreadJoin, MayCall, Left
  <1>5. ASSUME NEW t \in Threads, NEW w \in Workers, ThreadDetach(t, w)
        PROVE  StageAt(x)'
    BY <1>5 DEF ThreadDetach, MayCall, Left
  <1>6. ASSUME NEW t \in Threads, RegisterThread(t)
        PROVE  StageAt(x)'
    BY <1>6 DEF RegisterThread, IdIsFree
  <1>7. ASSUME NEW t \in Threads, StartThreadFails(t)
        PROVE  StageAt(x)'
    BY <1>7 DEF StartThreadFails
  <1>8. ASSUME NEW t \in Threads, UndoCreate(t)
        PROVE  StageAt(x)'
    BY <1>8 DEF UndoCreate
  <1>9. ASSUME NEW t \in Threads, StoreHandle(t)
        PROVE  StageAt(x)'
    BY <1>9 DEF StoreHandle
  <1>10. ASSUME NEW t \in Threads, JoinSuspends(t)
        PROVE  StageAt(x)'
    BY <1>10 DEF JoinSuspends
  <1>11. ASSUME NEW t \in Threads, JoinGetCompletion(t)
        PROVE  StageAt(x)'
    BY <1>11 DEF JoinGetCompletion
  <1>12. ASSUME NEW t \in Threads, JoinDeleted(t)
        PROVE  StageAt(x)'
    BY <1>12 DEF JoinDeleted
  <1>13. ASSUME NEW t \in Threads, JoinLock(t)
        PROVE  StageAt(x)'
    BY <1>13 DEF JoinLock
  <1>14. ASSUME NEW t \in Threads, JoinRefused(t)
        PROVE  StageAt(x)'
    BY <1>14 DEF JoinRefused
  <1>15. ASSUME NEW t \in Threads, JoinClaims(t)
        PROVE  StageAt(x)'
    BY <1>15 DEF JoinClaims
  <1>16. ASSUME NEW t \in Threads, JoinEnqueues(t)
        PROVE  StageAt(x)'
    BY <1>16 DEF JoinEnqueues
  <1>17. ASSUME NEW t \in Threads, JoinAcknowledged(t)
        PROVE  StageAt(x)'
    BY <1>17 DEF JoinAcknowledged
  <1>18. ASSUME NEW t \in Threads, DetachLock(t)
        PROVE  StageAt(x)'
    BY <1>18 DEF DetachLock
  <1>19. ASSUME NEW t \in Threads, DetachRefused(t)
        PROVE  StageAt(x)'
    BY <1>19 DEF DetachRefused
  <1>20. ASSUME NEW t \in Threads, DetachRunning(t)
        PROVE  StageAt(x)'
    BY <1>20 DEF DetachRunning
  <1>21. ASSUME NEW t \in Threads, DetachFinished(t)
        PROVE  StageAt(x)'
    BY <1>21 DEF DetachFinished
  <1>22. ASSUME NEW t \in Threads, DetachEnqueues(t)
        PROVE  StageAt(x)'
    BY <1>22 DEF DetachEnqueues
  <1>23. ASSUME NEW w \in Workers, EntryFind(w)
        PROVE  StageAt(x)'
    BY <1>23 DEF EntryFind
  <1>24. ASSUME NEW w \in Workers, EntryReturns(w)
        PROVE  StageAt(x)'
    BY <1>24 DEF EntryReturns
  <1>25. ASSUME NEW w \in Workers, CallbacksReturn(w)
        PROVE  StageAt(x)'
    BY <1>25 DEF CallbacksReturn
  <1>26. ASSUME NEW w \in Workers, ExitLock(w)
        PROVE  StageAt(x)'
    BY <1>26 DEF ExitLock
  <1>27. ASSUME NEW w \in Workers, PublishFinished(w)
        PROVE  StageAt(x)'
    BY <1>27 DEF PublishFinished
  <1>28. ASSUME NEW w \in Workers, PutCompletion(w)
        PROVE  StageAt(x)'
    BY <1>28 DEF PutCompletion
  <1>29. ASSUME NEW w \in Workers, ExitEnqueues(w)
        PROVE  StageAt(x)'
    BY <1>29 DEF ExitEnqueues
  <1>30. ASSUME NEW w \in Workers, ThreadReturns(w)
        PROVE  StageAt(x)'
    BY <1>30 DEF ThreadReturns
  <1> HIDE DEF StageAt, IInv, TypeInv
  <1> QED
    BY <1>1, <1>2, <1>3, <1>4, <1>5, <1>6, <1>7, <1>8, <1>9, <1>10, <1>11, <1>12,
      <1>13, <1>14, <1>15, <1>16, <1>17, <1>18, <1>19, <1>20, <1>21, <1>22, <1>23,
      <1>24, <1>25, <1>26, <1>27, <1>28, <1>29, <1>30
       DEF Next, Calls, Create, Join, Detach, Exit, Reaper

\* What is sent is in the queue, and nothing else leaves it.
LEMMA SendArrives ==
    ASSUME IInv, NEW v \in Workers, SendTo(registry_id[v]), UNCHANGED registry_id
    PROVE  InQueue(v)' /\ \A x \in Workers : InQueue(x) => InQueue(x)'
  <1>1. cleanup_queue \in Seq(0..MaxId) /\ registry_id[v] \in 0..MaxId
    BY DEF IInv, TypeInv, TypeOK
  <1> QED
    BY <1>1, AppendIndex DEF SendTo, InQueue

\* A joiner leaves neither the call nor the semaphore before it is acknowledged.
LEMMA AckStep ==
    ASSUME IInv, TypeInv', Next,
           NEW y \in Threads, NEW x \in Workers, AckAt(y, x), ReaperAckAt(y)
    PROVE  AckAt(y, x)'
  <1>0. /\ pc \in [Threads -> PCs] /\ target \in [Threads -> Workers \union {None}]
        /\ acknowledgement \in [Threads -> {"none", "created", "posted"}]
        /\ memory \in [Workers -> {"unused", "allocated", "deleted", "freed"}]
        /\ cleanup_ack \in [Workers -> Threads \union {None}]
        /\ \A t \in Threads : pc[t] \in CallPCs => target[t] \in Workers
        /\ reaper_pc \in {"delete", "free"} => reaper_control \in Workers
    BY DEF IInv, TypeInv, TypeOK
  <1>1. ASSUME NEW t \in Threads, StartThread(t)
        PROVE  AckAt(y, x)'
    BY <1>1, StartThreadEffect, ConstantsAssumption DEF AckAt, Threads
  <1>2. CASE ReaperDelete
    <2>1. /\ memory[reaper_control] = "allocated"
          /\ memory' = [memory EXCEPT ![reaper_control] = "deleted"]
          /\ UNCHANGED <<pc, target, acknowledgement, cleanup_ack>>
      BY <1>2 DEF ReaperDelete, callVars, IInv, TypeInv, ReaperInv, ReaperAt
    <2> QED
      BY <2>1, <1>0 DEF AckAt
  <1> USE ConstantsAssumption, <1>0 DEF AckAt, ReaperAckAt, CallPCs, CreatePCs,
    JoinPCs, DetachPCs, ExitPCs, Threads, Go, Return, Acquire, Release, ReaperGo,
    callVars, controlVars, reaperVars
  <1>3. ASSUME NEW t \in Threads, NEW w \in Workers, ThreadCreate(t, w)
        PROVE  AckAt(y, x)'
    BY <1>3 DEF ThreadCreate
  <1>4. ASSUME NEW t \in Threads, NEW w \in Workers, ThreadJoin(t, w)
        PROVE  AckAt(y, x)'
    BY <1>4 DEF ThreadJoin, MayCall, Left
  <1>5. ASSUME NEW t \in Threads, NEW w \in Workers, ThreadDetach(t, w)
        PROVE  AckAt(y, x)'
    BY <1>5 DEF ThreadDetach, MayCall, Left
  <1>6. ASSUME NEW t \in Threads, RegisterThread(t)
        PROVE  AckAt(y, x)'
    BY <1>6 DEF RegisterThread, IdIsFree
  <1>7. ASSUME NEW t \in Threads, StartThreadFails(t)
        PROVE  AckAt(y, x)'
    BY <1>7 DEF StartThreadFails
  <1>8. ASSUME NEW t \in Threads, UndoCreate(t)
        PROVE  AckAt(y, x)'
    BY <1>8 DEF UndoCreate
  <1>9. ASSUME NEW t \in Threads, StoreHandle(t)
        PROVE  AckAt(y, x)'
    BY <1>9 DEF StoreHandle
  <1>10. ASSUME NEW t \in Threads, JoinSuspends(t)
        PROVE  AckAt(y, x)'
    BY <1>10 DEF JoinSuspends
  <1>11. ASSUME NEW t \in Threads, JoinGetCompletion(t)
        PROVE  AckAt(y, x)'
    BY <1>11 DEF JoinGetCompletion
  <1>12. ASSUME NEW t \in Threads, JoinDeleted(t)
        PROVE  AckAt(y, x)'
    BY <1>12 DEF JoinDeleted
  <1>13. ASSUME NEW t \in Threads, JoinLock(t)
        PROVE  AckAt(y, x)'
    BY <1>13 DEF JoinLock
  <1>14. ASSUME NEW t \in Threads, JoinRefused(t)
        PROVE  AckAt(y, x)'
    BY <1>14 DEF JoinRefused
  <1>15. ASSUME NEW t \in Threads, JoinClaims(t)
        PROVE  AckAt(y, x)'
    BY <1>15 DEF JoinClaims
  <1>16. ASSUME NEW t \in Threads, JoinEnqueues(t)
        PROVE  AckAt(y, x)'
    BY <1>16 DEF JoinEnqueues
  <1>17. ASSUME NEW t \in Threads, JoinAcknowledged(t)
        PROVE  AckAt(y, x)'
    BY <1>17 DEF JoinAcknowledged
  <1>18. ASSUME NEW t \in Threads, DetachLock(t)
        PROVE  AckAt(y, x)'
    BY <1>18 DEF DetachLock
  <1>19. ASSUME NEW t \in Threads, DetachRefused(t)
        PROVE  AckAt(y, x)'
    BY <1>19 DEF DetachRefused
  <1>20. ASSUME NEW t \in Threads, DetachRunning(t)
        PROVE  AckAt(y, x)'
    BY <1>20 DEF DetachRunning
  <1>21. ASSUME NEW t \in Threads, DetachFinished(t)
        PROVE  AckAt(y, x)'
    BY <1>21 DEF DetachFinished
  <1>22. ASSUME NEW t \in Threads, DetachEnqueues(t)
        PROVE  AckAt(y, x)'
    BY <1>22 DEF DetachEnqueues
  <1>23. ASSUME NEW w \in Workers, EntryFind(w)
        PROVE  AckAt(y, x)'
    BY <1>23 DEF EntryFind
  <1>24. ASSUME NEW w \in Workers, EntryReturns(w)
        PROVE  AckAt(y, x)'
    BY <1>24 DEF EntryReturns
  <1>25. ASSUME NEW w \in Workers, CallbacksReturn(w)
        PROVE  AckAt(y, x)'
    BY <1>25 DEF CallbacksReturn
  <1>26. ASSUME NEW w \in Workers, ExitLock(w)
        PROVE  AckAt(y, x)'
    BY <1>26 DEF ExitLock
  <1>27. ASSUME NEW w \in Workers, PublishFinished(w)
        PROVE  AckAt(y, x)'
    BY <1>27 DEF PublishFinished
  <1>28. ASSUME NEW w \in Workers, PutCompletion(w)
        PROVE  AckAt(y, x)'
    BY <1>28 DEF PutCompletion
  <1>29. ASSUME NEW w \in Workers, ExitEnqueues(w)
        PROVE  AckAt(y, x)'
    BY <1>29 DEF ExitEnqueues
  <1>30. ASSUME NEW w \in Workers, ThreadReturns(w)
        PROVE  AckAt(y, x)'
    BY <1>30 DEF ThreadReturns
  <1>31. CASE ReaperReceive
    BY <1>31 DEF ReaperReceive
  <1>32. CASE ReaperFind
    BY <1>32 DEF ReaperFind
  <1>33. CASE ReaperPoll
    BY <1>33 DEF ReaperPoll
  <1>34. CASE ReaperUnregister
    BY <1>34 DEF ReaperUnregister
  <1>35. CASE ReaperFree
    BY <1>35 DEF ReaperFree
  <1>36. CASE ReaperAcknowledge
    BY <1>36 DEF ReaperAcknowledge
  <1> HIDE DEF AckAt
  <1> QED
    BY <1>1, <1>2, <1>3, <1>4, <1>5, <1>6, <1>7, <1>8, <1>9, <1>10, <1>11, <1>12,
      <1>13, <1>14, <1>15, <1>16, <1>17, <1>18, <1>19, <1>20, <1>21, <1>22, <1>23,
      <1>24, <1>25, <1>26, <1>27, <1>28, <1>29, <1>30, <1>31, <1>32, <1>33, <1>34,
      <1>35, <1>36
       DEF Next, Calls, Create, Join, Detach, Exit, Reaper

\* The reaper acknowledges to the joiner whose request it has served.
LEMMA ReaperAckStep ==
    ASSUME IInv, TypeInv', Next,
           NEW y \in Threads, ReaperAckAt(y), AckInv
    PROVE  ReaperAckAt(y)'
  <1>1. ASSUME NEW t \in Threads, StartThread(t)
        PROVE  ReaperAckAt(y)'
    BY <1>1, StartThreadEffect, ConstantsAssumption DEF AckInv, ReaperAckAt, Threads
  <1>2. CASE ReaperPoll
    <2>1. /\ reaper_pc = "poll" /\ reaper_pc' = "delete"
          /\ reaper_ack' = cleanup_ack[reaper_control]
          /\ UNCHANGED <<pc, target, acknowledgement, reaper_control>>
      BY <1>2 DEF ReaperPoll, ReaperGo, callVars
    <2>2. /\ reaper_control \in Workers /\ memory[reaper_control] = "allocated"
          /\ ReaperHas(reaper_control)
      BY <2>1 DEF IInv, TypeInv, ReaperInv, ReaperAt, ReaperHas
    <2>3. ~Sender(y, reaper_control)
      BY <2>2 DEF IInv, RequestInv, RequestAt
    <2> QED
      BY ZenonT(30), <2>1, <2>2, <2>3 DEF AckInv, AckAt, ReaperAckAt, Sender
  <1> USE ConstantsAssumption DEF IInv, AckInv, AckAt, ReaperAckAt, TypeInv, TypeOK,
    CallPCs, CreatePCs, JoinPCs, DetachPCs, ExitPCs, Threads, Go, Return, Acquire,
    Release, SendTo, ReaperGo, callVars, controlVars, registryVars, reaperVars,
    handleVars
  <1>3. ASSUME NEW t \in Threads, NEW w \in Workers, ThreadCreate(t, w)
        PROVE  ReaperAckAt(y)'
    BY <1>3 DEF ThreadCreate
  <1>4. ASSUME NEW t \in Threads, NEW w \in Workers, ThreadJoin(t, w)
        PROVE  ReaperAckAt(y)'
    BY <1>4 DEF ThreadJoin, MayCall, Left
  <1>5. ASSUME NEW t \in Threads, NEW w \in Workers, ThreadDetach(t, w)
        PROVE  ReaperAckAt(y)'
    BY <1>5 DEF ThreadDetach, MayCall, Left
  <1>6. ASSUME NEW t \in Threads, RegisterThread(t)
        PROVE  ReaperAckAt(y)'
    BY <1>6 DEF RegisterThread, IdIsFree
  <1>7. ASSUME NEW t \in Threads, StartThreadFails(t)
        PROVE  ReaperAckAt(y)'
    BY <1>7 DEF StartThreadFails
  <1>8. ASSUME NEW t \in Threads, UndoCreate(t)
        PROVE  ReaperAckAt(y)'
    BY <1>8 DEF UndoCreate
  <1>9. ASSUME NEW t \in Threads, StoreHandle(t)
        PROVE  ReaperAckAt(y)'
    BY <1>9 DEF StoreHandle
  <1>10. ASSUME NEW t \in Threads, JoinSuspends(t)
        PROVE  ReaperAckAt(y)'
    BY <1>10 DEF JoinSuspends
  <1>11. ASSUME NEW t \in Threads, JoinGetCompletion(t)
        PROVE  ReaperAckAt(y)'
    BY <1>11 DEF JoinGetCompletion
  <1>12. ASSUME NEW t \in Threads, JoinDeleted(t)
        PROVE  ReaperAckAt(y)'
    BY <1>12 DEF JoinDeleted
  <1>13. ASSUME NEW t \in Threads, JoinLock(t)
        PROVE  ReaperAckAt(y)'
    BY <1>13 DEF JoinLock
  <1>14. ASSUME NEW t \in Threads, JoinRefused(t)
        PROVE  ReaperAckAt(y)'
    BY <1>14 DEF JoinRefused
  <1>15. ASSUME NEW t \in Threads, JoinClaims(t)
        PROVE  ReaperAckAt(y)'
    BY <1>15 DEF JoinClaims
  <1>16. ASSUME NEW t \in Threads, JoinEnqueues(t)
        PROVE  ReaperAckAt(y)'
    BY <1>16 DEF JoinEnqueues
  <1>17. ASSUME NEW t \in Threads, JoinAcknowledged(t)
        PROVE  ReaperAckAt(y)'
    BY <1>17 DEF JoinAcknowledged
  <1>18. ASSUME NEW t \in Threads, DetachLock(t)
        PROVE  ReaperAckAt(y)'
    BY <1>18 DEF DetachLock
  <1>19. ASSUME NEW t \in Threads, DetachRefused(t)
        PROVE  ReaperAckAt(y)'
    BY <1>19 DEF DetachRefused
  <1>20. ASSUME NEW t \in Threads, DetachRunning(t)
        PROVE  ReaperAckAt(y)'
    BY <1>20 DEF DetachRunning
  <1>21. ASSUME NEW t \in Threads, DetachFinished(t)
        PROVE  ReaperAckAt(y)'
    BY <1>21 DEF DetachFinished
  <1>22. ASSUME NEW t \in Threads, DetachEnqueues(t)
        PROVE  ReaperAckAt(y)'
    BY <1>22 DEF DetachEnqueues
  <1>23. ASSUME NEW w \in Workers, EntryFind(w)
        PROVE  ReaperAckAt(y)'
    BY <1>23 DEF EntryFind
  <1>24. ASSUME NEW w \in Workers, EntryReturns(w)
        PROVE  ReaperAckAt(y)'
    BY <1>24 DEF EntryReturns
  <1>25. ASSUME NEW w \in Workers, CallbacksReturn(w)
        PROVE  ReaperAckAt(y)'
    BY <1>25 DEF CallbacksReturn
  <1>26. ASSUME NEW w \in Workers, ExitLock(w)
        PROVE  ReaperAckAt(y)'
    BY <1>26 DEF ExitLock
  <1>27. ASSUME NEW w \in Workers, PublishFinished(w)
        PROVE  ReaperAckAt(y)'
    BY <1>27 DEF PublishFinished
  <1>28. ASSUME NEW w \in Workers, PutCompletion(w)
        PROVE  ReaperAckAt(y)'
    BY <1>28 DEF PutCompletion
  <1>29. ASSUME NEW w \in Workers, ExitEnqueues(w)
        PROVE  ReaperAckAt(y)'
    BY <1>29 DEF ExitEnqueues
  <1>30. ASSUME NEW w \in Workers, ThreadReturns(w)
        PROVE  ReaperAckAt(y)'
    BY <1>30 DEF ThreadReturns
  <1>31. CASE ReaperReceive
    BY <1>31 DEF ReaperReceive
  <1>32. CASE ReaperFind
    BY <1>32 DEF ReaperFind
  <1>33. CASE ReaperDelete
    BY <1>33 DEF ReaperDelete
  <1>34. CASE ReaperUnregister
    BY <1>34 DEF ReaperUnregister
  <1>35. CASE ReaperFree
    BY <1>35 DEF ReaperFree
  <1>36. CASE ReaperAcknowledge
    BY <1>36 DEF ReaperAcknowledge
  <1> HIDE DEF ReaperAckAt, IInv, TypeInv
  <1> QED
    BY <1>1, <1>2, <1>3, <1>4, <1>5, <1>6, <1>7, <1>8, <1>9, <1>10, <1>11, <1>12,
      <1>13, <1>14, <1>15, <1>16, <1>17, <1>18, <1>19, <1>20, <1>21, <1>22, <1>23,
      <1>24, <1>25, <1>26, <1>27, <1>28, <1>29, <1>30, <1>31, <1>32, <1>33, <1>34,
      <1>35, <1>36
       DEF Next, Calls, Create, Join, Detach, Exit, Reaper

\* A request is not lost on its way to the reaper.
LEMMA PromiseStep ==
    ASSUME IInv, TypeInv', Next,
           NEW x \in Workers, PromiseAt(x)
    PROVE  PromiseAt(x)'
  <1>1. ASSUME NEW t \in Threads, StartThread(t)
        PROVE  PromiseAt(x)'
    BY <1>1, StartThreadEffect, ConstantsAssumption
       DEF PromiseAt, Sender, InQueue, ReaperHas, Threads
  <1>2. ASSUME NEW w \in Workers, ExitEnqueues(w)
        PROVE  PromiseAt(x)'
    <2>1. w \in Threads /\ pc[w] = "x_send" /\ pc' = [pc EXCEPT ![w] = "returning"]
          /\ pc \in [Threads -> PCs] /\ target' = target
      BY <1>2 DEF ExitEnqueues, Go, IInv, TypeInv, TypeOK, Threads
    <2>2. /\ SendTo(registry_id[w])
          /\ UNCHANGED <<enqueue, registry, registry_id, cleanup_queued, reaper_pc,
                         reaper_message, reaper_control>>
      BY <1>2 DEF ExitEnqueues, controlVars, registryVars, reaperVars
    <2>3. InQueue(w)' /\ (InQueue(x) => InQueue(x)')
      BY <2>2, SendArrives
    <2>4. ASSUME NEW u \in Threads, Sender(u, x), x # w
          PROVE  Sender(u, x)'
      BY <2>1, <2>2, <2>4 DEF Sender
    <2> QED
      BY <2>2, <2>3, <2>4 DEF PromiseAt, ReaperHas
  <1>3. ASSUME NEW t \in Threads, JoinEnqueues(t)
        PROVE  PromiseAt(x)'
    <2>0. PICK v \in Workers : v = target[t]
      BY <1>3 DEF JoinEnqueues, IInv, TypeInv, CallPCs, JoinPCs, DetachPCs
    <2>1. /\ pc[t] = "j_send" /\ pc' = [pc EXCEPT ![t] = "j_ack"]
          /\ pc \in [Threads -> PCs] /\ target \in [Threads -> Workers \union {None}]
          /\ \A u \in Threads : u # t => target'[u] = target[u]
      BY <1>3 DEF JoinEnqueues, Go, Return, IInv, TypeInv, TypeOK
    <2>2. /\ SendTo(registry_id[v])
          /\ UNCHANGED <<enqueue, registry, registry_id, cleanup_queued, reaper_pc,
                         reaper_message, reaper_control>>
      BY <1>3, <2>0 DEF JoinEnqueues, controlVars, registryVars, reaperVars
    <2>3. InQueue(v)' /\ (InQueue(x) => InQueue(x)')
      BY <2>2, SendArrives
    <2>4. ASSUME NEW u \in Threads, Sender(u, x), x # v
          PROVE  Sender(u, x)'
      BY <2>1, <2>2, <2>4, <2>0 DEF Sender
    <2> QED
      BY <2>2, <2>3, <2>4 DEF PromiseAt, ReaperHas
  <1>4. ASSUME NEW t \in Threads, DetachEnqueues(t)
        PROVE  PromiseAt(x)'
    <2>0. PICK v \in Workers : v = target[t]
      BY <1>4 DEF DetachEnqueues, IInv, TypeInv, CallPCs, JoinPCs, DetachPCs
    <2>1. /\ pc[t] = "d_send" /\ pc' = [pc EXCEPT ![t] = "user"]
          /\ pc \in [Threads -> PCs] /\ target \in [Threads -> Workers \union {None}]
          /\ \A u \in Threads : u # t => target'[u] = target[u]
      BY SMTT(30), <1>4 DEF DetachEnqueues, Go, Return, IInv, TypeInv, TypeOK
    <2>2. /\ SendTo(registry_id[v])
          /\ UNCHANGED <<enqueue, registry, registry_id, cleanup_queued, reaper_pc,
                         reaper_message, reaper_control>>
      BY <1>4, <2>0 DEF DetachEnqueues, controlVars, registryVars, reaperVars
    <2>3. InQueue(v)' /\ (InQueue(x) => InQueue(x)')
      BY <2>2, SendArrives
    <2>4. ASSUME NEW u \in Threads, Sender(u, x), x # v
          PROVE  Sender(u, x)'
      BY <2>1, <2>2, <2>4, <2>0 DEF Sender
    <2> QED
      BY <2>2, <2>3, <2>4 DEF PromiseAt, ReaperHas
  <1>5. CASE ReaperReceive
    <2>1. /\ reaper_message' = cleanup_queue[1] /\ Len(cleanup_queue) \in Nat \ {0}
          /\ Len(cleanup_queue') = Len(cleanup_queue) - 1
          /\ \A i \in 1..Len(cleanup_queue') : cleanup_queue'[i] = cleanup_queue[i + 1]
      BY <1>5 DEF ReaperReceive, IInv, TypeInv, TypeOK
    <2>2. /\ reaper_pc = "receive" /\ reaper_pc' = "find"
          /\ UNCHANGED <<pc, target, enqueue, registry, registry_id, cleanup_queued>>
      BY <1>5 DEF ReaperReceive, ReaperGo, callVars, controlVars, registryVars
    <2>3. \A u \in Threads : Sender(u, x)' <=> Sender(u, x)
      BY <2>2 DEF Sender
    <2>4. InQueue(x) => ReaperHas(x)' \/ InQueue(x)'
      <3> SUFFICES ASSUME NEW i \in 1..Len(cleanup_queue),
                          cleanup_queue[i] = registry_id[x], i # 1
                   PROVE  InQueue(x)'
        BY <2>1, <2>2 DEF InQueue, ReaperHas
      <3>1. i - 1 \in 1..Len(cleanup_queue') /\ (i - 1) + 1 = i
        BY <2>1
      <3> QED
        BY <2>1, <2>2, <3>1 DEF InQueue
    <2>5. ~ReaperHas(x)
      BY <2>2 DEF ReaperHas
    <2> QED
      BY <2>2, <2>3, <2>4, <2>5 DEF PromiseAt
  <1>6. CASE ReaperFind
    <2>1. PICK v \in registry : FoundControl(v)
      BY <1>6, ReaperFindEffect
    <2>2. \A u \in Threads : Sender(u, x)' <=> Sender(u, x)
      BY <2>1 DEF FoundControl, Sender
    <2>3. InQueue(x)' <=> InQueue(x)
      BY <2>1 DEF FoundControl, InQueue
    <2>4. x \in registry /\ ReaperHas(x) => x = v
      BY <2>1 DEF FoundControl, ReaperHas, IInv, RegistryInv, RegistryAt, TypeInv, TypeOK
    <2>5. ReaperHas(v)'
      BY <2>1 DEF FoundControl, ReaperHas
    <2> QED
      BY <2>1, <2>2, <2>3, <2>4, <2>5 DEF FoundControl, PromiseAt
  <1> USE ConstantsAssumption DEF IInv, CallInv, CallAt, Caller, CreateInv, CreateAt,
    Creating, RegistryInv, RegistryAt, PromiseAt, Sender, InQueue, ReaperHas, TypeInv,
    TypeOK, CallPCs, CreatePCs, JoinPCs, DetachPCs, ExitPCs, Threads, Go, Return,
    Acquire, Release, SendTo, ReaperGo, callVars, controlVars, registryVars,
    reaperVars, handleVars, ReaperInv, ReaperAt
  <1>7. ASSUME NEW t \in Threads, NEW w \in Workers, ThreadCreate(t, w)
        PROVE  PromiseAt(x)'
    BY <1>7 DEF ThreadCreate
  <1>8. ASSUME NEW t \in Threads, NEW w \in Workers, ThreadJoin(t, w)
        PROVE  PromiseAt(x)'
    BY <1>8 DEF ThreadJoin, MayCall, Left
  <1>9. ASSUME NEW t \in Threads, NEW w \in Workers, ThreadDetach(t, w)
        PROVE  PromiseAt(x)'
    BY <1>9 DEF ThreadDetach, MayCall, Left
  <1>10. ASSUME NEW t \in Threads, RegisterThread(t)
        PROVE  PromiseAt(x)'
    BY <1>10 DEF RegisterThread, IdIsFree
  <1>11. ASSUME NEW t \in Threads, StartThreadFails(t)
        PROVE  PromiseAt(x)'
    BY <1>11 DEF StartThreadFails
  <1>12. ASSUME NEW t \in Threads, UndoCreate(t)
        PROVE  PromiseAt(x)'
    BY <1>12 DEF UndoCreate
  <1>13. ASSUME NEW t \in Threads, StoreHandle(t)
        PROVE  PromiseAt(x)'
    BY <1>13 DEF StoreHandle
  <1>14. ASSUME NEW t \in Threads, JoinSuspends(t)
        PROVE  PromiseAt(x)'
    BY <1>14 DEF JoinSuspends
  <1>15. ASSUME NEW t \in Threads, JoinGetCompletion(t)
        PROVE  PromiseAt(x)'
    BY <1>15 DEF JoinGetCompletion
  <1>16. ASSUME NEW t \in Threads, JoinDeleted(t)
        PROVE  PromiseAt(x)'
    BY <1>16 DEF JoinDeleted
  <1>17. ASSUME NEW t \in Threads, JoinLock(t)
        PROVE  PromiseAt(x)'
    BY <1>17 DEF JoinLock
  <1>18. ASSUME NEW t \in Threads, JoinRefused(t)
        PROVE  PromiseAt(x)'
    BY <1>18 DEF JoinRefused
  <1>19. ASSUME NEW t \in Threads, JoinClaims(t)
        PROVE  PromiseAt(x)'
    BY <1>19 DEF JoinClaims
  <1>20. ASSUME NEW t \in Threads, JoinAcknowledged(t)
        PROVE  PromiseAt(x)'
    BY <1>20 DEF JoinAcknowledged
  <1>21. ASSUME NEW t \in Threads, DetachLock(t)
        PROVE  PromiseAt(x)'
    BY <1>21 DEF DetachLock
  <1>22. ASSUME NEW t \in Threads, DetachRefused(t)
        PROVE  PromiseAt(x)'
    BY <1>22 DEF DetachRefused
  <1>23. ASSUME NEW t \in Threads, DetachRunning(t)
        PROVE  PromiseAt(x)'
    BY <1>23 DEF DetachRunning
  <1>24. ASSUME NEW t \in Threads, DetachFinished(t)
        PROVE  PromiseAt(x)'
    BY <1>24 DEF DetachFinished
  <1>25. ASSUME NEW w \in Workers, EntryFind(w)
        PROVE  PromiseAt(x)'
    BY <1>25 DEF EntryFind
  <1>26. ASSUME NEW w \in Workers, EntryReturns(w)
        PROVE  PromiseAt(x)'
    BY <1>26 DEF EntryReturns
  <1>27. ASSUME NEW w \in Workers, CallbacksReturn(w)
        PROVE  PromiseAt(x)'
    BY <1>27 DEF CallbacksReturn
  <1>28. ASSUME NEW w \in Workers, ExitLock(w)
        PROVE  PromiseAt(x)'
    BY <1>28 DEF ExitLock
  <1>29. ASSUME NEW w \in Workers, PublishFinished(w)
        PROVE  PromiseAt(x)'
    BY <1>29 DEF PublishFinished
  <1>30. ASSUME NEW w \in Workers, PutCompletion(w)
        PROVE  PromiseAt(x)'
    BY <1>30 DEF PutCompletion
  <1>31. ASSUME NEW w \in Workers, ThreadReturns(w)
        PROVE  PromiseAt(x)'
    BY <1>31 DEF ThreadReturns
  <1>32. CASE ReaperPoll
    BY <1>32 DEF ReaperPoll
  <1>33. CASE ReaperDelete
    BY <1>33 DEF ReaperDelete
  <1>34. CASE ReaperUnregister
    BY <1>34 DEF ReaperUnregister
  <1>35. CASE ReaperFree
    BY <1>35 DEF ReaperFree
  <1>36. CASE ReaperAcknowledge
    BY <1>36 DEF ReaperAcknowledge
  <1> HIDE DEF PromiseAt, IInv, TypeInv
  <1> QED
    BY <1>1, <1>2, <1>3, <1>4, <1>5, <1>6, <1>7, <1>8, <1>9, <1>10, <1>11, <1>12,
      <1>13, <1>14, <1>15, <1>16, <1>17, <1>18, <1>19, <1>20, <1>21, <1>22, <1>23,
      <1>24, <1>25, <1>26, <1>27, <1>28, <1>29, <1>30, <1>31, <1>32, <1>33, <1>34,
      <1>35, <1>36
       DEF Next, Calls, Create, Join, Detach, Exit, Reaper

\* No step breaks what EndsOnce needs.
LEMMA EndsStep == IInv /\ EndsInv /\ [Next]_vars => EndsInv'
  <1>1. ASSUME EndsInv, UNCHANGED vars
        PROVE  EndsInv'
    BY <1>1 DEF vars, callVars, controlVars, registryVars, reaperVars, EndsInv, StageInv,
       StageAt, PromiseInv, PromiseAt, Sender, InQueue, ReaperHas, AckInv, AckAt,
       ReaperAckAt
  <1>2. ASSUME IInv, EndsInv, Next
        PROVE  EndsInv'
    <2>1. TypeInv'
      BY <1>2, TypeStep DEF IInv
    <2>2. StageInv'
      BY <1>2, <2>1, StageStep DEF EndsInv, StageInv
    <2>3. PromiseInv'
      BY <1>2, <2>1, PromiseStep DEF EndsInv, PromiseInv
    <2>4. AckInv'
      BY <1>2, <2>1, AckStep, ReaperAckStep DEF EndsInv, AckInv
    <2> QED
      BY <2>2, <2>3, <2>4 DEF EndsInv
  <1> QED
    BY <1>1, <1>2

\* A set without two different elements has none or one.
LEMMA AtMostOne ==
    ASSUME NEW S, \A a, b \in S : a = b
    PROVE  Cardinality(S) = IF S = {} THEN 0 ELSE 1
  <1>1. CASE S = {}
    BY <1>1, FS_EmptySet
  <1>2. CASE S # {}
    <2>1. PICK a \in S : S = {a}
      BY <1>2
    <2> QED
      BY <2>1, FS_Singleton
  <1> QED
    BY <1>1, <1>2

\* The three places where the request for a registered control can be exclude
\* each other, and the flag says whether it is in one of them.
LEMMA IInvOneRequest == IInv /\ PromiseInv => OneRequest
  <1> SUFFICES ASSUME IInv, PromiseInv, NEW w \in registry
               PROVE  Cardinality(Requesters(w)) + Cardinality(Requests(w))
                         + (IF ReaperHas(w) THEN 1 ELSE 0)
                      = (IF cleanup_queued[w] THEN 1 ELSE 0)
    BY DEF OneRequest
  <1>1. w \in Workers /\ cleanup_queued[w] \in BOOLEAN
    BY DEF IInv, TypeInv, TypeOK
  <1>2. \A t \in Threads : t \in Requesters(w) <=> Sender(t, w)
    BY DEF Requesters, Sender
  <1>3. Requests(w) # {} <=> InQueue(w)
    BY DEF Requests, InQueue
  <1>4. Cardinality(Requesters(w)) = IF Requesters(w) = {} THEN 0 ELSE 1
    <2>1. \A t, u \in Requesters(w) : t = u
      BY <1>1, <1>2 DEF Requesters, IInv, RequestInv, OneSender
    <2> QED
      BY <2>1, AtMostOne
  <1>5. Cardinality(Requests(w)) = IF Requests(w) = {} THEN 0 ELSE 1
    <2>1. \A i, j \in Requests(w) : i = j
      BY DEF Requests, IInv, RequestInv, QueueAt
    <2> QED
      BY <2>1, AtMostOne
  <1>6. ReaperHas(w) => cleanup_queued[w]
    BY <1>1 DEF ReaperHas, IInv, ReaperInv, ReaperAt, ReaperFinds, RegistryInv, RegistryAt,
       TypeInv, TypeOK
  <1>7. Requesters(w) # {} => cleanup_queued[w] /\ ~InQueue(w) /\ ~ReaperHas(w)
    BY <1>1, <1>2 DEF Requesters, IInv, RequestInv, RequestAt
  <1>8. InQueue(w) => cleanup_queued[w] /\ ~ReaperHas(w)
    BY <1>1, ConstantsAssumption DEF IInv, RequestInv, RequestAt, Threads
  <1>9. cleanup_queued[w] => Requesters(w) # {} \/ InQueue(w) \/ ReaperHas(w)
    BY <1>1, <1>2 DEF PromiseInv, PromiseAt
  <1> QED
    BY <1>1, <1>3, <1>4, <1>5, <1>6, <1>7, <1>8, <1>9

\* The invariants imply that a life ends once.
LEMMA IInvEndsOnce == IInv /\ EndsInv => EndsOnce
  <1> SUFFICES ASSUME IInv, EndsInv
               PROVE  EndsOnce
    OBVIOUS
  <1>1. PublishedAfterCallbacks
    BY ConstantsAssumption DEF PublishedAfterCallbacks, Left, ExitPCs, IInv, FlagInv,
       FlagAt, EndsInv, StageInv, StageAt, Threads
  <1>2. OneRequest
    BY IInvOneRequest DEF EndsInv
  <1>3. ReaperOwnsControl
    <2>1. reaper_pc \in {"poll", "delete"} => memory[reaper_control] = "allocated"
      BY DEF IInv, TypeInv, ReaperInv, ReaperAt
    <2>2. reaper_pc \in {"unregister", "free"} => memory[reaper_control] = "deleted"
      BY DEF IInv, TypeInv, ReaperInv, ReaperAt
    <2>3. reaper_ack # None => reaper_ack \in Threads
      BY DEF IInv, TypeInv, TypeOK
    <2> QED
      BY <2>1, <2>2, <2>3 DEF ReaperOwnsControl, EndsInv, AckInv, ReaperAckAt
  <1> QED
    BY <1>1, <1>2, <1>3 DEF EndsOnce

\* thread_entry publishes a thread after its callbacks, its cleanup is requested
\* once by whoever set cleanup_queued, and only the reaper serves the request and
\* wakes the joiner that waits for it, for any number of threads and racing users.
THEOREM EndsOnceHolds == Spec => []EndsOnce
  <1> QED
    BY IInvEndsOnce, InitIInv, InitEndsInv, IInvStep, EndsStep, PTL DEF Spec

\* The same with memory safety, which a run checks where the handles are shared.
THEOREM EndsOnceSharedHolds == Spec => []EndsOnceShared
  <1>1. IInv /\ EndsInv => EndsOnceShared
    BY IInvSafe, IInvEndsOnce DEF EndsOnceShared
  <1> QED
    BY <1>1, InitIInv, InitEndsInv, IInvStep, EndsStep, PTL DEF Spec

-----------------------------------------------------------------------------
(* The life implements its contract.                                       *)

\* What a join and a detach have claimed, they keep until they return.
ClaimAt(t, w) ==
    /\ target[t] = w /\ pc[t] \in {"j_send", "j_ack"} => cleanup_queued[w] /\ ~detached[w]
    /\ target[t] = w /\ pc[t] = "j_ack" /\ acknowledgement[t] = "posted" => memory[w] = "freed"
    /\ target[t] = w /\ pc[t] = "d_send" => detached[w]
    /\ handle[w] = "joined" => cleanup_queued[w] /\ ~detached[w]
ClaimInv == \A t \in Threads, w \in Workers : ClaimAt(t, w)

\* Nothing is claimed yet.
LEMMA InitClaimInv == Init => ClaimInv
  BY ConstantsAssumption DEF Init, ClaimInv, ClaimAt, Threads

\* A claim is neither given up nor taken over.
LEMMA ClaimStep ==
    ASSUME IInv, TypeInv', Next,
           NEW y \in Threads, NEW x \in Workers, ClaimInv, AckInv
    PROVE  ClaimAt(y, x)'
  <1>0. /\ pc \in [Threads -> PCs] /\ target \in [Threads -> Workers \union {None}]
        /\ stage \in [Threads -> {"entry", "callbacks"}]
        /\ acknowledgement \in [Threads -> {"none", "created", "posted"}]
        /\ memory \in [Workers -> {"unused", "allocated", "deleted", "freed"}]
        /\ detached \in [Workers -> BOOLEAN] /\ cleanup_queued \in [Workers -> BOOLEAN]
        /\ handle \in [Workers -> {"none", "joinable", "joined", "detached"}]
        /\ \A t \in Threads : pc[t] \in CallPCs => target[t] \in Workers
        /\ reaper_pc \in {"delete", "free"} => reaper_control \in Workers
    BY DEF IInv, TypeInv, TypeOK
  <1>1. ASSUME NEW t \in Threads, StartThread(t)
        PROVE  ClaimAt(y, x)'
    BY <1>1, StartThreadEffect, ConstantsAssumption DEF ClaimInv, ClaimAt, Threads
  <1>2. CASE ReaperDelete
    <2>1. /\ memory[reaper_control] = "allocated"
          /\ memory' = [memory EXCEPT ![reaper_control] = "deleted"]
          /\ UNCHANGED <<pc, target, acknowledgement, cleanup_queued, detached, handle>>
      BY <1>2 DEF ReaperDelete, callVars, handleVars, IInv, TypeInv, ReaperInv, ReaperAt
    <2> QED
      BY <2>1, <1>0 DEF ClaimInv, ClaimAt
  <1>3. CASE ReaperAcknowledge
    <2>1. /\ \A t \in Threads : acknowledgement'[t] =
                IF t = reaper_ack THEN "posted" ELSE acknowledgement[t]
          /\ UNCHANGED <<pc, target, memory, cleanup_queued, detached, handle>>
          /\ reaper_pc = "acknowledge"
      BY <1>3 DEF ReaperAcknowledge, controlVars, handleVars
    <2>2. y = reaper_ack => target[y] = reaper_control /\ memory[reaper_control] = "freed"
      BY <2>1 DEF AckInv, ReaperAckAt
    <2> QED
      BY <2>1, <2>2, <1>0 DEF ClaimInv, ClaimAt
  <1>4. ASSUME NEW t \in Threads, JoinEnqueues(t)
        PROVE  ClaimAt(y, x)'
    <2>1. acknowledgement[t] = "created" /\ target[t] \in Workers
      BY <1>4, <1>0 DEF JoinEnqueues, AckInv, AckAt, CallPCs, JoinPCs
    <2>2. /\ pc[t] = "j_send" /\ pc' = [pc EXCEPT ![t] = "j_ack"]
          /\ UNCHANGED <<target, acknowledgement, memory, cleanup_queued, detached, handle>>
      BY <1>4 DEF JoinEnqueues, Go, controlVars, handleVars
    <2> QED
      BY <2>1, <2>2, <1>0 DEF ClaimInv, ClaimAt
  <1> USE ConstantsAssumption, <1>0 DEF ClaimAt, ClaimInv, CallPCs, CreatePCs,
    JoinPCs, DetachPCs, ExitPCs, Threads, Go, Return, Acquire, Release, ReaperGo,
    callVars, controlVars, reaperVars, handleVars
  <1>5. ASSUME NEW t \in Threads, NEW w \in Workers, ThreadCreate(t, w)
        PROVE  ClaimAt(y, x)'
    BY <1>5 DEF ThreadCreate
  <1>6. ASSUME NEW t \in Threads, NEW w \in Workers, ThreadJoin(t, w)
        PROVE  ClaimAt(y, x)'
    BY <1>6 DEF ThreadJoin, MayCall, Left
  <1>7. ASSUME NEW t \in Threads, NEW w \in Workers, ThreadDetach(t, w)
        PROVE  ClaimAt(y, x)'
    BY <1>7 DEF ThreadDetach, MayCall, Left
  <1>8. ASSUME NEW t \in Threads, RegisterThread(t)
        PROVE  ClaimAt(y, x)'
    BY <1>8 DEF RegisterThread, IdIsFree
  <1>9. ASSUME NEW t \in Threads, StartThreadFails(t)
        PROVE  ClaimAt(y, x)'
    BY <1>9 DEF StartThreadFails
  <1>10. ASSUME NEW t \in Threads, UndoCreate(t)
        PROVE  ClaimAt(y, x)'
    BY <1>10 DEF UndoCreate
  <1>11. ASSUME NEW t \in Threads, StoreHandle(t)
        PROVE  ClaimAt(y, x)'
    BY <1>11 DEF StoreHandle
  <1>12. ASSUME NEW t \in Threads, JoinSuspends(t)
        PROVE  ClaimAt(y, x)'
    BY <1>12 DEF JoinSuspends
  <1>13. ASSUME NEW t \in Threads, JoinGetCompletion(t)
        PROVE  ClaimAt(y, x)'
    BY <1>13 DEF JoinGetCompletion
  <1>14. ASSUME NEW t \in Threads, JoinDeleted(t)
        PROVE  ClaimAt(y, x)'
    BY <1>14 DEF JoinDeleted
  <1>15. ASSUME NEW t \in Threads, JoinLock(t)
        PROVE  ClaimAt(y, x)'
    BY <1>15 DEF JoinLock
  <1>16. ASSUME NEW t \in Threads, JoinRefused(t)
        PROVE  ClaimAt(y, x)'
    BY <1>16 DEF JoinRefused
  <1>17. ASSUME NEW t \in Threads, JoinClaims(t)
        PROVE  ClaimAt(y, x)'
    BY <1>17 DEF JoinClaims
  <1>18. ASSUME NEW t \in Threads, JoinAcknowledged(t)
        PROVE  ClaimAt(y, x)'
    BY <1>18 DEF JoinAcknowledged
  <1>19. ASSUME NEW t \in Threads, DetachLock(t)
        PROVE  ClaimAt(y, x)'
    BY <1>19 DEF DetachLock
  <1>20. ASSUME NEW t \in Threads, DetachRefused(t)
        PROVE  ClaimAt(y, x)'
    BY <1>20 DEF DetachRefused
  <1>21. ASSUME NEW t \in Threads, DetachRunning(t)
        PROVE  ClaimAt(y, x)'
    BY <1>21 DEF DetachRunning
  <1>22. ASSUME NEW t \in Threads, DetachFinished(t)
        PROVE  ClaimAt(y, x)'
    BY <1>22 DEF DetachFinished
  <1>23. ASSUME NEW t \in Threads, DetachEnqueues(t)
        PROVE  ClaimAt(y, x)'
    BY <1>23 DEF DetachEnqueues
  <1>24. ASSUME NEW w \in Workers, EntryFind(w)
        PROVE  ClaimAt(y, x)'
    BY <1>24 DEF EntryFind
  <1>25. ASSUME NEW w \in Workers, EntryReturns(w)
        PROVE  ClaimAt(y, x)'
    BY <1>25 DEF EntryReturns
  <1>26. ASSUME NEW w \in Workers, CallbacksReturn(w)
        PROVE  ClaimAt(y, x)'
    BY <1>26 DEF CallbacksReturn
  <1>27. ASSUME NEW w \in Workers, ExitLock(w)
        PROVE  ClaimAt(y, x)'
    BY <1>27 DEF ExitLock
  <1>28. ASSUME NEW w \in Workers, PublishFinished(w)
        PROVE  ClaimAt(y, x)'
    BY <1>28 DEF PublishFinished
  <1>29. ASSUME NEW w \in Workers, PutCompletion(w)
        PROVE  ClaimAt(y, x)'
    BY <1>29 DEF PutCompletion
  <1>30. ASSUME NEW w \in Workers, ExitEnqueues(w)
        PROVE  ClaimAt(y, x)'
    BY <1>30 DEF ExitEnqueues
  <1>31. ASSUME NEW w \in Workers, ThreadReturns(w)
        PROVE  ClaimAt(y, x)'
    BY <1>31 DEF ThreadReturns
  <1>32. CASE ReaperReceive
    BY <1>32 DEF ReaperReceive
  <1>33. CASE ReaperFind
    BY <1>33 DEF ReaperFind
  <1>34. CASE ReaperPoll
    BY <1>34 DEF ReaperPoll
  <1>35. CASE ReaperUnregister
    BY <1>35 DEF ReaperUnregister
  <1>36. CASE ReaperFree
    BY <1>36 DEF ReaperFree
  <1> HIDE DEF ClaimAt
  <1> QED
    BY <1>1, <1>2, <1>3, <1>4, <1>5, <1>6, <1>7, <1>8, <1>9, <1>10, <1>11, <1>12,
      <1>13, <1>14, <1>15, <1>16, <1>17, <1>18, <1>19, <1>20, <1>21, <1>22, <1>23,
      <1>24, <1>25, <1>26, <1>27, <1>28, <1>29, <1>30, <1>31, <1>32, <1>33, <1>34,
      <1>35, <1>36
       DEF Next, Calls, Create, Join, Detach, Exit, Reaper

\* The step is invisible in what the contract sees of w.
Same(w) == /\ Life(w)' = Life(w) /\ Claim(w)' = Claim(w)
           /\ (handle[w] = "joined")' = (handle[w] = "joined")

\* What a step that changes one thread does to the contract's variables.
LEMMA OneMoves ==
    ASSUME NEW v \in Workers, \A w \in Workers \ {v} : Same(w)
    PROVE  /\ [w \in Workers |-> Life(w)]'
                 = [[w \in Workers |-> Life(w)] EXCEPT ![v] = Life(v)']
           /\ [w \in Workers |-> Claim(w)]'
                 = [[w \in Workers |-> Claim(w)] EXCEPT ![v] = Claim(v)']
           /\ (handle[v] = "joined")' =>
                 {w \in Workers : handle[w] = "joined"}'
                    = {w \in Workers : handle[w] = "joined"} \union {v}
           /\ (handle[v] = "joined")' = (handle[v] = "joined") =>
                 UNCHANGED {w \in Workers : handle[w] = "joined"}
  <1> DEFINE lifes == [w \in Workers |-> Life(w)]
             claims == [w \in Workers |-> Claim(w)]
             joins == {w \in Workers : handle[w] = "joined"}
  <1>1. lifes' = [lifes EXCEPT ![v] = Life(v)']
    BY DEF Same
  <1>2. claims' = [claims EXCEPT ![v] = Claim(v)']
    BY DEF Same
  <1>3. \A w \in Workers \ {v} : w \in joins' <=> w \in joins
    BY DEF Same
  <1>4. joins \subseteq Workers /\ joins' \subseteq Workers
    OBVIOUS
  <1>5. (handle[v] = "joined")' <=> v \in joins'
    OBVIOUS
  <1>6. handle[v] = "joined" <=> v \in joins
    OBVIOUS
  <1> HIDE DEF joins
  <1>7. v \in joins' => joins' = joins \union {v}
    BY <1>3, <1>4
  <1>8. (v \in joins' <=> v \in joins) => joins' = joins
    BY <1>3, <1>4
  <1> USE DEF joins
  <1> QED
    BY <1>1, <1>2, <1>5, <1>6, <1>7, <1>8

\* A step that moves no thread is invisible.
LEMMA NobodyMoves ==
    ASSUME \A w \in Workers : Same(w)
    PROVE  UNCHANGED Contract!vars
  BY DEF Same, Contract!vars

\* The contract sees these variables only.
LEMMA NothingMoves ==
    ASSUME UNCHANGED <<pc, stage, memory, detached, cleanup_queued, handle>>
    PROVE  \A w \in Workers : Same(w)
  BY DEF Same, Life, Claim, Left

\* Every step is a step of the contract, or invisible to it.
LEMMA Simulates ==
    ASSUME IInv, EndsInv, ClaimInv, Next
    PROVE  [Contract!Next]_(Contract!vars)
  <1>0. /\ pc \in [Threads -> PCs] /\ target \in [Threads -> Workers \union {None}]
        /\ stage \in [Threads -> {"entry", "callbacks"}]
        /\ acknowledgement \in [Threads -> {"none", "created", "posted"}]
        /\ memory \in [Workers -> {"unused", "allocated", "deleted", "freed"}]
        /\ detached \in [Workers -> BOOLEAN] /\ cleanup_queued \in [Workers -> BOOLEAN]
        /\ handle \in [Workers -> {"none", "joinable", "joined", "detached"}]
        /\ \A t \in Threads : pc[t] \in CallPCs => target[t] \in Workers
        /\ reaper_pc \in {"delete", "free"} => reaper_control \in Workers
    BY DEF IInv, TypeInv, TypeOK
  <1> DEFINE Sim == (\A w \in Workers : Same(w)) \/ Contract!Next
  <1>1. ASSUME NEW t \in Threads, StartThread(t)
        PROVE  Sim
    <2>1. PICK v \in Workers : v = target[t]
      BY <1>1, StartThreadEffect
    <2>2. /\ pc[v] = "off" /\ pc[t] = "c_start" /\ t # v
          /\ \A u \in Threads : pc'[u] = IF u = v THEN "start"
                                         ELSE IF u = t THEN "c_store" ELSE pc[u]
          /\ UNCHANGED <<stage, memory, detached, cleanup_queued, handle>>
      BY <1>1, <2>1, StartThreadEffect
    <2>3. ASSUME NEW w \in Workers, w # v
          PROVE  Same(w)
      BY <2>2, <2>3 DEF Same, Life, Claim, Left, ExitPCs, Threads
    <2>4. /\ Life(v) = "absent" /\ Life(v)' = "running"
          /\ Claim(v)' = Claim(v) /\ handle'[v] = handle[v]
      BY <2>2 DEF Life, Claim, Left, ExitPCs, Threads
    <2>5. Contract!Create(v)
      BY <2>3, <2>4, OneMoves DEF Contract!Create
    <2> QED
      BY <2>5 DEF Contract!Next
  <1>2. ASSUME NEW w \in Workers, CallbacksReturn(w)
        PROVE  Sim
    <2>1. /\ w \in Threads /\ pc[w] = "user" /\ pc' = [pc EXCEPT ![w] = "x_lock"]
          /\ stage[w] = "callbacks"
          /\ UNCHANGED <<stage, memory, detached, cleanup_queued, handle>>
      BY <1>2 DEF CallbacksReturn, Go, controlVars, handleVars, Threads
    <2>2. ASSUME NEW v \in Workers, v # w
          PROVE  Same(v)
      BY <1>0, <2>1, <2>2 DEF Same, Life, Claim, Left, Threads
    <2>3. /\ Life(w) = "running" /\ Life(w)' = "exited"
          /\ Claim(w)' = Claim(w) /\ handle'[w] = handle[w]
      BY <1>0, <2>1 DEF Life, Claim, Left, ExitPCs
    <2>4. Contract!Exit(w)
      BY <2>2, <2>3, OneMoves DEF Contract!Exit
    <2> QED
      BY <2>4 DEF Contract!Next
  <1>3. ASSUME NEW t \in Threads, DetachRunning(t)
        PROVE  Sim
    <2>1. PICK v \in Workers : v = target[t]
      BY <1>3, <1>0 DEF DetachRunning, CallPCs, DetachPCs
    <2>2. /\ pc[t] = "d_locked" /\ pc' = [pc EXCEPT ![t] = "user"]
          /\ ~detached[v] /\ ~cleanup_queued[v]
          /\ detached' = [detached EXCEPT ![v] = TRUE]
          /\ \A w \in Workers \ {v} : cleanup_queued'[w] = cleanup_queued[w]
          /\ (handle[v] = "joined")' = (handle[v] = "joined")
          /\ \A w \in Workers \ {v} : handle'[w] = handle[w]
          /\ UNCHANGED <<stage, memory>>
      BY <1>3, <1>0, <2>1 DEF DetachRunning, Go, Return, handleVars, ClaimInv, ClaimAt
    <2>3. memory[v] = "allocated" /\ pc[v] # "off"
      BY <2>1, <2>2, IInvSafe DEF NoUseAfterFree, Dereferences, IInv, CallInv, CallAt,
         Caller, DetachPCs, CreateInv, CreateAt, Threads
    <2>4. ASSUME NEW w \in Workers, w # v
          PROVE  Same(w)
      BY <1>0, <2>2, <2>4 DEF Same, Life, Claim, Left, ExitPCs, Threads
    <2>5. /\ Life(v) \in {"running", "exited"} /\ Life(v)' = Life(v)
          /\ Claim(v) = "none" /\ Claim(v)' = "detach"
      BY <1>0, <2>2, <2>3 DEF Life, Claim, Left, ExitPCs, Threads
    <2>6. Contract!ClaimDetach(v)
      BY <2>2, <2>4, <2>5, OneMoves DEF Contract!ClaimDetach
    <2> QED
      BY <2>6 DEF Contract!Next
  <1>4. ASSUME NEW t \in Threads, DetachFinished(t)
        PROVE  Sim
    <2>1. PICK v \in Workers : v = target[t]
      BY <1>4, <1>0 DEF DetachFinished, CallPCs, DetachPCs
    <2>2. /\ pc[t] = "d_locked" /\ pc' = [pc EXCEPT ![t] = "d_send"]
          /\ ~detached[v] /\ ~cleanup_queued[v]
          /\ detached' = [detached EXCEPT ![v] = TRUE]
          /\ \A w \in Workers \ {v} : cleanup_queued'[w] = cleanup_queued[w]
          /\ (handle[v] = "joined")' = (handle[v] = "joined")
          /\ \A w \in Workers \ {v} : handle'[w] = handle[w]
          /\ UNCHANGED <<stage, memory>>
      BY <1>4, <1>0, <2>1 DEF DetachFinished, Go, Return, handleVars, ClaimInv, ClaimAt
    <2>3. memory[v] = "allocated" /\ pc[v] # "off"
      BY <2>1, <2>2, IInvSafe DEF NoUseAfterFree, Dereferences, IInv, CallInv, CallAt,
         Caller, DetachPCs, CreateInv, CreateAt, Threads
    <2>4. ASSUME NEW w \in Workers, w # v
          PROVE  Same(w)
      BY <1>0, <2>2, <2>4 DEF Same, Life, Claim, Left, ExitPCs, Threads
    <2>5. /\ Life(v) \in {"running", "exited"} /\ Life(v)' = Life(v)
          /\ Claim(v) = "none" /\ Claim(v)' = "detach"
      BY <1>0, <2>2, <2>3 DEF Life, Claim, Left, ExitPCs, Threads
    <2>6. Contract!ClaimDetach(v)
      BY <2>2, <2>4, <2>5, OneMoves DEF Contract!ClaimDetach
    <2> QED
      BY <2>6 DEF Contract!Next
  <1>5. ASSUME NEW t \in Threads, JoinClaims(t)
        PROVE  Sim
    <2>1. PICK v \in Workers : v = target[t]
      BY <1>5, <1>0 DEF JoinClaims, CallPCs, JoinPCs
    <2>2. /\ pc[t] = "j_locked" /\ pc' = [pc EXCEPT ![t] = "j_send"]
          /\ ~detached[v] /\ ~cleanup_queued[v]
          /\ cleanup_queued' = [cleanup_queued EXCEPT ![v] = TRUE]
          /\ UNCHANGED <<stage, memory, detached, handle>>
      BY <1>5, <2>1 DEF JoinClaims, Go, handleVars
    <2>3. memory[v] = "allocated" /\ finished[v]
      BY <2>1, <2>2, IInvSafe
         DEF NoUseAfterFree, Dereferences, IInv, FlagInv, FlagAt
    <2>4. stage[v] = "callbacks" /\ Left(v)
      BY <2>3, ConstantsAssumption
         DEF IInv, FlagInv, FlagAt, EndsInv, StageInv, StageAt, Left, ExitPCs, Threads
    <2>5. ASSUME NEW w \in Workers, w # v
          PROVE  Same(w)
      BY <1>0, <2>2, <2>5 DEF Same, Life, Claim, Left, ExitPCs, Threads
    <2>6. /\ Life(v) = "exited" /\ Life(v)' = "exited"
          /\ Claim(v) = "none" /\ Claim(v)' = "join" /\ handle'[v] = handle[v]
      BY <1>0, <2>2, <2>3, <2>4 DEF Life, Claim, Left, ExitPCs, Threads
    <2>7. Contract!ClaimJoin(v)
      BY <2>5, <2>6, OneMoves DEF Contract!ClaimJoin
    <2> QED
      BY <2>7 DEF Contract!Next
  <1>6. ASSUME NEW t \in Threads, JoinAcknowledged(t)
        PROVE  Sim
    <2>1. PICK v \in Workers : v = target[t]
      BY <1>6, <1>0 DEF JoinAcknowledged, CallPCs, JoinPCs
    <2>2. /\ pc[t] = "j_ack" /\ pc' = [pc EXCEPT ![t] = "user"]
          /\ acknowledgement[t] = "posted"
          /\ handle' = [handle EXCEPT ![v] = "joined"]
          /\ UNCHANGED <<stage, memory, detached, cleanup_queued>>
      BY <1>6, <2>1 DEF JoinAcknowledged, Return, controlVars
    <2>3. memory[v] = "freed" /\ cleanup_queued[v] /\ ~detached[v]
      BY <2>1, <2>2 DEF ClaimInv, ClaimAt
    <2>4. pc[v] = "completed"
      BY <2>1, <2>3 DEF IInv, DeadInv, DeadAt, Dead
    <2>5. ASSUME NEW w \in Workers, w # v
          PROVE  Same(w)
      BY <1>0, <2>2, <2>5 DEF Same, Life, Claim, Left, ExitPCs, Threads
    <2>6. /\ Life(v) = "reclaimed" /\ Life(v)' = "reclaimed"
          /\ Claim(v) = "join" /\ Claim(v)' = "join" /\ handle'[v] = "joined"
      BY <1>0, <2>2, <2>3, <2>4 DEF Life, Claim, Threads
    <2>7. Contract!JoinReturns(v)
      BY <2>5, <2>6, OneMoves DEF Contract!JoinReturns
    <2> QED
      BY <2>7 DEF Contract!Next
  <1>7. ASSUME ReaperFree
        PROVE  Sim
    <2>1. PICK v \in Workers : v = reaper_control
      BY <1>7, <1>0 DEF ReaperFree
    <2>2. /\ reaper_pc = "free" /\ memory' = [memory EXCEPT ![v] = "freed"]
          /\ UNCHANGED <<pc, stage, detached, cleanup_queued, handle>>
      BY <1>7, <2>1 DEF ReaperFree, callVars, handleVars
    <2>3. memory[v] = "deleted" /\ cleanup_queued[v] /\ pc[v] = "completed"
      BY <2>1, <2>2 DEF IInv, ReaperInv, ReaperAt
    <2>4. stage[v] = "callbacks"
      BY <2>3 DEF EndsInv, StageInv, StageAt
    <2>5. ASSUME NEW w \in Workers, w # v
          PROVE  Same(w)
      BY <1>0, <2>2, <2>5 DEF Same, Life, Claim, Left
    <2>6. /\ Life(v) = "exited" /\ Life(v)' = "reclaimed"
          /\ Claim(v) # "none" /\ Claim(v)' = Claim(v) /\ handle'[v] = handle[v]
      BY <1>0, <2>2, <2>3, <2>4 DEF Life, Claim, Left
    <2>7. Contract!Reclaim(v)
      BY <2>5, <2>6, OneMoves DEF Contract!Reclaim
    <2> QED
      BY <2>7 DEF Contract!Next
  <1>8. ASSUME NEW t \in Threads, UndoCreate(t)
        PROVE  Sim
    <2>1. /\ pc[target[t]] = "off" /\ target[t] \in Workers
          /\ pc[t] = "c_undo" /\ pc' = [pc EXCEPT ![t] = "user"]
          /\ memory' = [memory EXCEPT ![target[t]] = "freed"]
          /\ UNCHANGED <<stage, detached, cleanup_queued, handle>>
      BY <1>8, <1>0 DEF UndoCreate, Return, handleVars, IInv, CreateInv, CreateAt, Creating,
         CallPCs, CreatePCs
    <2> QED
      BY <1>0, <2>1 DEF Same, Life, Claim, Left, ExitPCs, Threads
  <1>9. ASSUME NEW t \in Threads, StoreHandle(t)
        PROVE  Sim
    <2>1. /\ handle[target[t]] = "none" /\ target[t] \in Workers
          /\ pc[t] = "c_store" /\ pc' = [pc EXCEPT ![t] = "user"]
          /\ handle' = [handle EXCEPT ![target[t]] = "joinable"]
          /\ UNCHANGED <<stage, memory, detached, cleanup_queued>>
      BY <1>9, <1>0 DEF StoreHandle, Return, controlVars, IInv, CreateInv, CreateAt, Creating,
         CallPCs, CreatePCs
    <2> QED
      BY <1>0, <2>1 DEF Same, Life, Claim, Left, ExitPCs, Threads
  <1>10. ASSUME NEW t \in Threads, DetachEnqueues(t)
        PROVE  Sim
    <2>1. /\ handle[target[t]] # "joined" /\ target[t] \in Workers
          /\ pc[t] = "d_send" /\ pc' = [pc EXCEPT ![t] = "user"]
          /\ handle' = [handle EXCEPT ![target[t]] = "detached"]
          /\ UNCHANGED <<stage, memory, detached, cleanup_queued>>
      BY <1>10, <1>0 DEF DetachEnqueues, Return, controlVars, ClaimInv, ClaimAt, CallPCs,
         DetachPCs
    <2> QED
      BY <1>0, <2>1 DEF Same, Life, Claim, Left, ExitPCs, Threads
  <1>11. ASSUME NEW w \in Workers, ThreadReturns(w)
        PROVE  Sim
    <2>1. /\ w \in Threads /\ pc[w] = "returning" /\ pc' = [pc EXCEPT ![w] = "completed"]
          /\ UNCHANGED <<stage, memory, detached, cleanup_queued, handle>>
      BY <1>11 DEF ThreadReturns, Go, controlVars, handleVars, Threads
    <2>2. memory[w] = "allocated"
      BY <2>1, IInvSafe DEF NoUseAfterFree, OnStack
    <2> QED
      BY <1>0, <2>1, <2>2 DEF Same, Life, Claim, Left, ExitPCs, Threads
  <1>12. ASSUME ReaperDelete
        PROVE  Sim
    <2>1. /\ memory[reaper_control] = "allocated" /\ reaper_control \in Workers
          /\ memory' = [memory EXCEPT ![reaper_control] = "deleted"]
          /\ UNCHANGED <<pc, stage, detached, cleanup_queued, handle>>
      BY <1>12, <1>0 DEF ReaperDelete, callVars, handleVars, IInv, ReaperInv, ReaperAt
    <2>2. ASSUME NEW w \in Workers
          PROVE  Same(w)
      BY <1>0, <2>1 DEF Same, Life, Claim, Left
    <2> QED
      BY <2>2
  <1>13. ASSUME ReaperReceive
        PROVE  Sim
    BY <1>13, NothingMoves DEF ReaperReceive, callVars, controlVars, handleVars
  <1>14. ASSUME ReaperFind
        PROVE  Sim
    BY <1>14, NothingMoves DEF ReaperFind, callVars, controlVars, handleVars
  <1>15. ASSUME ReaperPoll
        PROVE  Sim
    BY <1>15, NothingMoves DEF ReaperPoll, callVars, controlVars, handleVars
  <1>16. ASSUME ReaperUnregister
        PROVE  Sim
    BY <1>16, NothingMoves DEF ReaperUnregister, callVars, controlVars, handleVars
  <1>17. ASSUME ReaperAcknowledge
        PROVE  Sim
    BY <1>17, NothingMoves DEF ReaperAcknowledge, callVars, controlVars, handleVars
  <1> USE ConstantsAssumption, <1>0 DEF Same, Life, Claim, Left, CallPCs, CreatePCs,
    JoinPCs, DetachPCs, ExitPCs, Threads, Go, Return, Acquire, Release, ReaperGo,
    callVars, controlVars, registryVars, reaperVars, handleVars
  <1>18. ASSUME NEW t \in Threads, NEW w \in Workers, ThreadCreate(t, w)
        PROVE  Sim
    BY <1>18 DEF ThreadCreate
  <1>19. ASSUME NEW t \in Threads, NEW w \in Workers, ThreadJoin(t, w)
        PROVE  Sim
    BY <1>19 DEF ThreadJoin, MayCall, Left
  <1>20. ASSUME NEW t \in Threads, NEW w \in Workers, ThreadDetach(t, w)
        PROVE  Sim
    BY <1>20 DEF ThreadDetach, MayCall, Left
  <1>21. ASSUME NEW t \in Threads, RegisterThread(t)
        PROVE  Sim
    BY <1>21 DEF RegisterThread, IdIsFree
  <1>22. ASSUME NEW t \in Threads, StartThreadFails(t)
        PROVE  Sim
    BY <1>22 DEF StartThreadFails
  <1>23. ASSUME NEW t \in Threads, JoinSuspends(t)
        PROVE  Sim
    BY <1>23 DEF JoinSuspends
  <1>24. ASSUME NEW t \in Threads, JoinGetCompletion(t)
        PROVE  Sim
    BY <1>24 DEF JoinGetCompletion
  <1>25. ASSUME NEW t \in Threads, JoinDeleted(t)
        PROVE  Sim
    BY <1>25 DEF JoinDeleted
  <1>26. ASSUME NEW t \in Threads, JoinLock(t)
        PROVE  Sim
    BY <1>26 DEF JoinLock
  <1>27. ASSUME NEW t \in Threads, JoinRefused(t)
        PROVE  Sim
    BY <1>27 DEF JoinRefused
  <1>28. ASSUME NEW t \in Threads, JoinEnqueues(t)
        PROVE  Sim
    BY <1>28 DEF JoinEnqueues
  <1>29. ASSUME NEW t \in Threads, DetachLock(t)
        PROVE  Sim
    BY <1>29 DEF DetachLock
  <1>30. ASSUME NEW t \in Threads, DetachRefused(t)
        PROVE  Sim
    BY <1>30 DEF DetachRefused
  <1>31. ASSUME NEW w \in Workers, EntryFind(w)
        PROVE  Sim
    BY <1>31 DEF EntryFind
  <1>32. ASSUME NEW w \in Workers, EntryReturns(w)
        PROVE  Sim
    BY <1>32 DEF EntryReturns
  <1>33. ASSUME NEW w \in Workers, ExitLock(w)
        PROVE  Sim
    BY <1>33 DEF ExitLock
  <1>34. ASSUME NEW w \in Workers, PublishFinished(w)
        PROVE  Sim
    BY <1>34 DEF PublishFinished
  <1>35. ASSUME NEW w \in Workers, PutCompletion(w)
        PROVE  Sim
    BY <1>35 DEF PutCompletion
  <1>36. ASSUME NEW w \in Workers, ExitEnqueues(w)
        PROVE  Sim
    BY <1>36 DEF ExitEnqueues
  <1> HIDE DEF Sim, Same
  <1>37. Sim
    BY <1>1, <1>2, <1>3, <1>4, <1>5, <1>6, <1>7, <1>8, <1>9, <1>10, <1>11, <1>12,
      <1>13, <1>14, <1>15, <1>16, <1>17, <1>18, <1>19, <1>20, <1>21, <1>22, <1>23,
      <1>24, <1>25, <1>26, <1>27, <1>28, <1>29, <1>30, <1>31, <1>32, <1>33, <1>34,
      <1>35, <1>36
       DEF Next, Calls, Create, Join, Detach, Exit, Reaper
  <1> QED
    BY <1>37, NobodyMoves DEF Sim

\* The initial states of the backend are initial states of the contract.
LEMMA InitSimulates == Init => Contract!Init
  BY ConstantsAssumption DEF Init, Contract!Init, Life, Claim, Threads

\* The backend does what std::thread may rely on: a thread runs once, is claimed once
\* by a join or a detach, is reclaimed only after both, and a join returns only after
\* that (the safety part of ImplementsContract).
THEOREM ImplementsContractSafety == Spec => Contract!Safety
  <1> DEFINE I == IInv /\ EndsInv /\ ClaimInv
  <1>1. Init => I
    BY InitIInv, InitEndsInv, InitClaimInv
  <1>2. I /\ [Next]_vars => I'
    <2>1. ASSUME I, Next
          PROVE  ClaimInv'
      BY <2>1, TypeStep, ClaimStep DEF IInv, EndsInv, ClaimInv
    <2>2. ASSUME I, UNCHANGED vars
          PROVE  ClaimInv'
      BY <2>2 DEF vars, callVars, controlVars, handleVars, ClaimInv, ClaimAt
    <2> QED
      BY <2>1, <2>2, IInvStep, EndsStep
  <1>3. I /\ [Next]_vars => [Contract!Next]_(Contract!vars)
    <2>1. UNCHANGED vars => \A w \in Workers : Same(w)
      BY DEF vars, callVars, controlVars, handleVars, Same, Life, Claim, Left
    <2> QED
      BY <2>1, Simulates, NobodyMoves
  <1> HIDE DEF I
  <1> QED
    BY <1>1, <1>2, <1>3, InitSimulates, PTL DEF Spec, Contract!Safety

=============================================================================
