----------------------------- MODULE SyncObjects ----------------------------
(***************************************************************************)
(* Mutexes and semaphores of the C++ runtime: backend.cpp. A handle starts *)
(* without a kernel object; the first call that needs it creates it under  *)
(* the initialization mutex. A wait with a deadline is made of waits in    *)
(* whole ticks, which begin somewhere within a tick, and so is a sleep.    *)
(*                                                                         *)
(* Time is counted in parts of a tick; deadlines say what is left. A call  *)
(* is a "wait", "try", "timed" or "put" of a mutex and a semaphore alike.  *)
(***************************************************************************)
EXTENDS Integers

CONSTANTS
    Threads,
    Parts,          \* parts of a tick
    MaxFiniteWait,  \* MAX_FINITE_WAIT, in ticks
    Initial,        \* a semaphore's initial_count
    MaxWait, MaxDepth,          \* bounds: deadlines ahead, depth or count,
    MaxObjects, MaxFailures     \* created objects and failed creations

VARIABLES
    kind,           \* of the handle: "mutex", "recursive" or "semaphore"
    calls,          \* per thread: the call, where it is, the object it found, its deadline and ticks
    initializer,    \* owner of initialization_mutex
    implementation, \* the object the handle points to; 0 for none
    created,        \* objects created so far
    owner, depth,   \* of the mutex
    count,          \* of the semaphore
    held,           \* ghost: locks each thread has
    taken,          \* ghost: successful waits on the semaphore less posts
    failures,
    part            \* of the current tick

vars == <<kind, calls, initializer, implementation, created, owner, depth, count, held, taken, failures, part>>
object == <<owner, depth, count, held, taken>>
handle == <<initializer, implementation, created, failures>>

None == 0
Nobody == "nobody"
Idle == [op |-> "none", at |-> "idle", object |-> None, deadline |-> 0, until |-> 0, ticks |-> 0]
Less(a, b) == IF a < b THEN a ELSE b
duration_to_ticks(time) == (time + Parts - 1) \div Parts
Wakes(ticks) == ticks * Parts - part    \* at the end of the last of that many ticks

Init ==
    /\ kind \in {"mutex", "recursive", "semaphore"}
    /\ calls = [t \in Threads |-> Idle]
    /\ initializer = Nobody /\ implementation = None /\ created = 0
    /\ owner = Nobody /\ depth = 0 /\ count = Initial
    /\ held = [t \in Threads |-> 0] /\ taken = 0
    /\ failures = 0 /\ part = 0

At(t, op, where) == calls[t].op = op /\ calls[t].at = where
Goes(t, where) == calls' = [calls EXCEPT ![t].at = where]
Returns(t) == calls' = [calls EXCEPT ![t] = Idle]

Call(t, op, deadline) ==
    /\ calls[t] = Idle
    /\ calls' = [calls EXCEPT ![t] = [Idle EXCEPT !.op = op, !.at = "loads", !.deadline = deadline]]
    /\ UNCHANGED <<kind, handle, object, part>>

\* ensure_mutex and ensure_semaphore: load, and if there is none, lock, load again, create.
Load(t) ==
    /\ calls[t].at = "loads"
    /\ CASE implementation # None -> calls' = [calls EXCEPT ![t].at = "found", ![t].object = implementation]
         [] implementation = None /\ calls[t].op = "put" /\ kind # "semaphore" -> Returns(t)
         [] OTHER -> Goes(t, "ensures")
    /\ UNCHANGED <<kind, handle, object, part>>
LockInitialization(t) ==
    /\ calls[t].at = "ensures" /\ initializer = Nobody
    /\ initializer' = t
    /\ Goes(t, "creates")
    /\ UNCHANGED <<kind, implementation, created, failures, object, part>>
LoadedAgain_Not == None
LoadedAgain == implementation
Ensure(t) ==
    /\ calls[t].at = "creates"
    /\ initializer' = Nobody
    /\ \/ /\ LoadedAgain # None \/ created < MaxObjects
          /\ implementation' = IF LoadedAgain # None THEN LoadedAgain ELSE created + 1
          /\ created' = IF LoadedAgain # None THEN created ELSE created + 1
          /\ calls' = [calls EXCEPT ![t].at = "found", ![t].object = implementation']
          /\ IF LoadedAgain # None THEN UNCHANGED <<owner, depth, count>>
             ELSE owner' = Nobody /\ depth' = 0 /\ count' = Initial
          /\ UNCHANGED failures
       \/ /\ LoadedAgain = None /\ failures < MaxFailures
          /\ failures' = failures + 1
          /\ Returns(t)
          /\ UNCHANGED <<implementation, created, owner, depth, count>>
    /\ UNCHANGED <<kind, held, taken, part>>

Available(t) == CASE kind = "semaphore" -> count > 0
                  [] kind = "mutex" -> owner = Nobody
                  [] kind = "recursive" -> owner = Nobody \/ (owner = t /\ depth < MaxDepth)
Take(t) ==
    /\ Available(t)
    /\ IF kind = "semaphore" THEN count' = count - 1 /\ taken' = taken + 1 /\ UNCHANGED <<owner, depth, held>>
       ELSE /\ owner' = t /\ depth' = depth + 1
            /\ held' = [held EXCEPT ![t] = @ + 1]
            /\ UNCHANGED <<count, taken>>
    /\ Returns(t)

\* lock_mutex and mutex_timed_lock refuse a thread that has the mutex already.
OwnsIt(t) == kind = "mutex" /\ owner = t
Refuse(t) ==
    /\ calls[t].at = "found" /\ calls[t].op # "put" /\ OwnsIt(t)
    /\ Returns(t)
    /\ UNCHANGED <<kind, handle, object, part>>
Wait(t) ==
    /\ At(t, "wait", "found") /\ ~OwnsIt(t)
    /\ Take(t)
    /\ UNCHANGED <<kind, handle, part>>
Try(t) ==
    /\ At(t, "try", "found") /\ ~OwnsIt(t)
    /\ Take(t) \/ (~Available(t) /\ Returns(t) /\ UNCHANGED object)
    /\ UNCHANGED <<kind, handle, part>>

\* wait_until: how many ticks remain, a wait of that many, and again; the last
\* attempt at the deadline does not wait.
deadline_wait_ticks(t) ==
    /\ At(t, "timed", "found") /\ ~OwnsIt(t)
    /\ IF calls[t].deadline = 0 THEN Goes(t, "last")
       ELSE calls' = [calls EXCEPT ![t].at = "begins",
                        ![t].ticks = Less(duration_to_ticks(calls[t].deadline), MaxFiniteWait)]
    /\ UNCHANGED <<kind, handle, object, part>>
BeginWait(t) ==
    /\ At(t, "timed", "begins")
    /\ calls' = [calls EXCEPT ![t].at = "waits", ![t].ticks = 0, ![t].until = Wakes(calls[t].ticks)]
    /\ UNCHANGED <<kind, handle, object, part>>
Succeed(t) ==
    /\ calls[t].at \in {"waits", "last"}
    /\ Take(t)
    /\ UNCHANGED <<kind, handle, part>>
AfterTimeout_Returns(t) == Returns(t)
AfterTimeout(t) == calls' = [calls EXCEPT ![t].at = "found", ![t].until = 0]
TimeOut(t) ==
    /\ calls[t].at = "waits" /\ calls[t].until = 0 /\ ~Available(t)
    /\ AfterTimeout(t)
    /\ UNCHANGED <<kind, handle, object, part>>
GiveUp(t) ==
    /\ calls[t].at = "last" /\ ~Available(t)
    /\ Returns(t)
    /\ UNCHANGED <<kind, handle, object, part>>

\* unlock_mutex refuses a mutex of somebody else; semaphore_post.
Put(t) ==
    /\ At(t, "put", "found")
    /\ Returns(t)
    /\ \/ /\ kind = "semaphore" /\ count < MaxDepth
          /\ count' = count + 1 /\ taken' = taken - 1
          /\ UNCHANGED <<owner, depth, held>>
       \/ /\ kind # "semaphore" /\ owner = t
          /\ depth' = depth - 1 /\ held' = [held EXCEPT ![t] = @ - 1]
          /\ owner' = IF depth = 1 THEN Nobody ELSE owner
          /\ UNCHANGED <<count, taken>>
       \/ kind # "semaphore" /\ owner # t /\ UNCHANGED object
    /\ UNCHANGED <<kind, handle, part>>

\* sleep_for: chunks, each with a tick to spare.
Sleep(t, time) ==
    /\ calls[t] = Idle
    /\ calls' = [calls EXCEPT ![t] = [Idle EXCEPT !.op = "sleep", !.at = "sleeps",
                    !.deadline = time, !.ticks = duration_to_ticks(time)]]
    /\ UNCHANGED <<kind, handle, object, part>>
SleepChunk(t) ==
    /\ At(t, "sleep", "sleeps") /\ calls[t].ticks > 0
    /\ LET chunk == Less(calls[t].ticks, MaxFiniteWait - 1)
       IN  calls' = [calls EXCEPT ![t].at = "dozes", ![t].ticks = @ - chunk, ![t].until = Wakes(chunk + 1)]
    /\ UNCHANGED <<kind, handle, object, part>>
Wake(t) ==
    /\ At(t, "sleep", "dozes") /\ calls[t].until = 0
    /\ IF calls[t].ticks = 0 THEN Returns(t) ELSE Goes(t, "sleeps")
    /\ UNCHANGED <<kind, handle, object, part>>

\* mutex_destroy and semaphore_destroy of an object nobody uses; it may be used anew.
Destroy ==
    /\ implementation # None /\ \A t \in Threads : calls[t].object = None /\ calls[t].at # "creates"
    /\ owner = Nobody
    /\ implementation' = None /\ taken' = 0
    /\ UNCHANGED <<kind, calls, initializer, created, owner, depth, count, held, failures, part>>

Left(time) == IF time = 0 THEN 0 ELSE time - 1
Pass ==
    /\ part' = (part + 1) % Parts
    /\ calls' = [t \in Threads |-> [calls[t] EXCEPT !.deadline = Left(@), !.until = Left(@)]]
    /\ UNCHANGED <<kind, handle, object>>

Next ==
    \/ \E t \in Threads :
        \/ \E op \in {"wait", "try", "put"} : Call(t, op, 0)
        \/ \E ahead \in 0 .. MaxWait : Call(t, "timed", ahead)
        \/ \E time \in 1 .. MaxWait : Sleep(t, time)
        \/ Load(t) \/ LockInitialization(t) \/ Ensure(t) \/ Refuse(t) \/ Wait(t) \/ Try(t)
        \/ deadline_wait_ticks(t) \/ BeginWait(t) \/ Succeed(t) \/ TimeOut(t) \/ GiveUp(t)
        \/ Put(t) \/ SleepChunk(t) \/ Wake(t)
    \/ Destroy \/ Pass

-----------------------------------------------------------------------------
(* Everybody works on the one object the handle points to, whoever created  *)
(* it: what the threads hold is what the object says they hold.              *)
OneObject ==
    /\ \A t \in Threads : calls[t].object \in {None, implementation}
    /\ IF kind = "semaphore" THEN implementation # None => count = Initial - taken
       ELSE \A t \in Threads : held[t] = IF owner = t THEN depth ELSE 0

(* A call gives up only at its deadline, and a sleep ends no earlier.        *)
NeverEarly ==
    [][\A t \in Threads :
        (calls[t].op \in {"timed", "sleep"} /\ calls'[t] = Idle /\ held'[t] = held[t] /\ taken' = taken /\ ~OwnsIt(t)
            /\ failures' = failures) => calls[t].deadline = 0]_vars
=============================================================================
