----------------------------- MODULE OnceGuard -----------------------------
(***************************************************************************)
(* One-time initialisation: std::call_once (once in                        *)
(* platform/runtime/libstdcxx/backend.cpp) and function-local statics      *)
(* (__cxa_guard_acquire, _release and _abort in cxx_guard.cpp).            *)
(*                                                                         *)
(* Both record under a mutex that an object is being initialised, release  *)
(* the mutex while the initialiser runs, and let everybody else poll with  *)
(* tx_thread_sleep(1).  Initialisers nest: they use other objects, as      *)
(* __at_thread_exit does (thread_exit.cpp), and join threads that do.      *)
(*                                                                         *)
(* Before the kernel runs, Main alone executes global constructors, and    *)
(* guards are taken without a mutex.  That an initialiser needs its own    *)
(* object, directly or through a thread it joins, is undefined behaviour   *)
(* in C++ and excluded: objects are numbers, and an initialiser only needs *)
(* larger ones.                                                            *)
(***************************************************************************)
EXTENDS Integers, Sequences, FiniteSets

CONSTANTS
    Threads, Main, None,
    Statics,      \* function-local statics
    Flags,        \* std::once_flag
    Uses,         \* the objects each thread may ask for, each once
    Joins,        \* the threads that the initialiser of an object may join
    MaxThrows     \* bound: initialisers that throw

Objects == Statics \union Flags

ASSUME ConstantsAssumption ==
    /\ Main \in Threads /\ None \notin Threads
    /\ Objects \subseteq Nat /\ Statics \intersect Flags = {} /\ None \notin Objects
    /\ Uses \in [Threads -> SUBSET Objects]
    /\ Joins \in [Objects -> SUBSET (Threads \ {Main})]
    /\ \A o \in Objects : \A u \in Joins[o] : \A p \in Uses[u] : o < p
    /\ MaxThrows \in Nat

VARIABLES
    active,     \* does the kernel run?
    pc,
    goal,       \* the object of the current call, or the thread to join
    nesting,    \* the objects that a thread is initialising, outermost first
    todo,       \* the objects that a thread may still ask for
    state,      \* 0, 1, 2 of a OnceHandle; the two bytes of a guard
    mutex,      \* owners of initialization_mutex (of all flags) and cxx_guard_mutex
    constructed,   \* history: objects whose initialiser has run to its end
    throws

callVars == <<pc, goal, nesting, todo>>
vars == <<active, callVars, state, mutex, constructed, throws>>

PCs == {"user", "lock", "locked", "sleep", "passed", "finish_lock", "finish_locked",
        "throw_lock", "throw_locked", "join", "ended"}

Init ==
    /\ active = FALSE
    /\ pc = [t \in Threads |-> "user"]
    /\ goal = [t \in Threads |-> None]
    /\ nesting = [t \in Threads |-> <<>>]
    /\ todo = Uses
    /\ state = [o \in Objects |-> "idle"]
    /\ mutex = [k \in {"initialization_mutex", "cxx_guard_mutex"} |-> None]
    /\ constructed = {}
    /\ throws = 0

-----------------------------------------------------------------------------
(* Helpers.                                                                 *)

Go(t, label) == pc' = [pc EXCEPT ![t] = label]

MutexOf(o) == IF o \in Statics THEN "cxx_guard_mutex" ELSE "initialization_mutex"

\* locking_required, acquire_guard_mutex, release_guard_mutex: no locks before
\* the kernel runs.
Acquire(t, o) ==
    IF active
    THEN /\ mutex[MutexOf(o)] = None
         /\ mutex' = [mutex EXCEPT ![MutexOf(o)] = t]
    ELSE UNCHANGED mutex
Release(o) == IF active THEN mutex' = [mutex EXCEPT ![MutexOf(o)] = None]
                        ELSE UNCHANGED mutex

Innermost(t) == nesting[t][Len(nesting[t])]
Initializing(t) == nesting[t] # <<>>
Leave(t) == nesting' = [nesting EXCEPT ![t] = SubSeq(@, 1, Len(@) - 1)]

\* Before the kernel runs there is only Main, and once reports EAGAIN.
MayCall(t, o) ==
    /\ o \in todo[t]
    /\ \A i \in 1..Len(nesting[t]) : nesting[t][i] < o
    /\ active \/ (t = Main /\ o \in Statics)

-----------------------------------------------------------------------------
(* once, __cxa_guard_acquire                                                *)

\* Only __cxa_guard_acquire looks at the object before it takes the mutex.
Call(t, o) ==
    /\ pc[t] = "user"
    /\ MayCall(t, o)
    /\ todo' = [todo EXCEPT ![t] = @ \ {o}]
    /\ goal' = [goal EXCEPT ![t] = o]
    /\ Go(t, IF o \in Statics /\ state[o] = "done" THEN "passed" ELSE "lock")
    /\ UNCHANGED <<active, nesting, state, mutex, constructed, throws>>

CallLocks(t) ==
    /\ pc[t] = "lock"
    /\ Acquire(t, goal[t])
    /\ Go(t, "locked")
    /\ UNCHANGED <<active, goal, nesting, todo, state, constructed, throws>>

CallPasses(t) ==
    /\ pc[t] = "locked"
    /\ state[goal[t]] = "done"
    /\ Release(goal[t])
    /\ Go(t, "passed")
    /\ UNCHANGED <<active, goal, nesting, todo, state, constructed, throws>>

\* Mutant: the mutex is held while the initialiser runs.
CallStarts_Locked(t) ==
    /\ pc[t] = "locked"
    /\ state[goal[t]] = "idle"
    /\ state' = [state EXCEPT ![goal[t]] = "running"]
    /\ nesting' = [nesting EXCEPT ![t] = Append(@, goal[t])]
    /\ goal' = [goal EXCEPT ![t] = None]
    /\ Go(t, "user")
    /\ UNCHANGED <<active, todo, mutex, constructed, throws>>

\* Mutant: who finds the object being initialised initialises it, too.
CallStarts_Running(t) ==
    /\ pc[t] = "locked"
    /\ state[goal[t]] # "done"
    /\ state' = [state EXCEPT ![goal[t]] = "running"]
    /\ Release(goal[t])
    /\ nesting' = [nesting EXCEPT ![t] = Append(@, goal[t])]
    /\ goal' = [goal EXCEPT ![t] = None]
    /\ Go(t, "user")
    /\ UNCHANGED <<active, todo, constructed, throws>>

CallStarts(t) ==
    /\ pc[t] = "locked"
    /\ state[goal[t]] = "idle"
    /\ state' = [state EXCEPT ![goal[t]] = "running"]
    /\ Release(goal[t])
    /\ nesting' = [nesting EXCEPT ![t] = Append(@, goal[t])]
    /\ goal' = [goal EXCEPT ![t] = None]
    /\ Go(t, "user")
    /\ UNCHANGED <<active, todo, constructed, throws>>

\* Mutant: the caller does not wait for an initialiser that is running.
CallSleeps_Passes(t) ==
    /\ pc[t] = "locked"
    /\ state[goal[t]] = "running"
    /\ Release(goal[t])
    /\ Go(t, "passed")
    /\ UNCHANGED <<active, goal, nesting, todo, state, constructed, throws>>

CallSleeps(t) ==
    /\ pc[t] = "locked"
    /\ state[goal[t]] = "running"
    /\ Release(goal[t])
    /\ Go(t, "sleep")
    /\ UNCHANGED <<active, goal, nesting, todo, state, constructed, throws>>

CallWakes(t) ==
    /\ pc[t] = "sleep"
    /\ Go(t, "lock")
    /\ UNCHANGED <<active, goal, nesting, todo, state, mutex, constructed, throws>>

\* The call returns and its caller goes on to use the object.
CallReturns(t) ==
    /\ pc[t] = "passed"
    /\ goal' = [goal EXCEPT ![t] = None]
    /\ Go(t, "user")
    /\ UNCHANGED <<active, nesting, todo, state, mutex, constructed, throws>>

-----------------------------------------------------------------------------
(* The initialiser returns or throws: the end of once, __cxa_guard_release  *)
(* and __cxa_guard_abort.                                                   *)

Finish(t) ==
    /\ pc[t] = "user"
    /\ Initializing(t)
    /\ constructed' = constructed \union {Innermost(t)}
    /\ Go(t, "finish_lock")
    /\ UNCHANGED <<active, goal, nesting, todo, state, mutex, throws>>

FinishLocks(t) ==
    /\ pc[t] = "finish_lock"
    /\ Acquire(t, Innermost(t))
    /\ Go(t, "finish_locked")
    /\ UNCHANGED <<active, goal, nesting, todo, state, constructed, throws>>

FinishStores(t) ==
    /\ pc[t] = "finish_locked"
    /\ state' = [state EXCEPT ![Innermost(t)] = "done"]
    /\ Release(Innermost(t))
    /\ Leave(t)
    /\ Go(t, "user")
    /\ UNCHANGED <<active, goal, todo, constructed, throws>>

Throw(t) ==
    /\ pc[t] = "user"
    /\ Initializing(t)
    /\ throws < MaxThrows
    /\ throws' = throws + 1
    /\ Go(t, "throw_lock")
    /\ UNCHANGED <<active, goal, nesting, todo, state, mutex, constructed>>

ThrowLocks(t) ==
    /\ pc[t] = "throw_lock"
    /\ Acquire(t, Innermost(t))
    /\ Go(t, "throw_locked")
    /\ UNCHANGED <<active, goal, nesting, todo, state, constructed, throws>>

\* Mutant: an exception leaves the object marked as being initialised.
ThrowStores_Forgotten(t) ==
    /\ pc[t] = "throw_locked"
    /\ Release(Innermost(t))
    /\ Leave(t)
    /\ Go(t, "user")
    /\ UNCHANGED <<active, goal, todo, state, constructed, throws>>

\* The exception goes on to the code around, which may catch it or not.
ThrowStores(t) ==
    /\ pc[t] = "throw_locked"
    /\ state' = [state EXCEPT ![Innermost(t)] = "idle"]
    /\ Release(Innermost(t))
    /\ Leave(t)
    /\ Go(t, "user")
    /\ UNCHANGED <<active, goal, todo, constructed, throws>>

-----------------------------------------------------------------------------
(* The application.                                                         *)

\* initialize_cxx_guard creates the mutex; then the threads start.
StartKernel ==
    /\ ~active
    /\ pc[Main] = "user" /\ ~Initializing(Main)
    /\ active' = TRUE
    /\ UNCHANGED <<callVars, state, mutex, constructed, throws>>

\* Joining a thread that has ended does not block and is left out.
Join(t, u) ==
    /\ pc[t] = "user" /\ active
    /\ Initializing(t)
    /\ u \in Joins[Innermost(t)]
    /\ pc[u] # "ended"
    /\ goal' = [goal EXCEPT ![t] = u]
    /\ Go(t, "join")
    /\ UNCHANGED <<active, nesting, todo, state, mutex, constructed, throws>>

JoinReturns(t) ==
    /\ pc[t] = "join"
    /\ pc[goal[t]] = "ended"
    /\ goal' = [goal EXCEPT ![t] = None]
    /\ Go(t, "user")
    /\ UNCHANGED <<active, nesting, todo, state, mutex, constructed, throws>>

End(t) ==
    /\ pc[t] = "user" /\ active
    /\ ~Initializing(t)
    /\ Go(t, "ended")
    /\ UNCHANGED <<active, goal, nesting, todo, state, mutex, constructed, throws>>

Ended == (\A t \in Threads : pc[t] = "ended") /\ UNCHANGED vars

-----------------------------------------------------------------------------

Locks(t) == CallLocks(t) \/ FinishLocks(t) \/ ThrowLocks(t)
RuntimeSteps(t) == Locks(t) \/ CallPasses(t) \/ CallStarts(t) \/ CallSleeps(t) \/ CallWakes(t)
                      \/ CallReturns(t) \/ FinishStores(t) \/ ThrowStores(t)

Next ==
    \/ StartKernel \/ Ended
    \/ \E t \in Threads :
          \/ \E o \in Objects : Call(t, o)
          \/ RuntimeSteps(t) \/ Finish(t) \/ Throw(t)
          \/ \E u \in Threads : Join(t, u)
          \/ JoinReturns(t) \/ End(t)

\* Runtime steps go on, initialisers return or throw, joins return, and threads
\* end; mutexes are handed over in the order of asking.
Fairness ==
    /\ WF_vars(StartKernel)
    /\ \A t \in Threads :
          /\ WF_vars(RuntimeSteps(t) \/ Finish(t) \/ Throw(t) \/ JoinReturns(t) \/ End(t))
          /\ SF_vars(Locks(t))

Spec == Init /\ [][Next]_vars
FairSpec == Spec /\ Fairness

-----------------------------------------------------------------------------
(* Properties.                                                              *)

\* Types, and nobody runs user code or sleeps with a runtime mutex.
TypeOK ==
    /\ active \in BOOLEAN
    /\ pc \in [Threads -> PCs]
    /\ goal \in [Threads -> Objects \union Threads \union {None}]
    /\ nesting \in [Threads -> Seq(Objects)]
    /\ todo \in [Threads -> SUBSET Objects]
    /\ state \in [Objects -> {"idle", "running", "done"}]
    /\ mutex \in [{"initialization_mutex", "cxx_guard_mutex"} -> Threads \union {None}]
    /\ \A k \in DOMAIN mutex : mutex[k] # None =>
          pc[mutex[k]] \in {"locked", "finish_locked", "throw_locked"}
    /\ constructed \subseteq Objects
    /\ throws \in 0..MaxThrows

IsInitializing(t, o) == \E i \in 1..Len(nesting[t]) : nesting[t][i] = o

\* An object is marked as being initialised if and only if a thread is doing
\* that, and it is one thread: waiters never poll for an initialiser that has
\* gone, and two threads never initialise the same object.
OneInitializer ==
    \A o \in Objects :
        /\ state[o] = "running" <=> \E t \in Threads : IsInitializing(t, o)
        /\ \A t, u \in Threads : IsInitializing(t, o) /\ IsInitializing(u, o) => t = u

\* Who returns from once or __cxa_guard_acquire without having initialised the
\* object finds it completely initialised.
PassedIsConstructed ==
    \A t \in Threads : pc[t] = "passed" => goal[t] \in constructed

\* The three together: one initialiser at a time, nobody passes early, and no
\* runtime mutex is held while user code runs.
InitializedOnce == TypeOK /\ OneInitializer /\ PassedIsConstructed

\* Every call returns and every thread ends, although initialisers wait for
\* other threads that initialise other objects.
EverybodyEnds == \A t \in Threads : <>(pc[t] = "ended")

Contract == INSTANCE OnceContract WITH
    runner <- [o \in Objects |->
                  IF \E t \in Threads : IsInitializing(t, o)
                  THEN CHOOSE t \in Threads : IsInitializing(t, o) ELSE None],
    done <- {o \in Objects : state[o] = "done"}

\* Guards and once flags implement OnceContract.
ImplementsContract == Contract!Spec

=============================================================================
