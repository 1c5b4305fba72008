# Verification of the Nucleo-H753ZI runtime in TLA+

This directory models the repository's own logic: the C++ runtime that
implements GCC's thread interface on ThreadX, the C library support on ThreadX
and FileX, and the drivers with their two implementations. TLC checks the
models on small instances; TLAPS proves the results named below for every value
of the constants.

Paths are relative to the repository's root, here called `src/`.

- [Inventory of the system](#inventory-of-the-system)
- [Plan](#plan)
- [ThreadLifecycle](#threadlifecycle): creation, exit, join, detach and
  reclamation of threads
- [Condition](#condition): condition variables
- [OnceGuard](#onceguard): `call_once` and function-local statics
- [ThreadKeys](#threadkeys): thread-specific data
- [LinuxTimer](#linuxtimer): the timer driver of the simulation
- [Filesystem](#filesystem): descriptors, directories and rename on FileX
- [Drivers](#drivers): Ethernet, timers, GPIO and console
- [Runtime](#runtime): kernel objects, clocks, thread locals, C library locks,
  start-up, storage, atomics, attributes, directory streams, calendar
- [What is proved](#what-is-proved)
- [Not modelled](#not-modelled)
- [How to run](#how-to-run)

## Inventory of the system

The program is a base project for an STM32H753 board. The same application
(`src/main.cpp`) runs on ThreadX on the board and in ThreadX's Linux simulation.
Its own logic is in three layers.

### `platform/runtime/libstdcxx`: the C++ runtime on ThreadX

| Part | State | Operations | What must hold |
|---|---|---|---|
| Thread backend (`backend.cpp`, `thread.cpp`) | per thread a `ThreadControl` on the heap (ThreadX thread, lifecycle mutex, completion semaphore, `detached`, `finished`, `cleanup_queued`, `cleanup_ack`); a registry list of controls by id; a bounded cleanup queue; the reaper thread | `thread_create`, `thread_entry`, `thread_join`, `thread_detach`, `reaper_entry` | nobody frees a stack or control in use; one cleanup per thread; lookups succeed; a join returns after the exit callbacks, and does return |
| Condition variables (`backend.cpp`) | list of waiters on their own stacks, a mutex, one semaphore per waiter | `condition_wait`, `condition_timed_wait`, `condition_wait_recursive`, `condition_signal`, `condition_broadcast`, `condition_destroy` | no lost wake-up; a notification is never reported as a timeout; no use of a deleted semaphore or mutex |
| Mutexes, semaphores, once (`backend.cpp`) | handles with a pointer to a lazily created kernel object; once state | `ensure_mutex`, `mutex_lock`, timed locks, `destroy_mutex`, `once` | one kernel object per handle; a once routine runs to completion exactly once, again after an exception |
| Thread keys (`backend.cpp`), exit callbacks (`thread_exit.cpp`) | slots with generation and destructor; values in the ThreadX control block | `key_create`, `key_delete`, `key_get`, `key_set`, destructor passes | a value is never read under a later key; destructors run before completion |
| Clocks (`backend.cpp`, `clock.cpp`, `sleep.cpp`) | extended tick counter, rollover timer, high-resolution correlation, published time | `extend_tick_counter`, `system_time_nanoseconds`, `wait_until`, sleeps | time never goes back; no timeout before its deadline |
| Static-initialisation guards (`cxx_guard.cpp`, `once.cpp`) | guard byte and in-progress flag | acquire, release, abort | one initialiser at a time, retried after an abort |
| Thread-local storage (`tls.cpp`) | blocks, destructor lists, emutls offsets | allocation, adoption at start-up, destructors | one offset per variable; each destructor runs once |
| 64-bit atomics (`atomic.cpp`) | the object, the interrupt mask | load, store, exchange, compare and exchange, fetch operations | indivisible for threads and handlers; the caller's mask is restored |
| Thread attributes (`thread.hpp`, `backend.cpp`) | optional attributes per thread | publish, scope of the factories, consume | they reach the next thread of the publisher, and only it |
| Start-up (`startup.cpp`, `tx_user.h`) | order of the initialisation steps | start hooks | nothing is used before it is initialised |

### `platform/runtime/libc`: the C library on ThreadX and FileX

| Part | State | Operations | What must hold |
|---|---|---|---|
| Newlib locks (`libc.c`) | lock pool, deferred kernel mutexes | init, acquire, release, close | locks created before the kernel become real ones once |
| Descriptors (`filesystem.cpp`) | descriptor table, current directory, FileX files | `_open`, `_close`, `_read`, `_write`, `_lseek`, `_fstat`, directories | a successful close has flushed; a failed step releases what it took |
| Rename (`filesystem.cpp`) | backup file on the volume | `_rename` | after any failure or reset the data exists under one of the names |
| Directory streams (`filesystem.cpp`) | a snapshot of names and a position per stream | `opendir`, `readdir`, `seekdir`, `closedir` | every lasting entry once; no stream leaks |
| Storage (`storage_media.cpp`) | cached outcome per volume | format or mount, SD bus attempts | a volume with data is never formatted; outcome decided once |
| CPU clock (`cpu_clock.c`) | 64-bit extension of a 32-bit counter | sample at context switches | monotone, no lost wrap |

### `platform/hal`: drivers and console

| Part | State | Operations | What must hold |
|---|---|---|---|
| Console, STM32 (`stm32/hal.cpp`) | receive ring, wake-up semaphore with ceiling 1, CR/LF state | interrupt handler, read, write | no sleeping reader with input in the ring |
| Console, Linux (`linux/console.cpp`) | bounded output queue, mode | write, drain thread | order kept, losses reported |
| Ethernet (`drivers/impl/*/Ethernet.cpp`) | running flag, DMA descriptors, receive slots, four mutexes | start, stop, transmit, receive | a buffer owned by the DMA is not reused; no deadlock |
| Timers (`drivers/impl/*/Timer.cpp`) | running flag, period, callback, worker thread or interrupt | start, stop, callback | at most one callback after stop; a failed stop restores the interrupt |
| RTC (`drivers/impl/stm32/Rtc.cpp`) | shadow registers of the calendar | `getTime` | a time that the calendar showed, across midnight and leap days |
| GPIO (`drivers/impl/*/Gpio.cpp`, factories) | pin ownership, EXTI registry, callback | acquire, set callback, dispatch | callback replaced atomically |

How they interact: application threads call the backend and libc, which call
ThreadX. Threads meet at the registry (under `initialization_mutex`), at the
control of the thread they join or detach (under its `lifecycle_mutex`), at the
cleanup queue and at the semaphores. Interrupt handlers only post semaphores
and change rings and flags. The reaper is the only thread that frees threads.

Hard behaviours: preemption between any two kernel calls; two owners of the
last reference to an object (thread exit against join or detach); timeouts that
race with notifications; bounded queues with blocked senders; objects on other
threads' stacks; counters that wrap; steps of which one fails; resets between
two writes to a volume. The list with one entry per place is `hazards` in
`PROJECT.json`.

## Plan

The models are written in this order; all of them are in place.

| Step | Modules | Abstract specification | Runs | Theorems |
|---|---|---|---|---|
| 1 | `ThreadLifecycle`, `ThreadLifecycleMC`, `ThreadLifecycleProofs` | `ThreadContract` | `lifecycle_owned`, `lifecycle_shared` | types, memory safety, lookups, one end per thread, the contract's safety |
| 2 | `Condition`, `ConditionMC`, `ConditionProofs` | `ConditionContract` | `condition_safe`, `condition_live`, `condition_early_timed` | consistency, no lost wake-up, the contract's safety |
| 3 | `OnceGuard`, `ThreadKeys`, their `MC` and `Proofs` modules | `OnceContract` | `once`, `keys` | initialized once, the contract, own values, values destroyed |
| 4 | `LinuxTimer` with `LinuxTimerMC`, `LinuxTimerProofs` | | `timer` | one late callback, worker and version current |
| 5 | `Filesystem`, `FilesystemMC`, `FilesystemProofs` | | `files` | consistency, promises, writes, descriptors, opens, rename, stat |
| 6 | `EthernetDriver`, `LinuxEthernet`, `Stm32Timer`, `GpioInterrupts`, `LinuxGpio`, `ConsoleInput`, `ConsoleQueue`, together in `DriversMC`; `DriversProofs` | | `drivers` | all seven properties of the run |
| 7 | `SyncObjects`, `Clocks`, `ThreadLocals`, `NewlibLocks`, `ExecutionHooks`, `ThreadExit`, `Startup`, `StorageInit`, `StorageMedia`, `DirectoryStreams`, `ThreadAttributes`, `Atomics`, `Calendar`, together in `RuntimeMC`; `RuntimeProofs` | | `runtime` | all eight properties of the run |

Every safety property of every passing run has a theorem;
[Checked by TLC only](#checked-by-tlc-only) says what stays with the runs and why.

`ThreadExit`, `ThreadKeys` and `ThreadLocals` are what the action
`CallbacksReturn` of `ThreadLifecycle` stands for: exit callbacks are application
code there.

## ThreadLifecycle

### The code

`std::thread` calls `thread_create`, which allocates a `ThreadControl` and a
stack, registers the control under a fresh id and starts a ThreadX thread whose
argument is that id. The thread finds its control by the id (`thread_entry`),
runs the entry function and the exit callbacks (TLS destructors, keys,
`notify_all_at_thread_exit`), then publishes `finished` under the lifecycle
mutex and posts the completion. Who frees the stack? Not the thread, which runs
on it, and not a joiner, because the thread may still be returning when the
joiner wakes up. So the id is sent to the reaper, by the exiting thread if it
was detached, else by the joiner or detacher. The reaper polls until ThreadX
says that the thread is completed, deletes the kernel objects, unregisters and
frees the control, and posts the joiner's acknowledgement.

### State

| Model | Code |
|---|---|
| `pc[t]`, `target[t]`, `enqueue[t]` | position of a thread in the backend, the local `control` of the call, the local `enqueue` of `thread_entry` |
| `stage[t]` | whether the thread's own code is its entry function or its exit callbacks |
| `memory[w]` | the control's heap block: unused, allocated, kernel objects deleted, freed |
| `registry_id`, `detached`, `finished`, `cleanup_queued`, `cleanup_ack`, `completion`, `lifecycle_mutex` | the fields of `ThreadControl` |
| `acknowledgement[t]` | the semaphore on the stack of a joiner |
| `registry`, `next_registry_id`, `cleanup_queue` | the globals of the same names (the list as a set) |
| `reaper_pc`, `reaper_message`, `reaper_control`, `reaper_ack` | the reaper and its locals |
| `handle`, `owner` | the `std::thread` object that refers to a thread, and the thread that holds it |

### Actions

One action is one ThreadX call or one section that no other thread can observe
half-done. ThreadX calls are atomic. The registry is only touched under
`initialization_mutex` and without blocking, so `RegisterThread`,
`ReaperUnregister`, `UndoCreate` and each lookup are one action each. A section
under a `lifecycle_mutex` is two or three: acquiring is an action of its own,
because other threads suspend on it, and the section with its release is another.

| Actions | Code |
|---|---|
| `ThreadCreate`, `RegisterThread`, `StartThread`, `StartThreadFails`, `UndoCreate`, `StoreHandle` | `thread_create`, `std::thread::_M_start_thread` |
| `EntryFind`, `EntryReturns`, `CallbacksReturn`, `ExitLock`, `PublishFinished`, `PutCompletion`, `ExitEnqueues`, `ThreadReturns` | `thread_entry` |
| `ThreadJoin`, `JoinSuspends`, `JoinGetCompletion`, `JoinDeleted`, `JoinLock`, `JoinRefused`, `JoinClaims`, `JoinEnqueues`, `JoinAcknowledged` | `thread_join` |
| `ThreadDetach`, `DetachLock`, `DetachRefused`, `DetachRunning`, `DetachFinished`, `DetachEnqueues` | `thread_detach` |
| `ReaperReceive`, `ReaperFind`, `ReaperPoll`, `ReaperDelete`, `ReaperUnregister`, `ReaperFree`, `ReaperAcknowledge` | `reaper_entry` |

A thread in `"user"` may create, join and detach, in its entry function and in
its exit callbacks; the application promises nothing else. `MayCall` states the
one rule that C++ imposes on it: a `std::thread` object is not used by two
threads at once. With `SharedHandles` that rule is broken on purpose, because
the backend has error paths for it (`JoinRefused`, `DetachRefused`,
`JoinDeleted`), which no correct use of `std::thread` reaches. Even then a call
starts before somebody is in charge of the cleanup: after that the pointer in
the handle dangles and no backend could help.

### Properties

| Property | Question |
|---|---|
| `TypeOK` | types |
| `NoUseAfterFree` | is a stack or control deleted or freed while a thread runs on it or a call is about to dereference it? |
| `EndsOnce` | is `cleanup_queued` equivalent to exactly one request, with its sender, in the queue, or with the reaper; is every control freed once, an acknowledgement posted while its joiner waits, and nothing published before the exit callbacks have run? |
| `EndsOnceShared` | the same and `NoUseAfterFree`, when two threads join and detach one handle |
| `LookupsSucceed` | can `find_thread` return null or another thread's control, with ids that wrap? |
| `JoinCompletes` | does a join of an ended thread return, also from exit callbacks, with a full queue and against racing callers? |
| `ImplementsContract` | does the backend implement `ThreadContract`: a join returns after the thread has ended and is reclaimed, and detached threads are reclaimed in the end? |

### Runs

| Run | Instance | Shows |
|---|---|---|
| `lifecycle_owned` | 3 workers with symmetry, queue of 1, ids 1..3 starting at 3 | the safety invariants under every interleaving, a full queue with two suspended senders, an id that wraps, joins nested in exit callbacks |
| `lifecycle_shared` | 2 workers, `SharedHandles`, `StrictPriority`, queue of 1, ids 1..2 from either, fairness | racing join and detach on one handle are harmless because the reaper has the lowest priority (its mutant shows that they are not with a reaper that preempts); joins complete and the contract is implemented, its liveness included |

Deadlock checking is off: the system stops legitimately when every control has
been used and the application does nothing more. The liveness properties say
what must not be stuck.

Bounds. `Workers` is the number of threads ever created. Three let one thread be
the creator of another, join a third and exit while two more requests wait for
the queue of one entry (`CLEANUP_QUEUE_DEPTH` is larger, a smaller queue makes
senders suspend sooner). `MaxId` and `FirstIds` put the wrap of the 32-bit id
between the first threads. `IdIsFree` is an assumption: no thread lives while
2^32 - 1 others are created.

Fairness. A thread inside the runtime, and the reaper, is eventually scheduled
whenever it can make a step (`WF` of the runtime's actions of each thread and of
the reaper). ThreadX gives that if higher-priority threads block from time to
time; the reaper, at the lowest priority, needs the application to leave it
some time, without which nothing would ever be freed. Nothing is assumed of
application code: an entry function or an exit callback may run for ever.
`StrictPriority` is the other side of priorities: on one core the reaper
(`REAPER_PRIORITY`, backend.cpp:1600) does not run while a thread that is inside
a backend call can.

Left out. Failed allocations before the registration are undone where nobody
sees them. Invalid arguments, joining oneself (`EDEADLK`) and calls from
interrupts return at once and change nothing. `tx_semaphore_create` in
`thread_join` gets a fresh object from a thread and has no reason to fail; if it
did, the completion would be lost for later joins. Threads killed with the
native `tx_thread_terminate` are outside this interface (see `ThreadLocals`).

## Condition

### The code

ThreadX has no condition variables. The backend builds one from a mutex, a list
of waiters and a semaphore per waiter that lies on the waiter's stack. A wait
appends the waiter under the condition's mutex, releases the user's mutex while
it still holds the condition's, and waits for its semaphore. A notifier unlinks
a waiter and posts its semaphore, both under the condition's mutex. A waiter
whose deadline has passed takes the condition's mutex: if it is still linked it
leaves the list and reports `ETIMEDOUT`, if not it takes the post that must be
there and reports success. `condition_destroy` refuses with `EBUSY` while the
list is not empty.

### State

| Model | Code |
|---|---|
| `pc[t]`, `impl[t]` | position in the backend, the local `condition_implementation` or `implementation` |
| `timed`, `wait_status`, `semaphore` | does the wait have a deadline; the local; the count of `waiter.semaphore` |
| `notice`, `waiter`, `busy` | signal or broadcast; the locals of the notifier and of `condition_destroy` |
| `implementation`, `memory` | the pointer in the `ConditionHandle`; whether the block it pointed to is live or freed |
| `mutex`, `waiters` | `mutex` and the list `first` ... `last` of a `ConditionImplementation`; `linked` is membership |
| `user_mutex`, `items` | the application's mutex and what it guards |
| `notified` | history: a notifier has chosen this waiter |

### Actions

| Actions | Code |
|---|---|
| `Wait`, `WaitAppends`, `WaitUnlocks`, `WaitPuts`, `WaitGets`, `WaitTimesOut`, `TimeoutLocks`, `TimeoutLeaves`, `TimeoutIsNotified`, `WaitDeletes`, `WaitReturns` | `condition_wait_common`, with `ensure_condition` and `wait_until` |
| `NotifyNothing`, `Notify`, `NotifyLocks`, `NotifyUnlinks`, `NotifyPosts`, `NotifyEnds` | `condition_signal`, `condition_broadcast` |
| `Destroy`, `DestroyLocks`, `DestroyLooks`, `DestroyIsBusy`, `DestroyDeletes` | `condition_destroy` |
| `Lock`, `Take`, `GiveUp`, `Put` | the application |

The application is a producer-consumer one, because a lost wake-up is only an
error with respect to a condition that somebody waits for. Consumers may wait
with and without deadlines and need not wait again; producers notify after they
have released the mutex, one waiter or all. Any producer may destroy the
condition variable when `MayDestroy` holds: no other thread notifies, and every
consumer is outside a wait, or asleep (then the call must return `EBUSY`).
`EarlyDestroy` names the kinds of waits, with a deadline or without, of which it
is enough that they have been notified; the C++ standard allows that for both.

### Properties

| Property | Question |
|---|---|
| `Consistent` | is the mutex or the list of a condition used after its deletion; does a notifier post a semaphore that exists, of a thread still inside its wait, also when the deadline passes at that moment; does a wait report success exactly if a notifier chose it? |
| `NoLostWakeup` | can a consumer sleep while there are more items than threads that will look at them? |
| `ImplementsContract` | does it all look as if a wait released the mutex and blocked in one step, and a notification woke one thread or all in one step, and do notifications take effect and notified or timed-out waiters return? |

### Runs

| Run | Instance | Shows |
|---|---|---|
| `condition_safe` | 3 consumers, 2 producers, 2 blocks, 2 items; `EarlyDestroy` for waits without deadlines | the invariants, with and without deadlines, with a condition variable that is destroyed and created again |
| `condition_early_timed` | 2 consumers, 1 producer; `EarlyDestroy` for all waits | violation, see below |
| `condition_live` | 2 consumers, 1 producer, 1 block, 2 items | liveness and refinement |

Deadlock checking is on: somebody can always go on.

Bounds. `MaxItems` limits what producers put before somebody takes it: two items
and three consumers are enough for a signal that reaches the wrong waiter, a
waiter in the middle of the list that times out, and a broadcast to several. A
condition block is used once; two allow a destruction and a new creation.
Consumers, producers and blocks are interchangeable, so the safety runs use
symmetry; the liveness run does not.

Fairness. `WF` for the runtime's steps of each thread; in particular a deadline
passes. `SF` for acquiring the mutexes, because ThreadX queues the threads that
wait for a mutex and hands it to the first. A thread that owns the application's
mutex does something with it and releases it. Nothing makes producers produce,
consumers consume or anybody destroy.

In the refinement a wait happens when it releases the user's mutex, a signal
when it unlinks a waiter or finds none, and a broadcast when it has locked the
condition: waiters that it has yet to unlink already count as notified. That is
sound because the mutex that the broadcaster holds keeps timed-out waiters from
leaving the list.

Finding. After a timeout a waiter locks the condition's mutex
(`backend.cpp:1225`) even if a notifier has unlinked it in the meantime. If the
owner, knowing that everybody is notified, destroys the condition variable
first, the mutex has been deleted and the memory freed: `condition_destroy`
only looks at the list, which is empty. `raw_mutex_get` (`backend.cpp:399`)
treats that as impossible and calls `fatal_error`. `condition_early_timed` shows
the sequence. `condition_safe` shows that waits without a deadline are immune,
because they do not touch the condition again, and that for the others it is
enough to destroy it when they have returned.

Left out. Errors that end a call before it changed anything: a wait whose
implementation or semaphore cannot be created, calls from interrupts, null
handles. The path for a user mutex that the caller does not own: C++ forbids it
and `std::condition_variable::wait` rejects it. The ownership count that
`condition_wait_recursive` checks before it does the same. Ticks and the
rounding of deadlines (`SyncObjects`).

## OnceGuard

### The code

`std::call_once` ends in `once` (backend.cpp), function-local statics in
`__cxa_guard_acquire`, `_release` and `_abort` (cxx_guard.cpp). Both mark an
object as being initialised under a mutex, release the mutex while the
initialiser runs, and let others poll with `tx_thread_sleep(1)`. Guards are also
used before the kernel runs, by global constructors, and then take no mutex.

### State and actions

| Model | Code |
|---|---|
| `state[o]` | `OnceHandle::state`, or the initialised and in-progress bytes of a guard |
| `mutex` | the owners of `initialization_mutex` and `cxx_guard_mutex` |
| `active` | `locking_required()`: does the kernel run? |
| `pc[t]`, `goal[t]` | position in the call, the object asked for or the thread joined |
| `nesting[t]` | the initialisers that a thread is in, outermost first |
| `todo[t]` | the objects that a thread may still ask for (bounds the runs) |

| Actions | Code |
|---|---|
| `Call`, `CallLocks`, `CallPasses`, `CallStarts`, `CallSleeps`, `CallWakes`, `CallReturns` | `__cxa_guard_acquire`; `once` up to the routine |
| `Finish`, `FinishLocks`, `FinishStores` | the routine returns; the end of `once`, `__cxa_guard_release` |
| `Throw`, `ThrowLocks`, `ThrowStores` | the handler in `once`, `__cxa_guard_abort` |
| `StartKernel` | `initialize_cxx_guard` and the start of the threads |
| `Join`, `JoinReturns`, `End` | the application: an initialiser may join a thread, as the comment in `__cxa_guard_acquire` says |

An initialiser that needs its own object, directly or through a thread it joins,
has undefined behaviour in C++. To exclude such cycles, and no more, objects are
numbers, and an initialiser only asks for larger ones or joins threads that do.

### Properties and runs

| Property | Question |
|---|---|
| `InitializedOnce` | is an object marked as being initialised exactly while one thread does it, also when initialisers throw through several levels; can a caller go on with an object that is not completely initialised; is a runtime mutex held while user code runs or a caller sleeps? |
| `EverybodyEnds` | does every thread end, although callers poll, initialisers nest and join? |
| `ImplementsContract` | does it look like an initialiser that starts, and then throws or succeeds, atomically (`OnceContract`)? |

| Run | Instance | Shows |
|---|---|---|
| `once` | 3 threads, statics 1 and 3, flag 2, 2 exceptions; two threads meet at each object, and the initialiser of 1 may join the third thread | all properties, and no deadlock |

Deadlock checking is on; the only terminal states are those of `Ended`.

Bounds. Three objects of both kinds let a thread be in two initialisations while
the others meet it at one of them and at each other. `MaxThrows` bounds exceptions,
without which no initialiser need ever succeed.

Fairness. Runtime steps go on, initialisers and threads end (`WF`); `SF` for the two
mutexes, which ThreadX hands over in the order of asking. A polling caller does
not starve: it is asleep while the mutex is free, but comes back each tick, and
the object's state does not go back after success.

Left out. The callable and its hand-over in `once.cpp` are per-thread data.
Calls of `once` before the kernel runs, or from interrupts, report an error and
change nothing.

## ThreadKeys

### The code

A key of `__gthread_key_create` encodes a slot of a table and the slot's
generation, which is incremented (and kept from being zero) when the slot is
allocated. Values lie in the control block of each ThreadX thread, with the
generation under which they were set. `key_delete` frees the slot and does not
visit the threads: values under it become invisible because their tag is old.
`key_get` and `key_set` check the key under `initialization_mutex` and touch the
thread's own values after releasing it. When a thread ends, up to
`destructor_iterations` passes call the destructors of what is left. Creating or
resetting a ThreadX thread clears the values.

### State and actions

| Model | Code |
|---|---|
| `allocated`, `generation`, `destructor` | the fields of `KeyDefinition` in the table |
| `tls_values`, `tls_generations` | the thread extension in `tx_user.h` |
| `key[t]`, `result[t]` | argument and result of the call in progress |
| `pass`, `index`, `invoked`, `found` | locals of `run_thread_specific_destructors` |
| `handles`, `live` | the keys that the application has kept, and which of them it has not deleted |
| `execution[t]` | how often the thread has been started |

| Actions | Code |
|---|---|
| `KeyCreate`, `KeyDelete` | the functions of the same names |
| `KeyGet`, `KeyGetReads`, `KeyGetReturns` | `key_get`: check, read, return |
| `KeySet`, `KeySetWrites` | `key_set`: check, write |
| `ThreadExits`, `Look`, `Destroy`, `DestructorRuns`, `DestructorReturns`, `Skip`, `PassEnds` | `cleanup_thread_runtime`, `run_thread_specific_destructors` |
| `Restart` | `runtime_libstdcxx_thread_started`, by way of `tx_thread_reset` |

The application may use deleted keys, which the code has checks for, at any
time, also inside destructors. A value is represented by the key under which,
and the execution in which, it was set: that is what the properties are about.

### Properties and runs

| Property | Question |
|---|---|
| `OwnValues` | can operations with old handles of a slot break the key that now has it; can `key_get` return, or a destructor get, what was set under another key or before a restart; does the loop stay inside the table and its passes? |
| `ValuesDestroyed` | is a value forgotten although passes were left? |

| Run | Instance | Shows |
|---|---|---|
| `keys` | 2 threads, 2 executions each, 2 slots, 2 keys, 2 passes, generations modulo 4 starting at 2 | all of them, across the wrap and the skipped zero, with destructors that create and delete keys and set values |

Deadlock checking is off: the system stops when all keys are used up.

Bounds. Two keys are one slot used twice, or two slots used together. Two passes are the least for
which the difference between "more passes" and "no more" exists; the code's
number is `destructor_iterations`. Threads are interchangeable, so the run
uses symmetry. `GenerationIsFresh` is an assumption: nobody keeps a deleted
key, or a value under it, while its slot is reused 2^24 - 1 times. After that
the tags could not tell the two keys apart.

Left out. A destructor that ends its own thread; calls from interrupts.

## LinuxTimer

### The code

The Linux driver (`drivers/impl/linux/Timer.cpp`) imitates a hardware timer: the
counter is computed from the time since it was last captured, and a worker
thread waits with `pthread_cond_timedwait` until the next overflow and calls the
callback without the mutex. Every operation changes the configuration under the
mutex, increments `m_stateVersion` and wakes the worker, which computes a new
deadline. The clock of the C++ runtime compares the state version to see
whether the counter may have jumped between two reads.

### State and actions

| Model | Code |
|---|---|
| `m_autoReload`, `m_counter`, `m_running`, `m_interruptEnabled`, `m_stateVersion`, `m_shuttingDown` | the members of the same names |
| `ticking` | is input frequency over prescaler plus one not zero? |
| `elapsed` | time since `m_startedAtNanoseconds`, in ticks, modulo the period |
| `worker`, `remaining` | position in `workerLoop`, time to the deadline of its wait |
| `late` | history: callbacks since interrupts were disabled |

| Actions | Code |
|---|---|
| `Start`, `Stop`, `SetCounter`, `SetAutoReload`, `SetPrescaler`, `SetPeriod` | `start`, `startIt`; `stop`, `stopIt`; `setCounter`, `reset`, `forceUpdateEvent`; `setAutoReload`; `setPrescaler`; `setPeriodImpl` |
| `Destroy`, `DestroyReturns` | `~Timer` |
| `WorkerChecks`, `WorkerWakesSpuriously`, `WorkerTimesOut`, `CallbackStarts`, `CallbackReturns` | `workerLoop` |
| `Tick` | the clock |

An operation holds the mutex for all of its body and does not block, so it is
one step. `WorkerTimesOut` and `CallbackStarts` are two: between them the
worker's wait has timed out, but others may have the mutex first. Callbacks may
call every operation, because those are enabled in any state of the worker. Only
relative times matter, which keeps the model finite without a bound on time.

### Properties and runs

| Property | Question |
|---|---|
| `WorkerIsCurrent` | can an operation leave the worker asleep with a deadline of an earlier configuration; can a reload register of zero lead to a period without ticks? |
| `AtMostOneLateCallback` | how many callbacks start after `stop` has returned? |
| `VersionSeesJumps` | does the counter jump, or restart, without a new state version, also when the timer is started or stopped? |
| `WorkerServes` | does a running timer call back, whatever happened before, and does the destructor return? |

| Run | Instance | Shows |
|---|---|---|
| `timer` | reload values 0, 1, 3, counters 0, 2, 5, 6 operations | all of them |

`AtMostOneLateCallback` is what the code does: an application that needs silence
after `stop` has to wait for one callback that may already be on its way.

Deadlock checking is off: time stops when the timer is destroyed.

Bounds. Counter 5 is larger than every period, which `setCounter` allows;
reload value 0 makes every tick an overflow. `MaxOps` counts operations, and
six suffice to configure, start, reconfigure and stop or destroy.

Fairness. Time passes, the worker is scheduled, callbacks return. A spurious
wake-up at the very moment of an overflow lets the worker compute the deadline
of the next one, so that a period passes without a callback, and POSIX does not
limit how often: `WorkerServes` says so.

Left out. The conversion of durations to ticks; the replacement of the callback,
of which the worker keeps a reference while it runs; a callback that destroys
its own timer, which would join itself.

## Filesystem

### The code

`filesystem.cpp` implements the system calls of Newlib on FileX. Every call runs
under one mutex (`RegistryGuard`), so calls do not interleave; what makes them
hard is that each makes several FileX calls, any of which may fail or be the last
before a reset. FileX opens a file for reading or for writing, so a descriptor
switches its handle when the access changes (`switch_mode`), and a handle caches
the length its entry had when it was opened. FileX cannot rename over an
existing name; `_rename` moves the destination to a backup name, moves the
source, deletes the backup, and migrates the paths of open descriptors and the
current directory.

### State and actions

| Model | Code |
|---|---|
| `filesystem_state`, `descriptors`, `current_directory` | the globals of the same names; a descriptor has its path, its handle's mode, the length its handle knows and `flush_on_close` |
| `entries` | the directory entries as FileX caches them |
| `media` | the entries on the medium |
| `rename` | the rename in progress: its paths, the backup's name, what has been done |
| `size`, `settled` | history: the length the completed writes gave a file; the files unchanged since a call promised that they are durable |

`Initialize`, `Open`, `Close`, `Read`, `Lseek`, `Write`, `Ftruncate`, `Fsync`,
`Utime`, `Unlink`, `Mkdir`, `Rmdir` and `Chdir` are the calls, each one action
with every outcome of its FileX calls. `_rename` is one action for each FileX
call that changes something (`RenameStarts`, `Backup`, `MoveSource`, `Restore`,
`DeleteBackup`, `Migrate`, `Sync`), because a reset may come in between.
`Reset` empties the descriptor table and takes the caches away.

FileX is external and modelled as its use requires: the entry of an open writer
lags behind until the handle is closed or the medium flushed; a file with an
open handle cannot be deleted; a second writer is refused; renaming copies the
entry, which may be stale, over the open handle. A write or truncation gives the
new length to all open handles of the file, readers too (`FxResized`;
`FX_DONT_UPDATE_OPEN_FILES` is not defined in `fx_user.h`, and
`libc_filex_test.cpp:684` tests it). A write or `_ftruncate` that fails on the way
may have extended the file, because `extend_with_zeroes` writes sector by sector;
the history variable `size` is what reached the file. A reset keeps for each entry of
the root either its flushed or its cached version; media with lost or
cross-linked clusters are outside the model.

### Properties and runs

| Property | Question |
|---|---|
| `Consistent` | types; does the current directory always exist (`WorkingDirectoryExists`); can a descriptor end up on another file, through renames of the file, of a directory above it, or over it (`NeverRetargeted`)? |
| `PromisesSurvive` | is what `close`, `fsync` and `rename` promised still there after any reset? |
| `WritesAreKept` | can a rename, or switching to reading and back, lose a completed write? |
| `OpensAreCurrent` | does a handle that is opened see every completed write, also those of another descriptor? |
| `RenameLosesNothing` | does a failed or interrupted rename lose the source or the destination? |
| `StatIsCurrent` | does `_stat` answer the length of the file, though the entry lags a writer and readers opened before the last change? |

| Run | Instance | Shows |
|---|---|---|
| `files` | 2 descriptors, two names that can each be a file or a directory with one entry, a backup name, lengths up to 1, 5 calls, 2 failing FileX calls, 1 reset | all of them |

Bounds. Five calls are enough to open twice, write, rename and close; two
faults, for a rename whose move fails and whose restoration fails as well.
Deadlock checking is off: the calls run out.

`StatIsCurrent` has two halves. The answer of `_stat` is never less than what the
completed writes made of the file, whatever failed. It is exactly that until a
FileX call fails. After a failure it may be more: a writer that has
extended the file and whose close fails leaves the entry as it was, while readers
keep the length they were given, and `_stat` takes the maximum.

Left out. Offsets and contents: a write extends the file or overwrites. Times
(`_utime` is its flush). More than one volume, so that `EXDEV` and `ENODEV` are
guards. `old = new` stands for a rename that changes only the spelling. One case
is excluded: a descriptor whose handle a failed `switch_mode` left closed may be
unlinked under it, and a later call reopens whatever has the name then.

## Drivers

`DriversMC` runs seven models side by side. They share nothing, so each
behaviour runs one of them, its `subject`, and the others stay in their initial
states; the state spaces add up. Deadlock checking is off, because several have
bounds on what may happen. The sets of threads, numbers and callbacks, the
capacity and the bounds are constants, so that the proofs are about all of them;
`Drivers.cfg` gives them the values below, the pins by the definition `FourPins`.
All have two client threads.

### EthernetDriver (`stm32/Ethernet.cpp`)

Four mutexes, the transmit frame with its descriptor, and receive slots that are
marked as allocated and belong to the descriptor ring or to the frame a call is
reading. One action is what a thread does between two waits for a mutex or the
hardware; `DmaSends` and `DmaReceives` are the DMA engine. `start`, `stop`,
`transmit`, `receive` and `getLinkInfo` are modelled with failing HAL calls, in
particular the failing re-initialisation in `stop`, after which the device is in
error and the driver can never start again.

`BuffersHaveOwners`: the frame that the DMA sends is not written, even when the
call that queued it has timed out and others transmit; every allocated slot is
with the ring or a reader, and with one of them; threads never wait for mutexes
in a circle. Instance: 4 slots for a ring of 2, 2 errors. Left out: the cache
operations, the destructor.

### LinuxEthernet (`linux/Ethernet.cpp`)

The life of the raw socket among the descriptors of the process, of which others
open and close some. `transmit` and `receive` copy the number under the
lifecycle mutex and use it later; `stop` therefore takes the transfer mutexes
first. `SocketIsOurs`: no system call goes to a number that was closed or
belongs to somebody else, and no socket leaks. Instance: numbers 1 to 3. Left
out: the filter and the
contents of frames. `receive` polls with a timeout of 0 after a discarded frame,
so that a stream of frames for others keeps it past its deadline; no property
claims the deadline.

### Stm32Timer (`stm32/Timer.cpp`)

Operations register by register, with the update interrupt between any two
accesses, and the clock's reader, which reads version, counter and version again
(`read_high_resolution_counter`). `UpdatesAreSeen`: an interrupt always has an
update of this start to report, to a registered timer with a whole callback; an
update that is due keeps its flag until it is reported; and `SamplesShowJumps`,
about the samples that the reader accepts.

`setPrescaler` is five steps: masking, writing PSC (170), the update event that
makes it the rate and zeroes the counter (171), writing the counter back and
clearing the flags (174 to 181), and the mark of the version (185). Ticks between
the save of the counter (168) and its restoration are lost, so both 171 and 174 are
a jump to a new origin. No `InterruptGuard` covers these steps, and
`getTickFrequencyHz` reads PSC, which has the new value before the update event.
`epoch` is the version that tells of the counter's last jump; the
reader notes the epoch with the counter and with the rate.

The code gives the clock its guarantee only outside two windows, which the model
has as states and names `Between`: from the write of PSC to the mark in
`setPrescaler`, where the counter has changed and the version has not, and from
the mark to the write in `setCounter`, `reset`, `setAutoReload` and
`forceUpdateEvent`, where it is the reverse. A reader that takes counter or rate
inside such a window can accept a sample of the new rate or origin under the old
version, or of the old under the new one; nothing in the driver or in
`read_high_resolution_counter` prevents that. What holds, and what
`SamplesShowJumps` says, is: a sample that was accepted and not taken inside a window has the
rate of its counter, and while the version is the sample's and no window is open, the
counter still counts from where the sample was taken. An application that
reconfigures the clock's timer while other threads use the clock has to keep them
out itself. `reader.between` is history and says whether the sample was taken
in a window.

An overflow at the moment of an explicit update event shares its flag. Bound: 4
operations.

### GpioInterrupts (`stm32/Gpio.cpp`, `factory/stm32/gpio.cpp`)

Creation and destruction of pins under the factory's mutex, step by step over
the EXTI registry, the line masks, the pending flags and the interrupt groups
that lines share, with the interrupt handlers in between, and the replacement of
a callback under `InterruptGuard` ("torn" while it lasts). `EdgesReachTheirInput`:
an interrupt finds a live, registered input for each flag; the groups enabled
are those of the inputs that exist; creating or destroying one input discards no
edge of another. Instance: 4 pins on lines of one group, of different groups,
and twice on one line.

### LinuxGpio (`linux/Gpio.cpp`, `factory/linux/gpio.cpp`)

Shared ownership through a weak pointer, `setSimulatedLevel`, which copies the
callback under the mutex and calls it without, replacement of the callback, also
from inside it, and the compare-and-exchange loop of `toggle`.
`CallsLiveCallbacks`: a running callback's object exists, none outlives its
last reference, and concurrent setters and togglers lose no edge or toggle.
Instance: 3 callbacks, 3 edges.

### ConsoleInput (`stm32/hal.cpp`)

The receive interrupt fills a ring and posts a semaphore with ceiling 1; readers
take turns under a mutex. CR LF is one line end. `ReadersGetLines`: together the
readers get what the ring took, in order, each line end once (the i-th character
returned is the i-th taken out that is not the LF of a CR LF); no reader waits while the ring has characters and no post is pending; one
reader and one writer at a time. Instance: ring of 3, 5 characters. Left out: polling before the
kernel runs, and the panic handlers.

### ConsoleQueue (`linux/console.cpp`)

The modes, the bounded ring of chunks that drops the oldest, and the flush when
output becomes plain. `NothingVanishes`: what was shown, what will be reported
as dropped, and what is queued are together what was published, in order.
Instance: capacity 3, 8 chunks. A chunk is its number: dropping the oldest may
tear a record that was published as several chunks.

## Runtime

`RuntimeMC` combines thirteen models in the same way as `DriversMC`; a property
of the run states what holds for its subjects. Two threads each unless said
otherwise. The sizes and bounds of the components are constants of `RuntimeMC`,
with the values of the instances below in `Runtime.cfg`.

### SyncObjects (`backend.cpp`, `sleep.cpp`)

Mutexes, recursive mutexes and semaphores whose kernel object is created on the
first use, timed waits and sleeps. `calls` has the position of each thread, the
object it loaded, its deadline and the end of its present wait; deadlines are
relative, so time has no bound. `deadline_wait_ticks` rounds up to ticks and
caps one wait; a wait that ends before the deadline is repeated; one that ends
after it tries once more. In `SynchronizationIsSound`: all threads use the one
object of the handle and hold what the object says they hold (`OneObject`), and
no timed wait gives up, and no sleep ends, before its time (`NeverEarly`).
Instance: 2 parts of a tick, waits of at most 2 ticks, 2 objects, 1 failed
creation. Priority inheritance is ThreadX's.

### Clocks (`backend.cpp`, `clock.cpp`)

The tick counter that wraps and is extended at each use and by the rollover
timer; the system time, which combines coarse ticks with a counter that wraps
sooner and that others may stop or set; its publication by concurrent readers.
`ClocksAreRight`: the extension never misses a revolution, also when nobody asks
for longer than one; the system clock is less than a tick off; a call returns no
less than any call that ended before it began. Instance: 4 ticks of 2 counts in
a revolution, timer modulus 6, time up to 11, one jump, the sample every
`Wrap \div 2 - 1` ticks and up to one late. The RTC's epoch is zero; modulus 0
and nanosecond overflow are left out.

### ThreadLocals (`tls.cpp`, `backend.cpp`, `tx_user.h`)

Blocks, emutls arrays that grow, offsets assigned on first use by whichever
thread is first, destructor lists that grow while they are drained, the start-up
code's locals handed over to the first thread, deletion, termination and reset.
Addresses are identities. `LocalsKeepTheirIdentity`, in `ThreadsKeepTheirOwn`:
an address stays the object's, each destructor is in one list, latest first,
until it runs or is discarded, and what it destroys exists while it runs.
Instance: 2 objects, 2 destructors, arrays without spare room. A thread that is
terminated inside a destructor leaks that list node. Alignment and
`__emutls_register_common` are left out.

### NewlibLocks and ExecutionHooks (`libc.c`, `cpu_clock.c`)

`NewlibLocks` is the pool of locks for files: entries handed out before the
kernel runs get their mutex in `runtime_libc_initialize`, later ones at once;
growing allocates memory, which takes the malloc lock itself. `LocksAreThere`:
no lock without its mutex is used, none is given to two files. Instance: 3
files, 2 threads, and allocations that fail. `ExecutionHooks` is the context
switch: the reentrancy pointer and the cycle counter. `ThreadsHaveTheirContext`:
each thread has its own `errno` and stdio, never a deleted one, and no cycle is
lost or counted twice when the 32-bit counter wraps between samples. Instance:
counter of 4, conversion by 2/3, 12 cycles. Both are in `LibcServesThreads`. A
thread terminated inside `malloc` gives its lock up half-way, which ThreadX
does and no code of the repository could prevent. Left out: a `TX_MUTEX` may be
acquired again by its owner, as Newlib's recursive locks are; here a lock is
acquired once at a time.

### ThreadExit (`thread_exit.cpp`)

The list of callbacks in the thread's key, their run at thread exit and in
`exit()`, callbacks that register others, and `notify_all_at_thread_exit` with
its mutex and waiters. `CallbacksRunOnce`: each callback runs once before its
thread has ended, no element is touched after its callback has deleted it, the
notifier unlocks a mutex it has, and who is told sees the end of the
`thread_local` objects. Instance: 3 elements. Registrations stay below the
number of destructor passes; a callback registered by a callback inside `exit()`
does not run, which the property does not require. Left out: `~ThreadExitKey`,
which deletes the key during `exit()`, so that threads ending after it run no
callbacks.

### Startup (`startup.cpp`, `backend.cpp`, `tx_user.h`)

From `__wrap_main` to `main`, on both platforms, with every kernel object
failing or not. `StartsCompletely`: code of a thread finds the whole runtime, the
application's thread comes first, a failure leaves no kernel object behind. The
high-resolution timer, once started, is not stopped by the rollback.

### StorageInit and StorageMedia (`storage_media.cpp`, `storage_media_policy.hpp`)

`StorageInit` is several boots with faults and power cuts: the flash is probed,
formatted only when blank, opened; the card is tried with four bits, then one.
`VolumesAreKept`: a flash that was not blank is never formatted, what is mounted
is a volume on an initialised device, a readable card is mounted whatever the
flash does, and also when the card does not start with four bits or its first
sector arrives with a bad checksum over them, the causes for which the code falls
back to one bit. Instance: 3 boots, 3 faults. Left out: the build option
`RUNTIME_STORAGE_ERASE_FLASH_ON_BOOT`, which erases the flash on purpose before
it is probed. A power cut inside the first format
leaves a flash that is neither blank nor a volume, and that no boot formats
again. `StorageMedia` is the arithmetic of the drivers: `valid_sector_range`
without the wrap-around of its sum, sector by sector transfers, pages and erase
blocks of the flash. `TransfersStayInside`: no request changes anything outside
what it names, even when it fails; one that succeeds has done all of it.
Instance: words of 8 values, 4 sectors, flash of 8 in pages of 2 and erase
blocks of 4. The device's command sequences are one step; LevelX is external.

### DirectoryStreams (`filesystem.cpp`)

`opendir` collects the names entry by entry under the file system's mutex, other
calls work on the snapshot. In `LibcServesThreads`: a stream gives every entry
that was there all the time, none twice; a position stands for one entry for
good; a failed `opendir` leaves no slot allocated. Instance: 2 slots, 2 names, 2
changes, 1 failure. `rewinddir` does not refresh the snapshot.

### ThreadAttributes (`thread.hpp`, `thread.cpp`, `backend.cpp`)

`publish_attributes`, the scope of `create` and `create_jthread`, which saves
and restores what was published, and consumption by the next `std::thread`. In
`ThreadsKeepTheirOwn`: attributes reach the thread they were published for, only
it, and failures do not use them up. Instance: 2 values.

### Atomics (`atomic.cpp`, `stm32/InterruptGuard.hpp`)

64-bit operations byte by byte with the interrupt mask, in two threads and a
handler, also inside a guard of the caller. In `SynchronizationIsSound`: every
result is that of an indivisible operation, and the caller's section is not
ended. Instance: two bytes of two values. Left out: `__atomic_is_lock_free`.

### Calendar (`stm32/Rtc.cpp`)

The calendar advances while readers read time, then date, with shadow registers
that the time read freezes and the date read frees, under `InterruptGuard`. In
`ClocksAreRight`: a reader gets a time the calendar showed during its call, also
across midnight, month ends and leap days, and after an error. `days_from_civil`
is compared with a count of days. Instance: behaviours start at the end of each
month in 2000 and 2003. Days and seconds are kept apart, because TLC's integers
have 32 bits.
## What is proved

Every theorem is about the specification of a module with arbitrary constants;
the assumptions on them are named below. The runs check the same formulas, and
the inductive invariants were checked on the runs' instances before they were
proved.

### ThreadLifecycle

`ThreadLifecycleProofs` proves `TypeCorrect` (`Spec => []TypeOK`). `TypeOK` is
strengthened to `TypeInv`: inside a call the target is a control, and so is what
the reaper works on. Without that the assignments through `target[t]` and
`reaper_control` could leave the functions' domains.

It also proves `MemorySafe` (`Spec => []NoUseAfterFree`) and
`NoLookupFails` (`Spec => []LookupsSucceed`), for every set of workers, queue
depth and range of ids, and both values of `SharedHandles`. `NoUseAfterFree` is not inductive, because a state
in which the reaper is about to delete a control and a detacher is in its
critical section satisfies it, and the next step breaks it. The argument that
such states do not occur goes like this:

1. What exists is registered, under an id of its own (`RegistryInv`), so the id
   the reaper receives names the control it was sent for (`ReaperInv`).
2. `cleanup_queued` is set once, in a critical section (`LockInv`, `FlagInv`),
   so there is one request for a control: with its sender, in the queue, or with
   the reaper (`RequestInv`). When the reaper has it, the sender is done with
   the control.
3. The thread itself is completed: the reaper has polled (`ReaperInv`).
4. Other callers. Without `SharedHandles` the handle has one user; while it is
   in a call and has not claimed the cleanup, nobody has (`OwnedInv`). With
   `SharedHandles` the reaper only runs when every caller is blocked, and a
   caller is not blocked on a control's lifecycle mutex unless some other
   caller holds it and is not blocked itself (`LockInv`).
5. Nobody reaches a control after it is deleted (`DeadInv`).

`IInv` is the conjunction. Each part relates at most two threads, a control and
two queue positions, and has a lemma of its own with one step per action.

A second invariant adds what `IInv` leaves open. `PromiseInv`: whoever sets
`cleanup_queued` has a request on its way until the reaper has served it.
`AckInv`: a joiner that waits for an acknowledgement is the one named in the
request, and a posted acknowledgement means that its control is gone. From these
follow `EndsOnceHolds` and `EndsOnceSharedHolds` (`Spec => []EndsOnce`,
`Spec => []EndsOnceShared`). With `ClaimInv`, which says that only one call at a
time is past the check of `detached` and `cleanup_queued`, every step maps to a
step of `ThreadContract` or to none: `ImplementsContractSafety`
(`Spec => Contract!Safety`).

The proofs assume `ConstantsAssumption`: `Main` and `None` are not workers, the
queue and the id range are not empty, and handles are shared only with
`StrictPriority`. They take `IdIsFree` as part of the model.

### OnceGuard, ThreadKeys

`OnceGuardProofs` proves `InitializedOnceHolds` and `ImplementsContractHolds`.
The invariant says which calls a thread's nesting consists of (`NestingInv`:
only the innermost one is in progress, the outer ones are inside their
initializers), who has the mutex of a guard (`MutexInv`) and that a guard that
is done has nobody in its initializer (`DoneInv`). The refinement maps the guard
byte and the nesting to the contract's state, including the recursive
initialization that panics.

`ThreadKeysProofs` proves `OwnValuesHold` and `ValuesDestroyedHolds`. The first
rests on `ValueInv`: a value under the generation that a slot has now was set
through the key that the slot has now; with the generation of `get` and `set`
compared under the mutex nothing older can surface. `PassInv` is about the exit
passes: a slot that the pass has visited only has a value again if a destructor
of this pass has set it, and then another pass follows unless it was the last.
Assumption: the constant for "no value" is none of the values.

### Condition

`ConditionProofs` proves `ConsistentHolds` and `NoLostWakeupHolds` for every
finite set of threads and every set of conditions, under the hypothesis that
no condition is destroyed before its waiters have left the call
(`TRUE \notin EarlyDestroy`). The C++ standard permits it once all waiters are
notified, and the run `condition_early_timed` shows that the code then uses a
deleted mutex, so the hypothesis cannot be dropped. The invariant says for each
program position who has the condition's mutex (`MutexInv`), which thread is in
the list (`LinkInv`: one that has appended itself and is not notified), how the
notification, the semaphore and the timeout of a wait fit together (`WaitInv`),
and that a poster holds the mutex of a condition whose waiter still exists
(`PostInv`). `NoLostWakeup` needs a count on top (`CountInv`): while a consumer
sleeps, there are at most as many items as consumers awake and producers about
to notify.

`ImplementsContractSafety` proves, under the same hypothesis, the safety half of
the refinement that `condition_live` checks: seen through the list, the semaphores
and the callers' mutex, every step is one of `ConditionContract` or none. The
phase of a consumer depends on the lists of its condition; `PhaseIsSeen` replaces
that by what the invariant makes of it, because whoever still waits is in the
list of the only condition that exists. A notifier's wake-up in the contract is
its unlinking step in the code, where the posting of the semaphore comes later;
a broadcast wakes in one step of the contract whoever is in the list when it takes
the mutex, and while it posts one by one, its remaining waiters count as notified
and none can leave by timeout (`OneHolder`: it has the mutex).

### LinuxTimer

`LinuxTimerProofs` proves three theorems for every set of reload values and
counters and any number of operations. `LateCallbackOnce`: `LateInv` says that
the worker only sleeps until an overflow while callbacks are wanted, and after a
late callback it neither sleeps so nor is about to call again.
`WorkerIsCurrentHolds`: `TypeOK` and `WorkerIsCurrent` are inductive together,
because every operation that moves the overflow sets `woken` or leaves the
deadline. `VersionSeesJumpsHolds` is an action property: the counter shown
after an operation or a tick is compared modulo the period, with the lemmas on
`%` at the head of the module (`ShownNext`, `TickAdds`).

### Drivers

A step of `DriversMC` is a step of its subject or leaves a component alone, so
`DriversProofs` has an inductive invariant for each component. They hold for any
set of threads, descriptor numbers, callbacks and pins, any receive ring, any
capacity of the console's input ring and output queue and any bounds, with `ConstantsAssumption` of
`DriversMC`: the markers "nobody" and "none" are none of the threads and
callbacks, the bounds are numbers, the queue has room for a chunk, there are
twice as many receive slots as descriptors, and the lines of the pins are
0 to 15.

- `BuffersHaveOwnersHolds`. `EthInv`: each mutex belongs to the one call whose
  position says that it has it (`EthCalls`); what start, stop and receive have
  read of the state stays true until they are done, because whoever changes it
  has the same mutexes (`EthState`); the DMA owns only a frame that is pending
  (`EthTx`); the slots are the ring's and the one reader's (`EthSlots`). No circle
  of waiting threads: a call that waits for a mutex has none that comes after it
  in the order transmit, receive, state, phy, so that a circle has nobody who
  waits for phy, hence nobody for state, and so on (`EthNoCircle`).
- `EdgesReachTheirInputHolds`. `GpioInv`: one thread is in the factory; the
  registry has, at their lines, the inputs that exist and are not being forgotten,
  and the one under construction; only registered lines detect edges or have a
  flag; a group of interrupts is enabled exactly when one of its lines is
  registered and the factory is not at work on one.
- `SocketIsOursHolds`. `SockInv`: a call holds the mutexes that its position
  says (`SockMutexes`); start and stop have a socket of their own, a transfer's
  copy is still the driver's socket (`SockCopies`), because stop takes the
  transfer mutexes first; every descriptor of the driver is in `m_socket` or
  with such a call (`SockUser`).
- `CallsLiveCallbacksHolds`. `PinInv`: callbacks in use, by the pin or by a
  running edge, are alive; the levels that edges and togglers have seen add up
  to the level of the pin.
- `UpdatesAreSeenHolds`. `TimInv` says, for each step of each operation, which of
  the interrupt mask, the registration and the running flag are as they were
  before it, so that an interrupt taken between two register accesses finds a
  registered timer. For the clock's reader, `TimEpoch` says that the epoch is
  ahead of the version only within `setPrescaler` or while the counter stands, and
  `TimReader` that, as long as the version is the reader's and the epoch not
  ahead, an epoch read outside the windows is still the counter's. The theorem claims
  no more for samples than `SamplesShowJumps` does: nothing for those taken in a window.
- `NothingVanishesHolds`. `OutInv`: the chunks in the ring, from the oldest, are
  the latest of those published, and what is missing between them and what was
  shown is what `dropped` counts.
- `ReadersGetLinesHolds`. `InInv` splits what was accepted into characters taken
  out and characters that wait in the ring, in order (`InHolds`); the flag
  `discard_line_feed` says whether the last one taken out was a CR; a reader that
  waits for the semaphore found the ring empty, so that whatever waits now came
  with an interrupt after that, which put.

### Filesystem

`FilesystemProofs` proves the four invariants of the run `files` and its two
action properties, from `FsInv`, for any prefix-closed set of paths, any files,
descriptors and open flags, and any number of calls, failing FileX calls and
resets. `ConstantsAssumption` says that, and that the volumes the program may
start on are trees in which each file has one name.

The invariant has four parts.

1. Of the volume (`Volumes`): it is a tree, a file has one name and one writer;
   the length of a file is in its entry unless a handle is open for writing
   (`Lengths`), and the entry of a settled file is on the medium as it is in the
   cache (`Settles`).
2. Of the descriptors (`FsSlots`): a descriptor's file is at its path, except
   between the step of a rename that moves the source and the step that migrates
   the paths; there it is where the path will be (`Where`). A writing handle has
   the length of its file.
3. Of the current directory (`FsDirectory`), with the same exception.
4. Of a rename in progress (`FsRename`): what each step finds. The source is
   still there, its files have their lengths in the entries because of the flush
   before, and no settled file is below it (`SourceReady`); the destination is
   free once it has moved to its backup name (`NameReady`), nobody has it open
   or as current directory (`NameUnused`), and the backup has nothing below it
   (`BackupReady`). Without the last part the restoring of a destination could
   not be shown to take no other file along.

The proof goes bottom up. Lemmas about paths: a moved path is below the new name,
moving back gives the path, and moving keeps what is above what
(`MigratedBack`, `MigratedOrder`). Lemmas about volumes: after a FileX rename the
volume is a tree again, each file has one name, and no file is missing
(`RenamedTree`, `RenamedOneName`, `RenamedHeld`). Lemmas about the parts of
calls: publishing a handle, flushing the media, losing, opening, resizing,
creating, unlinking (`PublishingKeeps` to `UnlinkingKeeps`). `SwitchKeeps` puts
them together for every way `switch_mode` can end. Then one lemma for each call
and for each step of a rename. `HandlesKeep` is where the flush before a rename
matters: FileX copies the entry over the open handle, which loses nothing only
because the entry has the handle's length by then.

`StatIsCurrentHolds` needs a second invariant, `Current`: as long as no FileX call
has failed, every open handle has the length `size` of its file. Opening
establishes it (`OpensAreCurrentHolds` is the same fact), a write or truncation changes
`size` and the handles together (`ResizedReaders`), and every other step closes
handles or leaves the lengths alone (`CurrentStep`). `StatMeans` computes the
answer of `_stat` from it and from `FsInv`: the writer's length, or without one the
maximum of the entry's and of readers' that agree with it. After a failure
`FsInv` alone gives the lower bound.

### Runtime

`RuntimeProofs` treats `RuntimeMC` as `DriversProofs` does `DriversMC`: an
inductive invariant for each component. `ConstantsAssumption` of `RuntimeMC`
says that the application's thread is a thread, that the markers are none of the
threads, objects and attributes, that the bounds are numbers, that a sector
number can name every sector, and that the flash is a whole number of blocks.
About time it says that the rollover timer is at most half a revolution of the
ticks late and that a clock call takes less than half a revolution of the
high-resolution timer, less a tick. Both are limits of the code, not of the proof:
`extend_tick_counter` cannot see a revolution it was not called in, and
the correlation of ticks and timer takes the nearest revolution.

- `ThreadsKeepTheirOwnHolds` is about two components. `LocalInv` for the
  thread-local objects: each object has an offset of its own, at most the count
  (`LocalOffsets`); an address a context has got is in its array at the object's
  offset (`LocalUsed`), which growing the array keeps (`LocalReach`); a
  destructor that is listed or runs is so in one context, which has its object,
  and each list has the latest first, so that a destructor leaves its list when
  it runs (`LocalLists`, `LocalSorted`); a thread has no destructors before the
  kernel runs and after it was deleted (`LocalPhases`), so that the application's
  thread loses none when it takes over those of the start-up code. `AttrInv` for
  the attributes: what is pending for a thread and what a factory has put aside
  are, at each place, what was published.
- `CallbacksRunOnceHolds`. `ExitInv` says that every callback can be given a
  thread and one of three kinds: listed with the thread, in the list that the
  thread walks, or called. A list has all callbacks of its thread and kind and
  is in the order of registration, latest first (`ExitList`), so the pointer to
  the next one survives the deletion of the present one. The notifier's thread
  has the mutex until it is called (`ExitNotifier`, `ExitPromise`). The
  assignment to threads is a witness in the proof, not a variable of the model.
- `StartsCompletelyHolds`. `BootInv`: the kernel objects exist in the order of
  their creation, so that undoing a failure deletes exactly those before
  (`BootFollowing`); and each place of the start-up code has the earlier ones
  behind it.
- `TransfersStayInsideHolds`. `MediaInv`: a request that has begun is within the
  device, and what differs from before is the part of it that is done. For any
  sizes of volume, page and block and any width of sector numbers: what
  `valid_sector_range` lets through is such that the sums of the addresses, which
  the code takes modulo that width, do not wrap.
- `SynchronizationIsSoundHolds` is about two components. `SyncInv`: a call knows no
  kernel object but the one of the handle, the object's owner and count say what
  the threads hold, and the ticks of a sleep or wait cover what is left of its
  deadline (`SyncCallOk`). For any fineness of the clock, any longest wait and
  any deadline, rounding up to ticks never ends a wait early, though the first
  tick is a part of one. `AtomInv`: while an operation runs, interrupts are masked by
  the context that runs (`AtomMasked`), and the bytes it has read or written are
  those of the value before or after (`AtomReads`, `AtomWrites`, `AtomSwaps`,
  `AtomEnds`). The value stays two bytes of two values.
- `ClocksAreRightHolds`. `ClockInv`: the epoch is a number of whole revolutions,
  the last sample is at most half a revolution and the timer's lateness older
  than now (`ClockTicks`), so that one comparison with the last tick sees every
  wrap; what a caller has put together is less than a tick away from the time
  during its call, and what it compares with was returned before (`ClockCall`).
  Most of the proof is arithmetic of remainders: the difference of two wrapped
  counters (`WrappedDifference`, `ClockDifference`) and the revolution nearest to
  the ticks. `CalInv`: the shadow registers are frozen only for the reader that
  masks interrupts, and what it has read lies between its call and now
  (`CalOk`), error paths included; `days_from_civil` equals the count of days for
  every date from 2000 to 2099 and grows by one with each day of the calendar.
- `LibcServesThreadsHolds` is about three components. `LockInv`: a file is opened
  and closed by one context while nobody is inside, entries in use are allocated
  and belong to one file (`LockEntries`), and from the initialization on all have
  a mutex (`LockReady`). `HookInv`: the cycle counter was read less than one wrap
  ago (`HookCounter`), so its difference is the cycles that have passed, and
  `runtime_cpu_clock_ticks` loses nothing by dividing first. `DirInv`: the stream that `opendir` is
  filling has the names before its cursor, and a name that was there all the time
  is in its entries or still ahead (`DirFilling`).
- `VolumesAreKeptHolds`. `MountInv` says what each place of `initialize` has behind
  it: the flash is formatted when it was found blank, opened when it is not, and
  mounted from there on unless it failed; the card is given up only after both
  widths.

### Checked by TLC only

Liveness under fairness and `ENABLED` are out of TLAPS's reach: `JoinCompletes`,
`EverybodyEnds`, `WorkerServes` and the liveness
halves of `ThreadContract` and `ConditionContract`. `condition_early_timed` shows
a violation; there is nothing to prove.

## Not modelled

| Part | Why |
|---|---|
| Reentrant wrappers in `filesystem.cpp` (`_open_r` and the like), `getcwd`, `pathconf`, `statvfs`, times of `fill_stat`, `initialize_filex_clock` | They pass arguments on or read one value under the mutex that is modelled |
| `_getentropy`, `random.cpp`, the RNG drivers, the Linux RTC | One call to the device or to the host each |
| Linux file images in `storage_media.cpp` | Plain reads and writes of a host file with one user |
| Panic and fault handlers | They end the program |
| Board devices and `main.cpp` | Thin users of the interfaces that are modelled |
| ThreadX's Linux port helper, scripts, tests | Not part of the program |
| ThreadX, FileX, LevelX, HAL, Newlib | Vendored; modelled where the code uses them, marked as external in `PROJECT.json` |
## How to run

    tlc -workers 2 -config LifecycleOwned.cfg ThreadLifecycleMC
    tlc -workers 2 -config LifecycleShared.cfg ThreadLifecycleMC
    tlc -workers 2 -config ConditionSafe.cfg ConditionMC
    tlc -workers 2 -config ConditionEarlyTimed.cfg ConditionMC
    tlc -workers 2 -config ConditionLive.cfg ConditionMC
    tlc -workers 2 -config Once.cfg OnceGuardMC
    tlc -workers 2 -config Keys.cfg ThreadKeysMC
    tlc -workers 2 -config Timer.cfg LinuxTimerMC
    tlc -workers 2 -config Files.cfg FilesystemMC
    tlc -workers 2 -config Drivers.cfg DriversMC
    tlc -workers 2 -config Runtime.cfg RuntimeMC
    tlapm ThreadLifecycleProofs.tla
    tlapm OnceGuardProofs.tla
    tlapm ThreadKeysProofs.tla
    tlapm ConditionProofs.tla
    tlapm LinuxTimerProofs.tla
    tlapm FilesystemProofs.tla
    tlapm DriversProofs.tla
    tlapm RuntimeProofs.tla

The operators named `X_Y` in a module are mutants of `X`: the change a plausible
bug would make, kept to show that the property they are listed with in
`PROJECT.json` would notice it.
