-------------------------- MODULE RuntimeMC ---------------------------------
(*****************************************************************************)
(* The smaller parts of the runtime, each on a small instance. They share    *)
(* nothing here, so a behaviour runs one of them, its subject, and the state *)
(* spaces add instead of multiplying; the others stay in one initial state.  *)
(*****************************************************************************)
EXTENDS Integers, Sequences, FiniteSets

CONSTANTS
    Threads, Application, MaxFaults, MaxBoots, LocalObjects, Spare, MaxDestructors,
    MaxElements, MaxHooked, AttributeValues, Words, Blocks, FlashSize, Page, EraseBlock,
    Parts, MaxFiniteWait, Initial, MaxWait, MaxDepth, MaxObjects, MaxFailures, Counts,
    TickWrap, Modulus, Late, MaxDelay, MaxTime, MaxJumps, Files, CycleWrap, Frequency, Rate,
    MaxCycles, MaxStreams, Names, DirectorySize, MaxSeek, MaxChanges, StreamFaults, Years,
    FirstDays, SecondFraction, NANOSECONDS_PER_SECOND, MaxSteps

VARIABLES
    subject,    \* the component whose steps this behaviour takes
    sync_kind, sync_calls, sync_initializer, sync_implementation, sync_created, sync_owner,
    sync_depth, sync_count, sync_held, sync_taken, sync_failures, sync_part,
    clock_now, clock_start, clock_tick_epoch, clock_last_tick, clock_rollover, clock_offset,
    clock_version, clock_running, clock_jumps, clock_high_resolution_counter_available,
    clock_last_system_time, clock_readers,
    local_phase, local_state, local_block, local_destructors, local_emutls, local_location,
    local_emutls_object_count, local_pending, local_running, local_used, local_registered,
    lock_phase, lock_libc_locks_ready, lock_dynamic_locks, lock_malloc_created,
    lock_pool_owner, lock_malloc_owner, lock_calls, lock_lock, lock_inside, lock_halted,
    hook_current, hook_impure, hook_created, hook_isr, hook_counter, hook_cycles,
    hook_executed,
    exit_state, exit_value, exit_elements, exit_element, exit_next, exit_owner,
    exit_promised, exit_waiters, exit_exiting, exit_told, exit_runs,
    boot_platform, boot_at, boot_made, boot_initialized,
    boot_high_resolution_counter_available, boot_system_clock_epoch_available,
    boot_libc_locks_ready, boot_adopted, boot_files_ready, boot_threads, boot_ran,
    mount_at, mount_flash, mount_card, mount_nor_open, mount_initialization_attempted,
    mount_flash_mounted, mount_sd_mounted, mount_width, mount_faults, mount_spent,
    mount_boots,
    dir_directory, dir_directories, dir_cursor, dir_held, dir_changes, dir_faults, dir_kept,
    dir_reported,
    attr_pending_attributes, attr_at, attr_m_previous_attributes, attr_published,
    attr_created,
    atom_object, atom_primask, atom_running, atom_outer, atom_call, atom_value, atom_agreed,
    cal_date, cal_second, cal_subseconds, cal_shadow, cal_primask, cal_at, cal_time,
    cal_seen, cal_steps, cal_wrong,
    media_request, media_sectors, media_nor

sync_vars == <<sync_kind, sync_calls, sync_initializer, sync_implementation, sync_created,
               sync_owner, sync_depth, sync_count, sync_held, sync_taken, sync_failures,
               sync_part>>
clock_vars == <<clock_now, clock_start, clock_tick_epoch, clock_last_tick, clock_rollover,
                clock_offset, clock_version, clock_running, clock_jumps,
                clock_high_resolution_counter_available, clock_last_system_time,
                clock_readers>>
local_vars == <<local_phase, local_state, local_block, local_destructors, local_emutls,
                local_location, local_emutls_object_count, local_pending, local_running,
                local_used, local_registered>>
lock_vars == <<lock_phase, lock_libc_locks_ready, lock_dynamic_locks, lock_malloc_created,
               lock_pool_owner, lock_malloc_owner, lock_calls, lock_lock, lock_inside,
               lock_halted>>
hook_vars == <<hook_current, hook_impure, hook_created, hook_isr, hook_counter, hook_cycles,
               hook_executed>>
exit_vars == <<exit_state, exit_value, exit_elements, exit_element, exit_next, exit_owner,
               exit_promised, exit_waiters, exit_exiting, exit_told, exit_runs>>
boot_vars == <<boot_platform, boot_at, boot_made, boot_initialized,
               boot_high_resolution_counter_available, boot_system_clock_epoch_available,
               boot_libc_locks_ready, boot_adopted, boot_files_ready, boot_threads, boot_ran>>
mount_vars == <<mount_at, mount_flash, mount_card, mount_nor_open,
                mount_initialization_attempted, mount_flash_mounted, mount_sd_mounted,
                mount_width, mount_faults, mount_spent, mount_boots>>
dir_vars == <<dir_directory, dir_directories, dir_cursor, dir_held, dir_changes, dir_faults,
              dir_kept, dir_reported>>
attr_vars == <<attr_pending_attributes, attr_at, attr_m_previous_attributes, attr_published,
               attr_created>>
atom_vars == <<atom_object, atom_primask, atom_running, atom_outer, atom_call, atom_value,
               atom_agreed>>
cal_vars == <<cal_date, cal_second, cal_subseconds, cal_shadow, cal_primask, cal_at,
              cal_time, cal_seen, cal_steps, cal_wrong>>
media_vars == <<media_request, media_sectors, media_nor>>

ConstantsAssumption ==
    /\ Application \in Threads /\ {"nobody", "none", "startup", "global", "interrupt"} \cap Threads = {}
    /\ {"none", "static"} \cap LocalObjects = {}
    /\ {"none", "user", "leaves"} \cap AttributeValues = {}
    /\ {Spare, MaxDestructors, MaxElements, MaxHooked} \subseteq Nat
    /\ Blocks \in Nat /\ Words \in Nat /\ Blocks < Words
    /\ Page \in Nat \ {0} /\ EraseBlock \in Nat \ {0}
    /\ FlashSize \in Nat /\ \E blocks \in 0 .. FlashSize : FlashSize = blocks * EraseBlock
    /\ Parts \in Nat \ {0} /\ MaxFiniteWait \in Nat \ {0, 1} /\ Initial \in Nat /\ MaxWait \in Nat
    /\ Counts \in Nat \ {0} /\ TickWrap \in Nat \ {0, 1} /\ Modulus \in Nat \ {0}
    \* The rollover timer comes twice in a revolution of the ticks, and is not that late,
    /\ Late \in Nat /\ Late <= TickWrap \div 2
    \* and a call takes less than half a revolution of the timer.
    /\ MaxDelay \in Nat /\ 2 * (Counts + MaxDelay) <= Modulus
    /\ "nobody" \notin Files
    /\ CycleWrap \in Nat \ {0, 1} /\ Frequency \in Nat \ {0} /\ Rate \in Nat
    /\ MaxStreams \in Nat /\ DirectorySize \in Nat /\ MaxSeek \in Nat /\ "none" \notin Names
    /\ Years \subseteq 0 .. 99 /\ 0 \in Years /\ FirstDays \subseteq 1 .. 31 /\ 28 \in FirstDays
    /\ SecondFraction \in Nat /\ NANOSECONDS_PER_SECOND \in Nat \ {0}
ASSUME ConstantsAssumption

Sync == INSTANCE SyncObjects WITH
    kind <- sync_kind, calls <- sync_calls, initializer <- sync_initializer,
    implementation <- sync_implementation, created <- sync_created, owner <- sync_owner,
    depth <- sync_depth, count <- sync_count, held <- sync_held, taken <- sync_taken,
    failures <- sync_failures, part <- sync_part
Clock == INSTANCE Clocks WITH
    Readers <- Threads, Wrap <- TickWrap, now <- clock_now, start <- clock_start,
    tick_epoch <- clock_tick_epoch, last_tick <- clock_last_tick,
    rollover <- clock_rollover, offset <- clock_offset, version <- clock_version,
    running <- clock_running, jumps <- clock_jumps,
    high_resolution_counter_available <- clock_high_resolution_counter_available,
    last_system_time <- clock_last_system_time, readers <- clock_readers
Locals == INSTANCE ThreadLocals WITH
    Objects <- LocalObjects, phase <- local_phase, state <- local_state,
    block <- local_block, destructors <- local_destructors, emutls <- local_emutls,
    location <- local_location, emutls_object_count <- local_emutls_object_count,
    pending <- local_pending, running <- local_running, used <- local_used,
    registered <- local_registered
Locks == INSTANCE NewlibLocks WITH
    phase <- lock_phase, libc_locks_ready <- lock_libc_locks_ready,
    dynamic_locks <- lock_dynamic_locks, malloc_created <- lock_malloc_created,
    pool_owner <- lock_pool_owner, malloc_owner <- lock_malloc_owner, calls <- lock_calls,
    lock <- lock_lock, inside <- lock_inside, halted <- lock_halted
Hooks == INSTANCE ExecutionHooks WITH
    Wrap <- CycleWrap, current <- hook_current, impure <- hook_impure,
    created <- hook_created, isr <- hook_isr, counter <- hook_counter,
    cycles <- hook_cycles, executed <- hook_executed
Exit == INSTANCE ThreadExit WITH
    state <- exit_state, value <- exit_value, elements <- exit_elements,
    element <- exit_element, next <- exit_next, owner <- exit_owner,
    promised <- exit_promised, waiters <- exit_waiters, exiting <- exit_exiting,
    told <- exit_told, runs <- exit_runs
Boot == INSTANCE Startup WITH
    platform <- boot_platform, at <- boot_at, made <- boot_made,
    initialized <- boot_initialized,
    high_resolution_counter_available <- boot_high_resolution_counter_available,
    system_clock_epoch_available <- boot_system_clock_epoch_available,
    libc_locks_ready <- boot_libc_locks_ready, adopted <- boot_adopted,
    files_ready <- boot_files_ready, threads <- boot_threads, ran <- boot_ran
Mounts == INSTANCE StorageInit WITH
    at <- mount_at, flash <- mount_flash, card <- mount_card, nor_open <- mount_nor_open,
    initialization_attempted <- mount_initialization_attempted,
    flash_mounted <- mount_flash_mounted, sd_mounted <- mount_sd_mounted,
    width <- mount_width, faults <- mount_faults, spent <- mount_spent, boots <- mount_boots
Streams == INSTANCE DirectoryStreams WITH
    Slots <- 1 .. MaxStreams, Places <- 1 .. DirectorySize, MaxFaults <- StreamFaults,
    directory <- dir_directory, directories <- dir_directories, cursor <- dir_cursor,
    held <- dir_held, changes <- dir_changes, faults <- dir_faults, kept <- dir_kept,
    reported <- dir_reported
Attributes == INSTANCE ThreadAttributes WITH
    Attributes <- AttributeValues, pending_attributes <- attr_pending_attributes,
    at <- attr_at, m_previous_attributes <- attr_m_previous_attributes,
    published <- attr_published, created <- attr_created
Atomics == INSTANCE Atomics WITH
    object <- atom_object, primask <- atom_primask, running <- atom_running,
    outer <- atom_outer, call <- atom_call, value <- atom_value, agreed <- atom_agreed
Calendar == INSTANCE Calendar WITH
    Readers <- Threads, date <- cal_date, second <- cal_second,
    subseconds <- cal_subseconds, shadow <- cal_shadow, primask <- cal_primask,
    at <- cal_at, time <- cal_time, seen <- cal_seen, steps <- cal_steps, wrong <- cal_wrong
Media == INSTANCE StorageMedia WITH
    Wrap <- Words, request <- media_request, sectors <- media_sectors, nor <- media_nor

Subjects == {"Sync", "Clock", "Locals", "Locks", "Hooks", "Exit", "Boot", "Mounts", "Streams", "Attributes", "Atomics", "Calendar", "Media"}
Init == /\ subject \in Subjects
        /\ Sync!Init /\ (subject = "Sync" \/ (sync_kind = "mutex"))
        /\ Clock!Init /\ (subject = "Clock" \/ (clock_start = 0 /\ clock_offset = 0))
        /\ Locals!Init
        /\ Locks!Init
        /\ Hooks!Init /\ (subject = "Hooks" \/ (hook_cycles = 0))
        /\ Exit!Init
        /\ Boot!Init /\ (subject = "Boot" \/ (boot_platform = "linux"))
        /\ Mounts!Init /\ (subject = "Mounts" \/ (mount_flash = "blank" /\ mount_card = "none"))
        /\ Streams!Init /\ (subject = "Streams" \/ (dir_directory = [i \in 1 .. DirectorySize |-> "none"]))
        /\ Attributes!Init
        /\ Atomics!Init /\ (subject = "Atomics" \/ (atom_running = Application))
        /\ Calendar!Init /\ (subject = "Calendar" \/ (cal_date = [year |-> 0, month |-> 1, day |-> 28]))
        /\ Media!Init
Next ==
    \/ /\ subject = "Sync" /\ Sync!Next
       /\ UNCHANGED <<subject, clock_vars, local_vars, lock_vars, hook_vars, exit_vars, boot_vars, mount_vars, dir_vars, attr_vars, atom_vars, cal_vars, media_vars>>
    \/ /\ subject = "Clock" /\ Clock!Next
       /\ UNCHANGED <<subject, sync_vars, local_vars, lock_vars, hook_vars, exit_vars, boot_vars, mount_vars, dir_vars, attr_vars, atom_vars, cal_vars, media_vars>>
    \/ /\ subject = "Locals" /\ Locals!Next
       /\ UNCHANGED <<subject, sync_vars, clock_vars, lock_vars, hook_vars, exit_vars, boot_vars, mount_vars, dir_vars, attr_vars, atom_vars, cal_vars, media_vars>>
    \/ /\ subject = "Locks" /\ Locks!Next
       /\ UNCHANGED <<subject, sync_vars, clock_vars, local_vars, hook_vars, exit_vars, boot_vars, mount_vars, dir_vars, attr_vars, atom_vars, cal_vars, media_vars>>
    \/ /\ subject = "Hooks" /\ Hooks!Next
       /\ UNCHANGED <<subject, sync_vars, clock_vars, local_vars, lock_vars, exit_vars, boot_vars, mount_vars, dir_vars, attr_vars, atom_vars, cal_vars, media_vars>>
    \/ /\ subject = "Exit" /\ Exit!Next
       /\ UNCHANGED <<subject, sync_vars, clock_vars, local_vars, lock_vars, hook_vars, boot_vars, mount_vars, dir_vars, attr_vars, atom_vars, cal_vars, media_vars>>
    \/ /\ subject = "Boot" /\ Boot!Next
       /\ UNCHANGED <<subject, sync_vars, clock_vars, local_vars, lock_vars, hook_vars, exit_vars, mount_vars, dir_vars, attr_vars, atom_vars, cal_vars, media_vars>>
    \/ /\ subject = "Mounts" /\ Mounts!Next
       /\ UNCHANGED <<subject, sync_vars, clock_vars, local_vars, lock_vars, hook_vars, exit_vars, boot_vars, dir_vars, attr_vars, atom_vars, cal_vars, media_vars>>
    \/ /\ subject = "Streams" /\ Streams!Next
       /\ UNCHANGED <<subject, sync_vars, clock_vars, local_vars, lock_vars, hook_vars, exit_vars, boot_vars, mount_vars, attr_vars, atom_vars, cal_vars, media_vars>>
    \/ /\ subject = "Attributes" /\ Attributes!Next
       /\ UNCHANGED <<subject, sync_vars, clock_vars, local_vars, lock_vars, hook_vars, exit_vars, boot_vars, mount_vars, dir_vars, atom_vars, cal_vars, media_vars>>
    \/ /\ subject = "Atomics" /\ Atomics!Next
       /\ UNCHANGED <<subject, sync_vars, clock_vars, local_vars, lock_vars, hook_vars, exit_vars, boot_vars, mount_vars, dir_vars, attr_vars, cal_vars, media_vars>>
    \/ /\ subject = "Calendar" /\ Calendar!Next
       /\ UNCHANGED <<subject, sync_vars, clock_vars, local_vars, lock_vars, hook_vars, exit_vars, boot_vars, mount_vars, dir_vars, attr_vars, atom_vars, media_vars>>
    \/ /\ subject = "Media" /\ Media!Next
       /\ UNCHANGED <<subject, sync_vars, clock_vars, local_vars, lock_vars, hook_vars, exit_vars, boot_vars, mount_vars, dir_vars, attr_vars, atom_vars, cal_vars>>
vars == <<subject, sync_vars, clock_vars, local_vars, lock_vars, hook_vars, exit_vars, boot_vars, mount_vars, dir_vars, attr_vars, atom_vars, cal_vars, media_vars>>
Spec == Init /\ [][Next]_vars

-----------------------------------------------------------------------------
\* backend.cpp, mutexes and semaphores: all use the same lazily created
\* object, and no timeout or sleep is early. atomic.cpp: nobody sees or makes
\* half an update.
SynchronizationIsSound ==
    /\ [](/\ Sync!OneObject
          /\ subject = "Atomics" => Atomics!OperationsAreAtomic)
    /\ Sync!NeverEarly
\* backend.cpp, clocks: the extended counters are never a tick off, and
\* readers never see time go back. Rtc.cpp: readers get a time that the
\* calendar showed.
ClocksAreRight ==
    /\ Clock!ClocksAreRight
    /\ [](subject = "Calendar" => Calendar!TimesAreReal)
\* tls.cpp: thread_local objects keep their addresses, and each destructor
\* runs once, the latest first. thread.hpp: attributes reach the thread that
\* they were published for.
ThreadsKeepTheirOwn ==
    /\ subject = "Locals" => Locals!LocalsKeepTheirIdentity
    /\ subject = "Attributes" => Attributes!AttributesReachTheirThread
\* libc.c and cpu_clock.c: locks have their mutexes and one user, and errno,
\* stdio and CPU time follow the running thread. filesystem.cpp: directory
\* streams are complete, stable and never lost.
LibcServesThreads ==
    /\ [](/\ subject = "Locks" => Locks!LocksAreThere
          /\ subject = "Hooks" => Hooks!ThreadsHaveTheirContext
          /\ subject = "Streams" => Streams!StreamsAreComplete)
    /\ Streams!PositionsAreStable
\* thread_exit.cpp: callbacks run once, none is touched when deleted, and
\* waiters are told after the thread_local objects are gone.
CallbacksRunOnce == subject = "Exit" => Exit!CallbacksRunOnce
\* startup.cpp and initialize: threads find the whole runtime, and a failure
\* leaves nothing behind.
StartsCompletely == subject = "Boot" => Boot!StartsCompletely
\* storage_media.cpp: a volume with files is never formatted again.
VolumesAreKept == Mounts!VolumesAreKept
\* storage_media.cpp: no transfer leaves its medium or erases what it should
\* not.
TransfersStayInside == subject = "Media" => Media!TransfersStayInside
=============================================================================
