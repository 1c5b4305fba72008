-------------------------------- MODULE Startup -----------------------------
(***************************************************************************)
(* From reset to the application's main: startup.cpp, the hooks in         *)
(* tx_user.h, and initialize in backend.cpp, which undoes what it has made *)
(* when a later kernel object cannot be created.                           *)
(***************************************************************************)
EXTENDS Integers, Sequences

CONSTANTS MaxHooked     \* bound: threads that runtime_application_define creates

VARIABLES
    platform,
    at,             \* what the start-up code has reached
    made,           \* kernel objects of the runtime
    initialized,
    high_resolution_counter_available, system_clock_epoch_available,
    libc_locks_ready, adopted, files_ready,
    threads,        \* in the order of their creation
    ran             \* threads whose code has begun

vars == <<platform, at, made, initialized, high_resolution_counter_available,
          system_clock_epoch_available, libc_locks_ready, adopted, files_ready, threads, ran>>
clocks == <<high_resolution_counter_available, system_clock_epoch_available>>

Objects == <<"initialization_mutex", "cxx_guard", "cleanup_queue", "rollover_timer", "reaper">>
AllMade == {Objects[i] : i \in DOMAIN Objects}

Init ==
    /\ platform \in {"linux", "stm32"}
    /\ at = "main" /\ made = {} /\ initialized = FALSE
    /\ high_resolution_counter_available = FALSE /\ system_clock_epoch_available = FALSE
    /\ libc_locks_ready = FALSE /\ adopted = FALSE /\ files_ready = FALSE
    /\ threads = <<>> /\ ran = {}

\* __wrap_main: hal::initialize, then the kernel, whose hook is runtime_libc_initialize.
__wrap_main ==
    /\ at = "main" /\ at' = "define"
    /\ libc_locks_ready' = (platform = "stm32")
    /\ UNCHANGED <<platform, made, initialized, clocks, adopted, files_ready, threads, ran>>

\* tx_application_define: the stack check and the application's thread, or Error_Handler.
CreateApplication ==
    /\ at = "define"
    /\ \/ at' = "clocks" /\ threads' = <<"application">>
       \/ at' = "Error_Handler" /\ UNCHANGED threads
    /\ UNCHANGED <<platform, made, initialized, clocks, libc_locks_ready, adopted, files_ready, ran>>

\* initialize: the epochs of the clocks, with or without a RTC and a timer,
InitializeClocks ==
    /\ at = "clocks" /\ ~initialized /\ at' = "objects"
    /\ system_clock_epoch_available' \in BOOLEAN /\ high_resolution_counter_available' \in BOOLEAN
    /\ UNCHANGED <<platform, made, initialized, libc_locks_ready, adopted, files_ready, threads, ran>>
\* then one kernel object after the other.
Following == Objects[CHOOSE i \in DOMAIN Objects : Objects[i] \notin made /\ \A j \in 1 .. i - 1 : Objects[j] \in made]
CreateObject ==
    /\ at = "objects" /\ made # AllMade
    /\ made' = made \cup {Following}
    /\ threads' = IF Following = "reaper" THEN Append(threads, "reaper") ELSE threads
    /\ UNCHANGED <<platform, at, initialized, clocks, libc_locks_ready, adopted, files_ready, ran>>
Deleted_Forgets(object) == {"cxx_guard", "initialization_mutex"}
Deleted(object) ==
    CASE object = "initialization_mutex" -> {}
      [] object = "cxx_guard" -> {"initialization_mutex"}
      [] object = "cleanup_queue" -> {"cxx_guard", "initialization_mutex"}
      [] object = "rollover_timer" -> {"cleanup_queue", "cxx_guard", "initialization_mutex"}
      [] object = "reaper" -> {"rollover_timer", "cleanup_queue", "cxx_guard", "initialization_mutex"}
FailToCreate ==
    /\ at = "objects" /\ made # AllMade
    /\ made' = made \ Deleted(Following)
    /\ at' = "terminate"
    /\ UNCHANGED <<platform, initialized, clocks, libc_locks_ready, adopted, files_ready, threads, ran>>
Initialized ==
    /\ at = "objects" /\ made = AllMade
    /\ initialized' = TRUE /\ at' = "hook"
    /\ UNCHANGED <<platform, made, clocks, libc_locks_ready, adopted, files_ready, threads, ran>>

\* runtime_application_define, then runtime_tls_adopt_startup, then the scheduler.
CreateHooked ==
    /\ at = "hook" /\ Len(threads) < 2 + MaxHooked
    /\ threads' = Append(threads, "hooked")
    /\ UNCHANGED <<platform, at, made, initialized, clocks, libc_locks_ready, adopted, files_ready, ran>>
Adopt ==
    /\ at = "hook" /\ at' = "scheduler"
    /\ adopted' = (platform = "stm32")
    /\ UNCHANGED <<platform, made, initialized, clocks, libc_locks_ready, files_ready, threads, ran>>

Runs(thread) ==
    /\ at = "scheduler" /\ thread \notin ran /\ \E i \in DOMAIN threads : threads[i] = thread
    /\ ran' = ran \cup {thread}
    /\ UNCHANGED <<platform, at, made, initialized, clocks, libc_locks_ready, adopted, files_ready, threads>>
\* application_thread_entry
runtime_filex_initialize ==
    /\ at = "scheduler" /\ "application" \in ran /\ platform = "stm32" /\ ~files_ready
    /\ files_ready' = TRUE
    /\ UNCHANGED <<platform, at, made, initialized, clocks, libc_locks_ready, adopted, threads, ran>>
__real_main ==
    /\ at = "scheduler" /\ "application" \in ran /\ "main" \notin ran
    /\ platform = "stm32" => files_ready
    /\ ran' = ran \cup {"main"}
    /\ UNCHANGED <<platform, at, made, initialized, clocks, libc_locks_ready, adopted, files_ready, threads>>
MainReturns(status) ==
    /\ at = "scheduler" /\ "main" \in ran
    /\ at' = IF platform = "linux" THEN "exit" ELSE IF status # 0 THEN "Error_Handler" ELSE at
    /\ UNCHANGED <<platform, made, initialized, clocks, libc_locks_ready, adopted, files_ready, threads, ran>>

Next ==
    \/ __wrap_main \/ CreateApplication \/ InitializeClocks \/ CreateObject \/ FailToCreate \/ Initialized
    \/ CreateHooked \/ Adopt \/ runtime_filex_initialize \/ __real_main
    \/ \E thread \in {"application", "reaper", "hooked"} : Runs(thread)
    \/ \E status \in {0, 1} : MainReturns(status)

-----------------------------------------------------------------------------
(* Code of a thread finds the whole runtime, main is the first thread the   *)
(* application sees, and a failed initialization leaves no kernel object.   *)
StartsCompletely ==
    /\ ran # {} => /\ initialized /\ made = AllMade /\ threads[1] = "application"
                   /\ platform = "stm32" => libc_locks_ready /\ adopted
    /\ platform = "stm32" /\ "main" \in ran => files_ready
    /\ at = "terminate" => made = {}
    /\ ("reaper" \in made) <=> (\E i \in DOMAIN threads : threads[i] = "reaper")
=============================================================================
