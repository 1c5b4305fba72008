----------------------------- MODULE ExecutionHooks -------------------------
(***************************************************************************)
(* What ThreadX calls around threads and interrupts: libc.c and            *)
(* cpu_clock.c. Newlib's reentrancy pointer follows the running thread,    *)
(* and a 32-bit cycle counter is extended into the times of _times.        *)
(***************************************************************************)
EXTENDS Integers

CONSTANTS
    Threads,
    Wrap,               \* values of the cycle counter, 2^32
    Frequency, Rate,    \* cycles per second, CLOCKS_PER_SEC
    MaxCycles           \* bound: cycles since the start

VARIABLES
    current,        \* _tx_thread_current_ptr
    impure,         \* whose reentrancy state _impure_ptr points to
    created,        \* threads that exist
    isr,            \* an interrupt handler runs
    counter,        \* runtime_cpu_clock_counter
    cycles,         \* ghost: all cycles so far
    executed        \* ghost: those in which a thread had the processor

vars == <<current, impure, created, isr, counter, cycles, executed>>

Nobody == "nobody"
Global == "global"      \* _impure_data
SysTick == Wrap \div 2  \* there is an interrupt at least that often

\* _tx_execution_initialize
Init ==
    /\ current = Nobody /\ impure = Global /\ created = {} /\ isr = FALSE
    /\ cycles \in {0, Wrap - 1} /\ executed = 0
    /\ counter = [execution_cycles |-> 0, elapsed_cycles |-> 0, last_cycle |-> cycles % Wrap,
                  running |-> FALSE, since |-> cycles]

runtime_cpu_clock_update(running) ==
    LET now == cycles % Wrap
        elapsed == (now - counter.last_cycle) % Wrap
    IN  counter' = [execution_cycles |-> counter.execution_cycles + IF counter.running THEN elapsed ELSE 0,
                    elapsed_cycles |-> counter.elapsed_cycles + elapsed,
                    last_cycle |-> now, running |-> running, since |-> counter.since]

\* runtime_libc_thread_create and runtime_libc_thread_delete.
runtime_libc_thread_create(t) ==
    /\ t \notin created /\ ~isr
    /\ created' = created \cup {t}
    /\ UNCHANGED <<current, impure, isr, counter, cycles, executed>>
runtime_libc_thread_delete(t) ==
    /\ t \in created /\ t # current /\ ~isr
    /\ created' = created \ {t}
    /\ impure' = IF impure = t THEN Global ELSE impure
    /\ UNCHANGED <<current, isr, counter, cycles, executed>>

Reentrancy(t) == t
_tx_execution_thread_enter(t) ==
    /\ current = Nobody /\ t \in created /\ ~isr
    /\ current' = t /\ impure' = Reentrancy(t)
    /\ runtime_cpu_clock_update(TRUE)
    /\ UNCHANGED <<created, isr, cycles, executed>>
_tx_execution_thread_exit ==
    /\ current # Nobody /\ ~isr
    /\ current' = Nobody /\ impure' = Global
    /\ runtime_cpu_clock_update(FALSE)
    /\ UNCHANGED <<created, isr, cycles, executed>>
\* _tx_execution_isr_enter, _tx_execution_isr_exit
Interrupt ==
    /\ isr' = ~isr
    /\ runtime_cpu_clock_update(counter.running)
    /\ UNCHANGED <<current, impure, created, cycles, executed>>
_times ==
    /\ current # Nobody /\ ~isr
    /\ runtime_cpu_clock_update(counter.running)
    /\ UNCHANGED <<current, impure, created, isr, cycles, executed>>
runtime_cpu_clock_ticks(spent) ==
    (spent \div Frequency) * Rate + ((spent % Frequency) * Rate) \div Frequency

Pass ==
    /\ cycles < MaxCycles
    /\ cycles - counter.since < counter.elapsed_cycles + SysTick
    /\ cycles' = cycles + 1
    /\ executed' = executed + IF current # Nobody THEN 1 ELSE 0
    /\ UNCHANGED <<current, impure, created, isr, counter>>

Next ==
    \/ \E t \in Threads :
        runtime_libc_thread_create(t) \/ runtime_libc_thread_delete(t) \/ _tx_execution_thread_enter(t)
    \/ _tx_execution_thread_exit \/ Interrupt \/ _times \/ Pass

-----------------------------------------------------------------------------
(* A thread uses its own errno and stdio, never those of a deleted one, and *)
(* no cycle is lost or counted twice when the counter wraps, while threads  *)
(* come and go.                                                             *)
Pending == (cycles - counter.last_cycle) % Wrap
ThreadsHaveTheirContext ==
    /\ impure = IF current = Nobody THEN Global ELSE current
    /\ counter.elapsed_cycles + Pending = cycles - counter.since
    /\ counter.execution_cycles + (IF counter.running THEN Pending ELSE 0) = executed
    /\ runtime_cpu_clock_ticks(executed) = (executed * Rate) \div Frequency
=============================================================================
