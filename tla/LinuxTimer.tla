----------------------------- MODULE LinuxTimer -----------------------------
(***************************************************************************)
(* The timer driver of the Linux simulation                                *)
(* (platform/hal/drivers/impl/linux/Timer.cpp).                            *)
(*                                                                         *)
(* A hardware timer is imitated with the monotonic clock: the counter is   *)
(* computed from the time since it was last set, and a worker thread waits *)
(* on a condition variable until the next overflow and then calls the      *)
(* callback, without the mutex.  Every operation holds the mutex for its   *)
(* whole body and does not block, so it is one step.  The worker's timed   *)
(* wait is several, because others may take the mutex before it.           *)
(*                                                                         *)
(* Time advances in steps of one timer tick.  Instead of absolute times    *)
(* the model keeps the time since m_startedAtNanoseconds, modulo a period, *)
(* and the time left until the worker's deadline.                          *)
(***************************************************************************)
EXTENDS Integers

CONSTANTS
    Reloads,    \* values of the auto-reload register
    Counters,   \* values that the application sets the counter to
    Second,     \* the wait of a worker whose timer does not tick
    MaxOps      \* bound: operations that increment m_stateVersion

ASSUME ConstantsAssumption ==
    /\ Reloads \subseteq Nat /\ Reloads # {} /\ Counters \subseteq Nat
    /\ Second \in Nat \ {0} /\ MaxOps \in Nat

VARIABLES
    m_autoReload, m_counter, m_running, m_interruptEnabled, m_stateVersion,
    ticking,       \* is the tick frequency, input over prescaler + 1, not zero?
    elapsed,       \* since m_startedAtNanoseconds
    m_shuttingDown,
    destroyed,     \* the destructor has returned
    worker,        \* position in workerLoop
    remaining,     \* time until the deadline of pthread_cond_timedwait
    late           \* history: callbacks since interrupts were disabled

counterVars == <<m_autoReload, m_counter, m_running, ticking, elapsed>>
configVars == <<counterVars, m_interruptEnabled, m_stateVersion>>
lifeVars == <<m_shuttingDown, destroyed>>
workerVars == <<worker, remaining>>
vars == <<configVars, lifeVars, workerVars, late>>

Init ==
    /\ m_autoReload \in Reloads
    /\ m_counter = 0
    /\ m_running = FALSE /\ m_interruptEnabled = FALSE
    /\ m_stateVersion = 0
    /\ ticking = TRUE
    /\ elapsed = 0
    /\ m_shuttingDown = FALSE /\ destroyed = FALSE
    /\ worker = "check" /\ remaining = 0
    /\ late = 0

-----------------------------------------------------------------------------

Period == m_autoReload + 1
CounterAt == IF ticking THEN (m_counter + elapsed) % Period ELSE m_counter

\* getCounter
Shown == IF m_running THEN CounterAt ELSE m_counter

\* nanosecondsUntilOverflowUnlocked
UntilOverflow == IF ticking THEN Period - (Shown % Period) ELSE Second

\* captureCounter and m_startedAtNanoseconds = now, where the code has both.
Capture == m_counter' = Shown /\ elapsed' = 0

\* pthread_cond_broadcast.  A worker whose wait has timed out, but which does not
\* have the mutex yet, does not notice.
NotifyWorker ==
    worker' = IF worker \in {"idle", "waiting"} THEN "check" ELSE worker

\* Every operation that changes the timer's course.
Operation ==
    /\ ~m_shuttingDown
    /\ m_stateVersion < MaxOps
    /\ m_stateVersion' = m_stateVersion + 1
    /\ UNCHANGED <<lifeVars, remaining>>

-----------------------------------------------------------------------------
(* Operations of the application, also from inside the callback.            *)

\* start and startIt; with a zero frequency they fail.
Start(it) ==
    /\ Operation
    /\ ticking
    /\ Capture
    /\ m_running' = TRUE
    /\ m_interruptEnabled' = it
    /\ late' = 0
    /\ NotifyWorker
    /\ UNCHANGED <<m_autoReload, ticking>>

\* Mutant: the counter falls back to its last captured value.
Stop_NoCapture ==
    /\ Operation
    /\ m_running' = FALSE
    /\ m_interruptEnabled' = FALSE
    /\ late' = 0
    /\ NotifyWorker
    /\ UNCHANGED <<m_autoReload, m_counter, ticking, elapsed>>

\* stop and stopIt
Stop ==
    /\ Operation
    /\ m_counter' = Shown
    /\ m_running' = FALSE
    /\ m_interruptEnabled' = FALSE
    /\ late' = 0
    /\ NotifyWorker
    /\ UNCHANGED <<m_autoReload, ticking, elapsed>>

\* Mutant: the state version is not incremented.
SetCounter_SameVersion(value) ==
    /\ ~m_shuttingDown
    /\ m_counter' = value /\ elapsed' = 0
    /\ NotifyWorker
    /\ UNCHANGED <<m_autoReload, m_running, ticking, m_interruptEnabled, late,
                   m_stateVersion, lifeVars, remaining>>

\* setCounter, reset and forceUpdateEvent
SetCounter(value) ==
    /\ Operation
    /\ m_counter' = value /\ elapsed' = 0
    /\ NotifyWorker
    /\ UNCHANGED <<m_autoReload, m_running, ticking, m_interruptEnabled, late>>

\* Mutant: the worker is not notified.
SetAutoReload_Silent(value) ==
    /\ Operation
    /\ Capture
    /\ m_autoReload' = value
    /\ UNCHANGED <<m_running, ticking, m_interruptEnabled, late, worker>>

SetAutoReload(value) ==
    /\ Operation
    /\ Capture
    /\ m_autoReload' = value
    /\ NotifyWorker
    /\ UNCHANGED <<m_running, ticking, m_interruptEnabled, late>>

\* setPrescaler, as far as it decides whether the timer ticks at all.
SetPrescaler ==
    /\ Operation
    /\ Capture
    /\ ticking' \in BOOLEAN
    /\ NotifyWorker
    /\ UNCHANGED <<m_autoReload, m_running, m_interruptEnabled, late>>

\* Mutant: a period of no ticks is not treated as one of a single tick.
SetPeriod_Unclamped(ticks) ==
    /\ Operation
    /\ m_autoReload' = ticks - 1
    /\ m_counter' = 0 /\ elapsed' = 0
    /\ NotifyWorker
    /\ UNCHANGED <<m_running, ticking, m_interruptEnabled, late>>

\* setPeriodImpl, after durationToTicksUnlocked
SetPeriod(ticks) ==
    /\ Operation
    /\ m_autoReload' = IF ticks = 0 THEN 0 ELSE ticks - 1
    /\ m_counter' = 0 /\ elapsed' = 0
    /\ NotifyWorker
    /\ UNCHANGED <<m_running, ticking, m_interruptEnabled, late>>

\* Mutant: the worker is not notified.
Destroy_Silent ==
    /\ ~m_shuttingDown
    /\ m_shuttingDown' = TRUE
    /\ UNCHANGED <<configVars, destroyed, workerVars, late>>

\* The destructor; nobody calls the timer any more, and it is not the callback
\* that destroys it.
Destroy ==
    /\ ~m_shuttingDown
    /\ m_shuttingDown' = TRUE
    /\ NotifyWorker
    /\ UNCHANGED <<configVars, destroyed, remaining, late>>

DestroyReturns ==
    /\ m_shuttingDown /\ ~destroyed
    /\ worker = "exited"
    /\ destroyed' = TRUE
    /\ UNCHANGED <<configVars, m_shuttingDown, workerVars, late>>

-----------------------------------------------------------------------------
(* The worker.                                                              *)

\* Mutant: the worker does not look whether interrupts are enabled.
WorkerChecks_RunningOnly ==
    /\ worker = "check"
    /\ \/ m_shuttingDown /\ worker' = "exited" /\ UNCHANGED remaining
       \/ ~m_shuttingDown /\ ~m_running
             /\ worker' = "idle" /\ UNCHANGED remaining
       \/ ~m_shuttingDown /\ m_running
             /\ worker' = "waiting" /\ remaining' = UntilOverflow
    /\ UNCHANGED <<configVars, lifeVars, late>>

\* With the mutex: leave, wait for something to do, or wait for the overflow.
WorkerChecks ==
    /\ worker = "check"
    /\ \/ m_shuttingDown /\ worker' = "exited" /\ UNCHANGED remaining
       \/ ~m_shuttingDown /\ ~(m_running /\ m_interruptEnabled)
             /\ worker' = "idle" /\ UNCHANGED remaining
       \/ ~m_shuttingDown /\ m_running /\ m_interruptEnabled
             /\ worker' = "waiting" /\ remaining' = UntilOverflow
    /\ UNCHANGED <<configVars, lifeVars, late>>

\* Waits may return without a reason.
WorkerWakesSpuriously ==
    /\ worker \in {"idle", "waiting"}
    /\ worker' = "check"
    /\ UNCHANGED <<configVars, lifeVars, remaining, late>>

WorkerTimesOut ==
    /\ worker = "waiting" /\ remaining = 0
    /\ worker' = "timedout"
    /\ UNCHANGED <<configVars, lifeVars, remaining, late>>

\* The worker has the mutex again and goes on with ETIMEDOUT.  It does not look
\* at the timer's state before it releases the mutex and calls the callback.
CallbackStarts ==
    /\ worker = "timedout"
    /\ worker' = "callback"
    /\ late' = IF m_running /\ m_interruptEnabled THEN 0 ELSE late + 1
    /\ UNCHANGED <<configVars, lifeVars, remaining>>

\* Mutant: the callback runs once, then the worker waits to be notified.
CallbackReturns_Idle ==
    /\ worker = "callback"
    /\ worker' = "idle"
    /\ UNCHANGED <<configVars, lifeVars, remaining, late>>

CallbackReturns ==
    /\ worker = "callback"
    /\ worker' = "check"
    /\ UNCHANGED <<configVars, lifeVars, remaining, late>>

\* One tick of time.
Tick ==
    /\ ~destroyed
    /\ elapsed' = (elapsed + 1) % Period
    /\ remaining' = IF remaining = 0 THEN 0 ELSE remaining - 1
    /\ UNCHANGED <<m_autoReload, m_counter, m_running, ticking, m_interruptEnabled,
                   m_stateVersion, lifeVars, worker, late>>

-----------------------------------------------------------------------------

Next ==
    \/ \E it \in BOOLEAN : Start(it)
    \/ Stop \/ SetPrescaler
    \/ \E value \in Counters : SetCounter(value)
    \/ \E value \in Reloads : SetAutoReload(value)
    \/ \E ticks \in {0} \union {value + 1 : value \in Reloads} : SetPeriod(ticks)
    \/ Destroy \/ DestroyReturns
    \/ WorkerChecks \/ WorkerWakesSpuriously \/ WorkerTimesOut
    \/ CallbackStarts \/ CallbackReturns
    \/ Tick

\* Time passes, the worker is scheduled, callbacks return.
Fairness ==
    /\ WF_vars(Tick) /\ WF_vars(WorkerChecks) /\ WF_vars(WorkerTimesOut)
    /\ WF_vars(CallbackStarts) /\ WF_vars(CallbackReturns) /\ WF_vars(DestroyReturns)

Spec == Init /\ [][Next]_vars
FairSpec == Spec /\ Fairness

-----------------------------------------------------------------------------
(* Properties.                                                              *)

TypeOK ==
    /\ m_autoReload \in Nat
    /\ m_counter \in Nat
    /\ m_running \in BOOLEAN /\ m_interruptEnabled \in BOOLEAN /\ ticking \in BOOLEAN
    /\ m_shuttingDown \in BOOLEAN /\ destroyed \in BOOLEAN
    /\ m_stateVersion \in 0..MaxOps
    /\ elapsed \in Nat /\ remaining \in Nat
    /\ worker \in {"check", "idle", "waiting", "timedout", "callback", "exited"}
    /\ late \in Nat

\* While the worker waits for the overflow, its deadline is the overflow of the
\* timer as it is now configured, or it is late: no operation leaves it waiting
\* with an old deadline.
DeadlineIsCurrent ==
    worker = "waiting" /\ ticking /\ remaining > 0 =>
        m_running /\ m_interruptEnabled /\ remaining = UntilOverflow

\* The worker never sleeps towards an overflow that is no longer the timer's.
WorkerIsCurrent == TypeOK /\ DeadlineIsCurrent

\* After stop, stopIt or a start without interrupts at most one callback starts:
\* the one whose wait had timed out before.
AtMostOneLateCallback == late <= 1

\* Whoever reads the counter twice and finds the same state version has seen it
\* advance tick by tick: every other change is visible in the version (the
\* C++ runtime's high-resolution clock relies on it).  Starting and stopping do
\* not make the counter jump at all.
VersionSeesJumps ==
    [][/\ m_stateVersion' = m_stateVersion =>
              Shown' = Shown \/ Shown' = (Shown + 1) % Period
       /\ m_running' # m_running => Shown' % Period' = Shown % Period]_vars

\* A running timer with interrupts enabled calls back, again and again, unless
\* spurious wake-ups keep cutting its waits short.
KeepsCallingBack ==
    \/ []<><<WorkerWakesSpuriously>>_vars
    \/ m_running /\ m_interruptEnabled /\ worker # "timedout"
          ~> (worker = "timedout" \/ ~(m_running /\ m_interruptEnabled) \/ m_shuttingDown)

\* The destructor returns: it waits for a callback, but not for a period.
DestroyEnds == m_shuttingDown ~> destroyed

\* The worker serves both: the next callback and the destructor's request.
WorkerServes == KeepsCallingBack /\ DestroyEnds

=============================================================================
