-------------------------- MODULE LinuxTimerProofs --------------------------
(***************************************************************************)
(* Promises of the Linux timer, for all reload values, counters and        *)
(* numbers of operations: stop and stopIt let at most one callback start   *)
(* after them, and the worker never waits for an overflow that is no       *)
(* longer the timer's.                                                     *)
(***************************************************************************)
EXTENDS LinuxTimer, TLAPS

Positions == {"check", "idle", "waiting", "timedout", "callback", "exited"}

\* A worker only sleeps until the overflow while callbacks are wanted.  After a
\* callback that was not, it can neither be asleep until an overflow nor about to
\* call again.
LateInv ==
    /\ late \in {0, 1}
    /\ worker \in Positions
    /\ worker = "waiting" => m_running /\ m_interruptEnabled
    /\ late = 1 => /\ ~(m_running /\ m_interruptEnabled)
                   /\ worker \notin {"waiting", "timedout"}

\* A notified worker is not asleep until an overflow, and otherwise where it was.
LEMMA Notified ==
    ASSUME worker \in Positions, NotifyWorker
    PROVE  /\ worker' \in Positions \ {"waiting"}
           /\ worker' = "timedout" => worker = "timedout"
BY DEF Positions, NotifyWorker

\* One step per action.
LEMMA LateStep == LateInv /\ [Next]_vars => LateInv'
<1> SUFFICES ASSUME LateInv, [Next]_vars PROVE LateInv'
    OBVIOUS
<1> USE DEF LateInv
<1>1. ASSUME NEW it \in BOOLEAN, Start(it) PROVE LateInv'
      BY <1>1, Notified DEF Start, Operation
<1>2. CASE Stop
      BY <1>2, Notified DEF Stop, Operation
<1>3. CASE SetPrescaler
      BY <1>3, Notified DEF SetPrescaler, Operation
<1>4. ASSUME NEW value \in Counters, SetCounter(value) PROVE LateInv'
      BY <1>4, Notified DEF SetCounter, Operation
<1>5. ASSUME NEW value \in Reloads, SetAutoReload(value) PROVE LateInv'
      BY <1>5, Notified DEF SetAutoReload, Operation
<1>6. ASSUME NEW ticks, SetPeriod(ticks) PROVE LateInv'
      BY <1>6, Notified DEF SetPeriod, Operation
<1>7. CASE Destroy
      BY <1>7, Notified DEF Destroy, configVars, counterVars
<1>8. CASE DestroyReturns \/ WorkerChecks \/ WorkerWakesSpuriously \/ WorkerTimesOut
              \/ CallbackReturns \/ Tick
      BY <1>8 DEF DestroyReturns, WorkerChecks, WorkerWakesSpuriously, WorkerTimesOut,
                  CallbackReturns, Tick, configVars, counterVars, workerVars, Positions
<1>9. CASE CallbackStarts
      BY <1>9 DEF CallbackStarts, configVars, counterVars, Positions
<1>10. CASE UNCHANGED vars
      BY <1>10 DEF vars, configVars, counterVars, workerVars
<1> QED
    BY <1>1, <1>2, <1>3, <1>4, <1>5, <1>6, <1>7, <1>8, <1>9, <1>10 DEF Next

\* After stop or stopIt returned, or after a start without interrupts, at most one
\* callback starts until interrupts are enabled again: workerLoop may have timed
\* out before, but does not wait for an overflow again.
THEOREM LateCallbackOnce == Spec => []AtMostOneLateCallback
<1>1. Init => LateInv
      BY DEF Init, LateInv, Positions
<1>2. LateInv => AtMostOneLateCallback
      BY DEF LateInv, AtMostOneLateCallback
<1> QED
    BY <1>1, <1>2, LateStep, PTL DEF Spec

-----------------------------------------------------------------------------
(* The counter, modulo a period.                                            *)

LEMMA DivMod ==
    ASSUME NEW p \in Nat \ {0}, NEW a \in Int
    PROVE  a % p \in 0..(p - 1) /\ a \div p \in Int /\ a = p * (a \div p) + (a % p)
BY SMT

LEMMA ModUnique ==
    ASSUME NEW p \in Nat \ {0}, NEW q \in Int, NEW r \in 0..(p - 1)
    PROVE  (p * q + r) % p = r
BY SMT

\* A tick advances the counter by one, unless it overflows.
LEMMA ModNext ==
    ASSUME NEW p \in Nat \ {0}, NEW a \in Nat, (a % p) + 1 < p
    PROVE  (a + 1) % p = (a % p) + 1
<1>1. a + 1 = p * (a \div p) + ((a % p) + 1)
      BY DivMod
<1>2. (a % p) + 1 \in 0..(p - 1) /\ a \div p \in Int
      BY DivMod
<1> QED
    BY <1>1, <1>2, ModUnique

\* It makes no difference that the elapsed time is kept modulo the period.
LEMMA ModInner ==
    ASSUME NEW p \in Nat \ {0}, NEW a \in Nat, NEW b \in Nat
    PROVE  (a + (b % p)) % p = (a + b) % p
<1> DEFINE k == b \div p
           r == b % p
           l == (a + r) \div p
           s == (a + r) % p
<1>1. k \in Int /\ r \in 0..(p - 1) /\ b = p * k + r
      BY DivMod
<1>2. r \in Nat
      BY <1>1
<1>3. l \in Int /\ s \in 0..(p - 1) /\ a + r = p * l + s
      <2> HIDE DEF r
      <2>1. a + r \in Int
            BY <1>2
      <2> QED
          BY <2>1, DivMod
<1> HIDE DEF k, r, l, s
<1>4. a + b = p * (k + l) + s
      BY <1>1, <1>2, <1>3
<1>5. k + l \in Int
      BY <1>1, <1>3
<1>6. (a + b) % p = s
      BY <1>3, <1>4, <1>5, ModUnique
<1> QED
    BY <1>6 DEF s, r

\* The counter as the next tick shows it.
LEMMA ShownNext ==
    ASSUME NEW p \in Nat \ {0}, NEW m \in Nat, NEW e \in Nat, ((m + e) % p) + 1 < p
    PROVE  (m + ((e + 1) % p)) % p = ((m + e) % p) + 1
<1>1. (m + e) % p \in 0..(p - 1)
      BY DivMod
<1>2. (m + e + 1) % p = ((m + e) % p) + 1
      <2> DEFINE a == m + e
      <2>1. a \in Nat
            OBVIOUS
      <2>2. (a % p) + 1 < p
            BY <1>1
      <2> HIDE DEF a
      <2>3. (a + 1) % p = (a % p) + 1
            BY <2>1, <2>2, ModNext
      <2> QED
          BY <2>3 DEF a
<1>3. (m + ((e + 1) % p)) % p = (m + e + 1) % p
      <2> DEFINE b == e + 1
      <2>1. b \in Nat
            OBVIOUS
      <2>2. m + e + 1 = m + b
            OBVIOUS
      <2> HIDE DEF b
      <2>3. (m + (b % p)) % p = (m + b) % p
            BY <2>1, ModInner
      <2> QED
          BY <2>2, <2>3 DEF b
<1> QED
    BY <1>2, <1>3

-----------------------------------------------------------------------------
(* Types.                                                                   *)

LEMMA InitTypeOK == Init => TypeOK
<1> SUFFICES ASSUME Init PROVE TypeOK
    OBVIOUS
<1>1. /\ m_running \in BOOLEAN /\ m_interruptEnabled \in BOOLEAN /\ ticking \in BOOLEAN
      BY DEF Init
<1>2. m_autoReload \in Nat
      BY ConstantsAssumption DEF Init
<1>3. m_counter \in Nat /\ elapsed \in Nat /\ remaining \in Nat /\ late \in Nat
      BY DEF Init
<1>4. m_stateVersion \in 0..MaxOps
      BY ConstantsAssumption DEF Init
<1>5. worker \in {"check", "idle", "waiting", "timedout", "callback", "exited"}
      BY DEF Init
<1>6. m_shuttingDown \in BOOLEAN /\ destroyed \in BOOLEAN
      BY DEF Init
<1> QED
    BY <1>1, <1>2, <1>3, <1>4, <1>5, <1>6 DEF TypeOK

LEMMA ShownInNat == TypeOK => Shown \in Nat /\ Period \in Nat \ {0}
<1> SUFFICES ASSUME TypeOK PROVE Shown \in Nat /\ Period \in Nat \ {0}
    OBVIOUS
<1>1. m_autoReload \in Nat /\ m_counter \in Nat /\ elapsed \in Nat
      BY DEF TypeOK
<1>2. Period \in Nat \ {0}
      BY <1>1 DEF Period
<1>3. (m_counter + elapsed) % Period \in 0..(Period - 1)
      BY <1>1, <1>2, DivMod
<1> QED
    BY <1>1, <1>2, <1>3 DEF Shown, CounterAt

LEMMA TypeStep == TypeOK /\ [Next]_vars => TypeOK'
<1> SUFFICES ASSUME TypeOK, [Next]_vars PROVE TypeOK'
    OBVIOUS
<1>0. Shown \in Nat /\ Period \in Nat \ {0}
      BY ShownInNat
<1> USE ConstantsAssumption DEF TypeOK
<1>n. ASSUME NotifyWorker
      PROVE  worker' \in {"check", "idle", "waiting", "timedout", "callback", "exited"}
      BY <1>n DEF NotifyWorker
<1>1. ASSUME NEW it \in BOOLEAN, Start(it) PROVE TypeOK'
      BY <1>0, <1>1, <1>n DEF Start, Operation, Capture, lifeVars
<1>2. CASE Stop
      <2>1. /\ m_counter' = Shown /\ elapsed' = elapsed /\ m_autoReload' = m_autoReload
            /\ remaining' = remaining /\ late' = 0 /\ m_stateVersion' \in 0..MaxOps
            BY <1>2 DEF Stop, Operation
      <2>2. /\ m_running' = FALSE /\ m_interruptEnabled' = FALSE /\ ticking' = ticking
            /\ m_shuttingDown' = m_shuttingDown /\ destroyed' = destroyed
            BY <1>2 DEF Stop, Operation, lifeVars
      <2>3. worker' \in {"check", "idle", "waiting", "timedout", "callback", "exited"}
            BY <1>2, <1>n DEF Stop
      <2> QED
          BY <1>0, <2>1, <2>2, <2>3
<1>3. CASE SetPrescaler
      BY <1>0, <1>3, <1>n DEF SetPrescaler, Operation, Capture, lifeVars
<1>4. ASSUME NEW value \in Counters, SetCounter(value) PROVE TypeOK'
      BY <1>4, <1>n DEF SetCounter, Operation, lifeVars
<1>5. ASSUME NEW value \in Reloads, SetAutoReload(value) PROVE TypeOK'
      BY <1>0, <1>5, <1>n DEF SetAutoReload, Operation, Capture, lifeVars
<1>6. ASSUME NEW ticks \in {0} \union {value + 1 : value \in Reloads}, SetPeriod(ticks)
      PROVE  TypeOK'
      BY <1>6, <1>n DEF SetPeriod, Operation, lifeVars
<1>7. CASE Destroy
      BY <1>7, <1>n DEF Destroy, configVars, counterVars
<1>8. CASE DestroyReturns \/ WorkerWakesSpuriously \/ WorkerTimesOut \/ CallbackStarts
              \/ CallbackReturns
      <2>1. UNCHANGED <<m_autoReload, m_counter, m_running, ticking, elapsed,
                        m_interruptEnabled, m_stateVersion, m_shuttingDown, remaining>>
            BY <1>8 DEF DestroyReturns, WorkerWakesSpuriously, WorkerTimesOut, CallbackStarts,
                        CallbackReturns, configVars, counterVars, lifeVars, workerVars
      <2>2. destroyed' \in BOOLEAN
            BY <1>8 DEF DestroyReturns, WorkerWakesSpuriously, WorkerTimesOut, CallbackStarts,
                        CallbackReturns, lifeVars
      <2>3. late' \in Nat
            BY <1>8 DEF DestroyReturns, WorkerWakesSpuriously, WorkerTimesOut, CallbackStarts,
                        CallbackReturns
      <2>4. worker' \in {"check", "idle", "waiting", "timedout", "callback", "exited"}
            BY <1>8 DEF DestroyReturns, WorkerWakesSpuriously, WorkerTimesOut, CallbackStarts,
                        CallbackReturns, workerVars
      <2> QED
          BY <2>1, <2>2, <2>3, <2>4
<1>9. CASE WorkerChecks
      <2>1. UntilOverflow \in Nat
            <3>1. Shown % Period \in 0..(Period - 1)
                  BY <1>0, DivMod
            <3> QED
                BY <1>0, <3>1 DEF UntilOverflow
      <2> QED
          BY <2>1, <1>9 DEF WorkerChecks, configVars, counterVars, lifeVars
<1>10. CASE Tick
       <2>1. (elapsed + 1) % Period \in 0..(Period - 1)
             BY <1>0, DivMod
       <2>2. elapsed' \in Nat
             BY <1>0, <2>1, <1>10 DEF Tick
       <2> QED
           BY <2>2, <1>10 DEF Tick, lifeVars
<1>11. CASE UNCHANGED vars
       BY <1>11 DEF vars, configVars, counterVars, lifeVars, workerVars
<1> QED
    BY <1>1, <1>2, <1>3, <1>4, <1>5, <1>6, <1>7, <1>8, <1>9, <1>10, <1>11 DEF Next

-----------------------------------------------------------------------------
(* The deadline.                                                            *)

\* With the mutex, the worker takes the time until the overflow as its deadline;
\* whoever changes that time notifies the worker, and a tick of time shortens
\* both.
LEMMA DeadlineStep ==
    TypeOK /\ LateInv /\ DeadlineIsCurrent /\ [Next]_vars => DeadlineIsCurrent'
<1> SUFFICES ASSUME TypeOK, LateInv, DeadlineIsCurrent, [Next]_vars PROVE DeadlineIsCurrent'
    OBVIOUS
<1>n. worker \in Positions /\ (NotifyWorker => worker' # "waiting")
      BY Notified DEF LateInv
<1>1. ASSUME NEW it \in BOOLEAN, Start(it) PROVE DeadlineIsCurrent'
      BY <1>1, <1>n DEF Start, DeadlineIsCurrent
<1>2. CASE Stop \/ SetPrescaler \/ Destroy
      BY <1>2, <1>n DEF Stop, SetPrescaler, Destroy, DeadlineIsCurrent
<1>3. ASSUME NEW value, SetCounter(value) \/ SetAutoReload(value) \/ SetPeriod(value)
      PROVE  DeadlineIsCurrent'
      BY <1>3, <1>n DEF SetCounter, SetAutoReload, SetPeriod, DeadlineIsCurrent
<1>4. CASE WorkerWakesSpuriously \/ WorkerTimesOut \/ CallbackStarts \/ CallbackReturns
      BY <1>4 DEF WorkerWakesSpuriously, WorkerTimesOut, CallbackStarts, CallbackReturns,
                  DeadlineIsCurrent
<1>5. CASE DestroyReturns \/ UNCHANGED vars
      BY <1>5 DEF DestroyReturns, vars, configVars, counterVars, workerVars, DeadlineIsCurrent,
                  UntilOverflow, Shown, CounterAt, Period
<1>6. CASE WorkerChecks
      BY <1>6 DEF WorkerChecks, configVars, counterVars, DeadlineIsCurrent, UntilOverflow,
                  Shown, CounterAt, Period
<1>7. CASE Tick
      <2> SUFFICES ASSUME worker' = "waiting", ticking', remaining' > 0
                   PROVE  m_running' /\ m_interruptEnabled' /\ remaining' = UntilOverflow'
          BY DEF DeadlineIsCurrent
      <2>1. /\ UNCHANGED <<m_autoReload, m_counter, m_running, ticking, m_interruptEnabled, worker>>
            /\ elapsed' = (elapsed + 1) % Period
            /\ remaining' = IF remaining = 0 THEN 0 ELSE remaining - 1
            BY <1>7 DEF Tick
      <2>2. /\ m_autoReload \in Nat /\ m_counter \in Nat /\ elapsed \in Nat /\ remaining \in Nat
            /\ Period \in Nat \ {0}
            BY ShownInNat DEF TypeOK
      <2>3. worker = "waiting" /\ ticking /\ remaining > 1 /\ remaining' = remaining - 1
            BY <2>1, <2>2
      <2>4. m_running /\ m_interruptEnabled /\ remaining = UntilOverflow
            BY <2>2, <2>3 DEF DeadlineIsCurrent
      <2>5. Shown = (m_counter + elapsed) % Period
            BY <2>3, <2>4 DEF Shown, CounterAt
      <2>6. Shown' = (m_counter + ((elapsed + 1) % Period)) % Period
            BY <2>1, <2>3, <2>4 DEF Shown, CounterAt, Period
      <2>7. Shown % Period = Shown /\ Shown' % Period' = Shown'
            <3>1. /\ Shown \in 0..(Period - 1)
                  /\ (elapsed + 1) % Period \in 0..(Period - 1)
                  BY <2>2, <2>5, DivMod
            <3>2. Shown' \in 0..(Period - 1)
                  BY <2>2, <2>6, <3>1, DivMod
            <3>3. Period' = Period
                  BY <2>1 DEF Period
            <3>4. \A r \in 0..(Period - 1) : r % Period = r
                  BY <2>2, ModUnique
            <3> QED
                BY <3>1, <3>2, <3>3, <3>4
      <2>8. remaining = Period - ((m_counter + elapsed) % Period)
            BY <2>3, <2>4, <2>5, <2>7 DEF UntilOverflow
      <2>9. (m_counter + ((elapsed + 1) % Period)) % Period = Shown + 1
            <3>1. ((m_counter + elapsed) % Period) + 1 < Period
                  BY <2>2, <2>3, <2>5, <2>8
            <3>2. (m_counter + ((elapsed + 1) % Period)) % Period
                     = ((m_counter + elapsed) % Period) + 1
                  BY <2>2, <3>1, ShownNext
            <3> QED
                BY <2>5, <3>2
      <2>10. UntilOverflow' = Period - Shown'
             BY <2>1, <2>3, <2>7 DEF UntilOverflow, Period
      <2> QED
          BY <2>1, <2>2, <2>3, <2>4, <2>5, <2>6, <2>8, <2>9, <2>10
<1> QED
    BY <1>1, <1>2, <1>3, <1>4, <1>5, <1>6, <1>7 DEF Next

\* While the worker waits for the overflow, its deadline is the overflow of the
\* timer as it is now configured: every operation of the application that moves
\* the overflow sends the worker back to look again (workerLoop and the
\* pthread_cond_broadcast of each operation).
THEOREM WorkerIsCurrentHolds == Spec => []WorkerIsCurrent
<1>1. Init => TypeOK /\ LateInv /\ DeadlineIsCurrent
      BY InitTypeOK DEF Init, LateInv, Positions, DeadlineIsCurrent
<1>2. TypeOK /\ LateInv /\ DeadlineIsCurrent /\ [Next]_vars
         => (TypeOK /\ LateInv /\ DeadlineIsCurrent)'
      BY TypeStep, LateStep, DeadlineStep
<1>3. TypeOK /\ DeadlineIsCurrent => WorkerIsCurrent
      BY DEF WorkerIsCurrent
<1> QED
    BY <1>1, <1>2, <1>3, PTL DEF Spec

-----------------------------------------------------------------------------
(* What a reader of the counter sees.                                       *)

LEMMA ModOfMod ==
    ASSUME NEW p \in Nat \ {0}, NEW a \in Nat
    PROVE  a % p \in Nat /\ (a % p) % p = a % p
<1>1. a % p \in 0..(p - 1)
      BY DivMod
<1>2. \A r \in 0..(p - 1) : r % p = r
      BY ModUnique
<1> QED
    BY <1>1, <1>2

\* The three forms of adding one to a counter with a period.
LEMMA TickAdds ==
    ASSUME NEW p \in Nat \ {0}, NEW m \in Nat, NEW e \in Nat
    PROVE  (m + ((e + 1) % p)) % p = (((m + e) % p) + 1) % p
<1> DEFINE b == e + 1
           a == m + e
<1>1. b \in Nat /\ a \in Nat /\ m + b = 1 + a /\ 1 \in Nat
      OBVIOUS
<1> HIDE DEF a, b
<1>2. (m + (b % p)) % p = (m + b) % p
      BY <1>1, ModInner
<1>3. (1 + (a % p)) % p = (1 + a) % p
      BY <1>1, ModInner
<1>4. a % p \in Nat
      BY <1>1, ModOfMod
<1>5. 1 + (a % p) = (a % p) + 1
      BY <1>4
<1> QED
    BY <1>1, <1>2, <1>3, <1>5 DEF a, b

SeesJumps ==
    /\ m_stateVersion' = m_stateVersion => Shown' = Shown \/ Shown' = (Shown + 1) % Period
    /\ m_running' # m_running => Shown' % Period' = Shown % Period

LEMMA JumpStep == TypeOK /\ [Next]_vars => SeesJumps
<1> SUFFICES ASSUME TypeOK, [Next]_vars PROVE SeesJumps
    OBVIOUS
<1>v. Operation => m_stateVersion' # m_stateVersion
      BY DEF Operation, TypeOK
<1>s. Shown \in Nat /\ Period \in Nat \ {0}
      BY ShownInNat
<1>1. ASSUME NEW it \in BOOLEAN, Start(it) PROVE SeesJumps
      <2>1. /\ m_counter' = Shown /\ elapsed' = 0 /\ m_running' /\ ticking' /\ Operation
            /\ Period' = Period
            BY <1>1 DEF Start, Capture, Period
      <2>2. Shown' = (Shown + 0) % Period
            BY <2>1 DEF Shown, CounterAt
      <2>3. Shown' = Shown % Period
            BY <1>s, <2>2
      <2>4. Shown' % Period' = Shown % Period
            BY <1>s, <2>1, <2>3, ModOfMod
      <2> QED
          BY <1>v, <2>1, <2>4 DEF SeesJumps
<1>2. CASE Stop
      <2>1. Operation /\ Shown' = Shown /\ Period' = Period
            BY <1>2 DEF Stop, Shown, Period
      <2> QED
          BY <1>v, <2>1 DEF SeesJumps
<1>3. CASE SetPrescaler
      BY <1>3, <1>v DEF SetPrescaler, SeesJumps
<1>4. ASSUME NEW value, SetCounter(value) \/ SetAutoReload(value) \/ SetPeriod(value)
      PROVE  SeesJumps
      BY <1>4, <1>v DEF SetCounter, SetAutoReload, SetPeriod, SeesJumps
<1>5. CASE Tick
      <2>1. /\ UNCHANGED <<m_autoReload, m_counter, m_running, ticking>>
            /\ elapsed' = (elapsed + 1) % Period
            BY <1>5 DEF Tick
      <2>2. CASE m_running /\ ticking
            <3>1. /\ Shown = (m_counter + elapsed) % Period
                  /\ Shown' = (m_counter + ((elapsed + 1) % Period)) % Period
                  BY <2>1, <2>2 DEF Shown, CounterAt, Period
            <3>2. m_counter \in Nat /\ elapsed \in Nat
                  BY DEF TypeOK
            <3>3. Shown' = (Shown + 1) % Period
                  BY <1>s, <3>1, <3>2, TickAdds
            <3> QED
                BY <2>1, <3>3 DEF SeesJumps
      <2>3. CASE ~(m_running /\ ticking)
            <3>1. Shown' = Shown
                  BY <2>1, <2>3 DEF Shown, CounterAt
            <3> QED
                BY <2>1, <3>1 DEF SeesJumps
      <2> QED
          BY <2>2, <2>3
<1>6. CASE \/ Destroy \/ DestroyReturns \/ WorkerChecks \/ WorkerWakesSpuriously
           \/ WorkerTimesOut \/ CallbackStarts \/ CallbackReturns \/ UNCHANGED vars
      <2>1. UNCHANGED <<m_autoReload, m_counter, m_running, ticking, elapsed>>
            BY <1>6 DEF Destroy, DestroyReturns, WorkerChecks, WorkerWakesSpuriously,
                        WorkerTimesOut, CallbackStarts, CallbackReturns, vars, configVars,
                        counterVars
      <2>2. Shown' = Shown
            BY <2>1 DEF Shown, CounterAt, Period
      <2> QED
          BY <2>1, <2>2 DEF SeesJumps
<1> QED
    BY <1>1, <1>2, <1>3, <1>4, <1>5, <1>6 DEF Next

\* Whoever reads the counter twice and finds the same state version has seen it
\* advance tick by tick, and starting and stopping do not make it jump
\* (getCounter, captureCounter and the increments of m_stateVersion).
THEOREM VersionSeesJumpsHolds == Spec => VersionSeesJumps
<1>1. TypeOK /\ [Next]_vars => [SeesJumps]_vars
      BY JumpStep
<1>2. TypeOK /\ [Next]_vars => TypeOK'
      BY TypeStep
<1> QED
    BY <1>1, <1>2, InitTypeOK, PTL DEF Spec, VersionSeesJumps, SeesJumps

=============================================================================
