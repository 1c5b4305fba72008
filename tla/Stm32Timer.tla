----------------------------- MODULE Stm32Timer -----------------------------
(***************************************************************************)
(* The timer driver of the board: stm32/Timer.cpp. One thread configures   *)
(* the timer; between its accesses to the registers the counter may        *)
(* overflow, the update interrupt may come, and another thread may read    *)
(* the counter as the C++ runtime's high-resolution clock does.            *)
(*                                                                         *)
(* The update interrupt needs UIE in the timer and the enable bit in the   *)
(* NVIC. Every operation writes the two together, so "enabled" is both.    *)
(***************************************************************************)
EXTENDS Integers

CONSTANT MaxOps     \* bound: operations that begin

VARIABLES
    op,             \* the client's operation, its position, and the mask it found
    running, enabled, flag,     \* CEN, the interrupt masks, and the update flag UIF
    m_stateVersion,
    epoch,          \* ghost: the version that tells of the counter's last jump
    registered,     \* in s_registry
    callback,       \* "none", "set", or "torn" while a swap under InterruptGuard is under way
    awaited,        \* ghost: interrupts are "off", "on", or an update is "due" to be reported
    begun,          \* operations begun
    reader          \* read_high_resolution_counter and the last sample it accepted

vars == <<op, running, enabled, flag, m_stateVersion, epoch,
          registered, callback, awaited, begun, reader>>
interrupt == <<enabled, flag, awaited>>
counter == <<running, m_stateVersion, epoch>>
rest == <<registered, callback, begun, reader>>

Operations == {"start", "stop", "startIt", "setPrescaler", "setCounter", "forceUpdateEvent", "swap", "destroy"}
Idle == [does |-> "nothing", at |-> "idle", enabled |-> FALSE, pending |-> FALSE]
NoSample == [at |-> "idle", version |-> 0, epoch |-> 0, rate |-> 0, between |-> FALSE]

Init ==
    /\ op = Idle
    /\ running = FALSE /\ enabled = FALSE /\ flag \in BOOLEAN
    /\ m_stateVersion = 0 /\ epoch = 0
    /\ registered = TRUE /\ callback = "none"
    /\ awaited = "off" /\ begun = 0 /\ reader = NoSample

At(does, where) == op.does = does /\ op.at = where
Goes(where) == op' = [op EXCEPT !.at = where]
Return == op' = Idle
markStateChange == m_stateVersion' = m_stateVersion + 1
JumpsBeforeMark == epoch' = m_stateVersion + 1
JumpsAfterMark == epoch' = m_stateVersion

Begin(does) ==
    /\ op = Idle /\ registered /\ begun < MaxOps
    /\ op' = [Idle EXCEPT !.does = does, !.at = "entered", !.enabled = enabled]
    /\ begun' = begun + 1
    /\ UNCHANGED <<interrupt, counter, registered, callback, reader>>
Mask(does) ==
    /\ op.does = does
    /\ enabled' = FALSE
    /\ UNCHANGED <<flag, awaited, rest>>
Unmask(to) == enabled' = to /\ UNCHANGED <<flag, awaited, rest>>

\* start: a counter without interrupts, also when it runs with them.
StartRuns == /\ At("start", "entered")
             /\ \/ running' = TRUE /\ Goes("masks")
                \/ ~running /\ Return /\ UNCHANGED running
             /\ UNCHANGED <<interrupt, m_stateVersion, epoch, rest>>
StartMasks == /\ At("start", "masks")
              /\ enabled' = FALSE /\ awaited' = "off"
              /\ markStateChange /\ Return
              /\ UNCHANGED <<flag, running, epoch, rest>>

\* stop and stopIt: a failed HAL_TIM_Base_Stop puts the masks back.
StopMasks == At("stop", "entered") /\ Mask("stop") /\ Goes("stops") /\ UNCHANGED counter
StopHalts == /\ At("stop", "stops")
             /\ \/ /\ running' = FALSE /\ JumpsBeforeMark /\ awaited' = "off"
                   /\ Goes("marks")
                   /\ UNCHANGED <<enabled, flag, m_stateVersion, rest>>
                \/ Unmask(op.enabled) /\ Return /\ UNCHANGED counter
StopMarks == At("stop", "marks") /\ markStateChange /\ Return
             /\ UNCHANGED <<interrupt, running, epoch, rest>>

\* startIt: an update from before is forgotten, one from now on awaits its callback.
Forget_NotCleared == UNCHANGED flag
Forget == flag' = FALSE
StartItMasks ==
    /\ At("startIt", "entered")
    /\ IF running /\ enabled THEN Goes("marks") /\ UNCHANGED interrupt
       ELSE enabled' = FALSE /\ Forget /\ awaited' = "on" /\ Goes("runs")
    /\ UNCHANGED <<counter, rest>>
StartItRuns ==
    /\ At("startIt", "runs")
    /\ \/ running' = TRUE /\ Goes("marks") /\ UNCHANGED <<enabled, awaited>>
       \/ ~running /\ enabled' = op.enabled /\ awaited' = "off" /\ Return /\ UNCHANGED running
    /\ UNCHANGED <<flag, m_stateVersion, epoch, rest>>
StartItEnables ==
    /\ At("startIt", "marks")
    /\ markStateChange /\ Unmask(TRUE) /\ Return
    /\ UNCHANGED <<running, epoch>>

\* setPrescaler: PSC is loaded, UG makes it the rate, zeroes the counter and sets the
\* flag, the counter goes back to where it was masked, the flag is cleared unless an
\* update was pending, and only then the version tells of it.
PrescalerMasks ==
    /\ At("setPrescaler", "entered") /\ Mask("setPrescaler") /\ UNCHANGED counter
    /\ op' = [op EXCEPT !.at = "loads", !.pending = flag]
PrescalerLoads == At("setPrescaler", "loads") /\ Goes("latches") /\ UNCHANGED <<interrupt, counter, rest>>
PrescalerLatches ==
    /\ At("setPrescaler", "latches")
    /\ flag' = TRUE /\ JumpsBeforeMark
    /\ Goes("restores")
    /\ UNCHANGED <<enabled, awaited, running, m_stateVersion, rest>>
PrescalerRestores ==
    /\ At("setPrescaler", "restores")
    /\ flag' = op.pending /\ JumpsBeforeMark
    /\ Goes("marks")
    /\ UNCHANGED <<enabled, awaited, running, m_stateVersion, rest>>
PrescalerEnables == /\ At("setPrescaler", "marks")
                    /\ markStateChange /\ Unmask(op.enabled) /\ Return
                    /\ UNCHANGED <<running, epoch>>

\* setCounter, reset, setAutoReload and forceUpdateEvent mark before they write.
Marks == /\ op.does \in {"setCounter", "forceUpdateEvent"} /\ op.at = "entered"
         /\ markStateChange /\ Goes("writes")
         /\ UNCHANGED <<interrupt, running, epoch, rest>>
Writes == /\ op.at = "writes"
          /\ JumpsAfterMark
          /\ IF op.does = "forceUpdateEvent"
             THEN flag' = TRUE /\ awaited' = IF awaited = "on" THEN "due" ELSE awaited
             ELSE UNCHANGED <<flag, awaited>>
          /\ Return
          /\ UNCHANGED <<enabled, running, m_stateVersion, rest>>

\* setPeriodElapsedCallback: several writes under an InterruptGuard.
SwapBegins == At("swap", "entered") /\ callback' = "torn" /\ Goes("guarded")
              /\ UNCHANGED <<interrupt, counter, registered, begun, reader>>
SwapEnds == At("swap", "guarded") /\ callback' \in {"none", "set"} /\ Return
            /\ UNCHANGED <<interrupt, counter, registered, begun, reader>>

\* The destructor, and a constructor that registers a new instance.
DestroyStops == At("destroy", "entered") /\ enabled' = FALSE /\ running' = FALSE /\ JumpsBeforeMark
                /\ awaited' = "off" /\ Goes("unregisters") /\ UNCHANGED <<flag, m_stateVersion, rest>>
DestroyEnds == At("destroy", "unregisters") /\ registered' = FALSE /\ Return
               /\ UNCHANGED <<interrupt, counter, callback, begun, reader>>
Construct == /\ op = Idle /\ ~registered /\ registered' = TRUE /\ callback' = "none"
             /\ epoch' = m_stateVersion    \* its versions go on from the last instance's
             /\ reader' = NoSample
             /\ UNCHANGED <<op, interrupt, running, m_stateVersion, begun>>

\* The hardware: an overflow, and the update interrupt with the period callback.
\* An update within setPrescaler may share its flag with UG.
Overflow ==
    /\ running /\ ~flag
    /\ flag' = TRUE
    /\ awaited' = IF awaited = "on" /\ op.at \notin {"loads", "latches"} THEN "due" ELSE awaited
    /\ UNCHANGED <<op, enabled, counter, rest>>
Interrupts == enabled /\ flag /\ ~At("swap", "guarded")
dispatchPeriodElapsed ==
    /\ Interrupts
    /\ flag' = FALSE /\ awaited' = "on"
    /\ UNCHANGED <<op, enabled, counter, rest>>

\* The counter or its rate has changed and the version has not, or the reverse.
Between == \/ op.does = "setPrescaler" /\ op.at \in {"latches", "restores", "marks"}
           \/ op.at = "writes"
\* read_high_resolution_counter: version, counter, rate, and the version again.
Sees(to, sample) == /\ reader' = [sample EXCEPT !.at = to, !.between = @ \/ Between]
                    /\ UNCHANGED <<op, interrupt, counter, registered, callback, begun>>
ReadVersion == /\ reader.at \in {"idle", "accepted"} /\ running
               /\ reader' = [NoSample EXCEPT !.at = "counter", !.version = m_stateVersion]
               /\ UNCHANGED <<op, interrupt, counter, registered, callback, begun>>
ReadCounter == reader.at = "counter" /\ Sees("rate", [reader EXCEPT !.epoch = epoch])
ReadRate == /\ reader.at = "rate"
            /\ Sees("verify", [reader EXCEPT !.rate = IF At("setPrescaler", "latches")
                                                      THEN m_stateVersion + 1 ELSE epoch])
Unchanged_NotVerified(version) == TRUE
Unchanged(version) == version = m_stateVersion
VerifyVersion ==
    /\ reader.at = "verify"
    /\ reader' = [reader EXCEPT !.at = IF running /\ Unchanged(reader.version) THEN "accepted" ELSE "idle"]
    /\ UNCHANGED <<op, interrupt, counter, registered, callback, begun>>

Next ==
    \/ \E does \in Operations : Begin(does)
    \/ StartRuns \/ StartMasks \/ StopMasks \/ StopHalts \/ StopMarks
    \/ StartItMasks \/ StartItRuns \/ StartItEnables
    \/ PrescalerMasks \/ PrescalerLoads \/ PrescalerLatches \/ PrescalerRestores \/ PrescalerEnables
    \/ Marks \/ Writes \/ SwapBegins \/ SwapEnds \/ DestroyStops \/ DestroyEnds \/ Construct
    \/ Overflow \/ dispatchPeriodElapsed
    \/ ReadVersion \/ ReadCounter \/ ReadRate \/ VerifyVersion

-----------------------------------------------------------------------------
(* An interrupt that may come now has an update to report that happened     *)
(* since interrupts were turned on, a registered timer and a whole callback; *)
(* and an update that is due keeps its flag until it is reported.            *)
UpdatesReportedOnce ==
    /\ Interrupts => awaited = "due" /\ registered /\ callback # "torn"
    /\ awaited = "due" => flag
    /\ awaited # "off" /\ op = Idle => enabled /\ running
(* What the clock relies on when it subtracts two samples of one version: a *)
(* sample it accepted has the rate of its counter, and as long as the       *)
(* version is the sample's the counter counts on from there. The code gives *)
(* it only outside Between: setPrescaler tells of its change after it, and  *)
(* setCounter before it, without keeping readers out.                      *)
SamplesShowJumps ==
    reader.at = "accepted" /\ ~reader.between =>
        /\ reader.rate = reader.epoch
        /\ running /\ ~Between /\ reader.version = m_stateVersion => reader.epoch = epoch
=============================================================================
