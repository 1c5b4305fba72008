-------------------------------- MODULE Clocks ------------------------------
(***************************************************************************)
(* The steady and the system clock of the C++ runtime: backend.cpp. Both   *)
(* extend ThreadX's 32-bit tick counter; the system clock refines it with  *)
(* a free-running timer that wraps much sooner, as long as nobody touches  *)
(* that timer, and never lets its readers see time go back.                *)
(*                                                                         *)
(* Time is counted in counts of the timer. A sample of the timer is one    *)
(* step here; module Stm32Timer has its three reads.                       *)
(***************************************************************************)
EXTENDS Integers

CONSTANTS
    Readers,
    Counts,         \* counts of the timer per tick
    Wrap,           \* values of the tick counter, 2^32
    Modulus,        \* values of the timer's counter
    Late,           \* bound: ticks the rollover timer may be served late
    MaxDelay,       \* bound: counts that pass during a reader's call
    MaxTime, MaxJumps   \* bounds: time, and operations of others on the timer

VARIABLES
    now, start,     \* true time, and that of the runtime's initialization
    tick_epoch, last_tick,
    rollover,       \* the tick at which rollover_timer expires
    offset, version, running, jumps,    \* of the timer
    high_resolution_counter_available,
    last_system_time,
    readers         \* per reader: where it is, what it read, and what it must not go behind

vars == <<now, start, tick_epoch, last_tick, rollover, offset, version, running, jumps,
          high_resolution_counter_available, last_system_time, readers>>
ticker == <<tick_epoch, last_tick>>
timer == <<offset, version, running, jumps>>

ROLLOVER_SAMPLE_TICKS == Wrap \div 2 - 1
TrueTick == now \div Counts
Idle == [at |-> "idle", since |-> 0, least |-> 0, ticks |-> 0, time |-> 0, previous |-> 0]

\* initialize: epochs of the ticks and of the timer, which has just been started.
Init ==
    /\ start \in 0 .. Counts - 1 /\ now = start
    /\ tick_epoch = 0 /\ last_tick = TrueTick
    /\ rollover = TrueTick + ROLLOVER_SAMPLE_TICKS
    /\ offset \in {0, Modulus - 1} /\ version = 0 /\ running = TRUE /\ jumps = 0
    /\ high_resolution_counter_available = TRUE
    /\ last_system_time = 0
    /\ readers = [r \in Readers |-> Idle]

Counter(time) == (time + offset) % Modulus
Goes(r, fields) == readers' = [readers EXCEPT ![r] = fields]

\* extend_tick_counter, called with interrupts disabled.
RollsOver(current) == current < last_tick
Epoch == LET current == TrueTick % Wrap
         IN  IF RollsOver(current) THEN tick_epoch + Wrap ELSE tick_epoch
Extends == tick_epoch' = Epoch /\ last_tick' = TrueTick % Wrap
steady_ticks == Epoch + (TrueTick % Wrap)

rollover_timer_entry ==
    /\ TrueTick >= rollover
    /\ Extends
    /\ rollover' = rollover + ROLLOVER_SAMPLE_TICKS
    /\ UNCHANGED <<now, start, timer, high_resolution_counter_available, last_system_time, readers>>

\* system_time_nanoseconds reads the ticks,
ReadTicks(r) ==
    /\ readers[r].at = "idle"
    /\ Extends
    /\ Goes(r, [Idle EXCEPT !.at = "timer", !.since = now, !.least = last_system_time, !.ticks = steady_ticks])
    /\ UNCHANGED <<now, start, rollover, timer, high_resolution_counter_available, last_system_time>>

\* then the timer: how often it has wrapped follows from the ticks.
Coarse(r) == (readers[r].ticks - start \div Counts) * Counts
Elapsed(r) == (Counter(now) - Counter(start)) % Modulus
Wraps(r) ==
    IF Coarse(r) >= Elapsed(r)
    THEN LET difference == Coarse(r) - Elapsed(r)
             remainder == difference % Modulus
         IN  difference \div Modulus + IF remainder >= Modulus - remainder THEN 1 ELSE 0
    ELSE 0
Corroborated(r) == Elapsed(r) - Coarse(r) <= Modulus \div 2
high_resolution_elapsed_nanoseconds(r) ==
    IF running /\ version = 0 /\ Corroborated(r) THEN Elapsed(r) + Wraps(r) * Modulus ELSE Coarse(r)
ReadTimer(r) ==
    /\ readers[r].at = "timer"
    /\ Goes(r, [readers[r] EXCEPT !.at = "compares", !.ticks = 0, !.previous = last_system_time,
                    !.time = IF high_resolution_counter_available
                             THEN high_resolution_elapsed_nanoseconds(r) ELSE Coarse(r)])
    /\ high_resolution_counter_available' = (high_resolution_counter_available /\ running /\ version = 0)
    /\ UNCHANGED <<now, start, ticker, rollover, timer, last_system_time>>

\* publish_system_time: a compare-and-swap that keeps the maximum.
Result(r) == IF readers[r].time <= readers[r].previous THEN readers[r].previous ELSE readers[r].time
Stale_Ignored(r) == FALSE
Stale(r) == last_system_time # readers[r].previous
Publish(r) ==
    /\ readers[r].at = "compares"
    /\ \/ /\ readers[r].time <= readers[r].previous
          /\ Goes(r, Idle)
          /\ UNCHANGED last_system_time
       \/ /\ readers[r].time > readers[r].previous /\ ~Stale(r)
          /\ last_system_time' = readers[r].time
          /\ Goes(r, Idle)
       \/ /\ readers[r].time > readers[r].previous /\ Stale(r)
          /\ Goes(r, [readers[r] EXCEPT !.previous = last_system_time])
          /\ UNCHANGED last_system_time
    /\ UNCHANGED <<now, start, ticker, rollover, timer, high_resolution_counter_available>>

\* Others stop the timer or set its counter, and its state version tells.
Jump ==
    /\ jumps < MaxJumps /\ jumps' = jumps + 1
    /\ version' = version + 1
    /\ running' \in BOOLEAN /\ offset' \in {0, Modulus - 1}
    /\ UNCHANGED <<now, start, ticker, rollover, high_resolution_counter_available, last_system_time, readers>>

Pass ==
    /\ now < MaxTime
    /\ (now + 1) \div Counts <= rollover + Late
    /\ \A r \in Readers : readers[r].at # "idle" => now < readers[r].since + MaxDelay
    /\ now' = now + 1
    /\ UNCHANGED <<start, ticker, rollover, timer, high_resolution_counter_available, last_system_time, readers>>

Next ==
    \/ \E r \in Readers : ReadTicks(r) \/ ReadTimer(r) \/ Publish(r)
    \/ rollover_timer_entry \/ Jump \/ Pass

-----------------------------------------------------------------------------
(* The steady clock counts every tick although the counter wraps, also when *)
(* nobody asks for a whole revolution. The system clock is never a tick or   *)
(* more off the true time of the call, whether or not the timer can be used, *)
(* and no call returns less than a call that ended before it began.          *)
ClocksAreRight ==
    /\ [][steady_ticks = TrueTick]_vars
    /\ [][\A r \in Readers : readers[r].at # "idle" /\ readers'[r].at = "idle" =>
            /\ Result(r) >= readers[r].least
            /\ Result(r) > readers[r].since - start - Counts
            /\ Result(r) < now - start + Counts]_vars
=============================================================================
