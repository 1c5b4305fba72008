-------------------------- MODULE DriversMC ---------------------------------
(*****************************************************************************)
(* The drivers, each on a small instance. They share nothing, so a behaviour *)
(* runs one of them, its subject, and the state spaces add instead of        *)
(* multiplying.                                                              *)
(*****************************************************************************)
EXTENDS Integers, Sequences, FiniteSets

CONSTANTS
    Threads, Slots, RingSize, MaxErrors, Numbers, Pins, Callbacks, MaxEdges, MaxOps,
    Capacity, MaxChunks, InputSize, MaxInput, InputFailures

VARIABLES
    subject,    \* the component whose steps this behaviour takes
    eth_calls, eth_owner, eth_running, eth_device, eth_tx, eth_allocated, eth_ring,
    eth_filled, eth_packet, eth_errors,
    sock_calls, sock_owner, sock_m_socket, sock_user,
    gpio_jobs, gpio_factory, gpio_claimed, gpio_edge, gpio_registry, gpio_detecting,
    gpio_flags, gpio_enabled, gpio_callback, gpio_masked,
    pin_jobs, pin_holders, pin_edge, pin_m_level, pin_m_edgeCallback, pin_alive, pin_seen,
    pin_latch, pin_toggled,
    tim_op, tim_running, tim_enabled, tim_flag, tim_m_stateVersion, tim_epoch,
    tim_registered, tim_callback, tim_awaited, tim_begun, tim_reader,
    in_at, in_ready, in_failures, in_reader, in_writer, in_buffer, in_console_input_read,
    in_console_input_write, in_available, in_discard_line_feed, in_accepted, in_returned,
    out_mode, out_queue, out_head, out_count, out_dropped, out_published, out_shown

eth_vars == <<eth_calls, eth_owner, eth_running, eth_device, eth_tx, eth_allocated,
              eth_ring, eth_filled, eth_packet, eth_errors>>
sock_vars == <<sock_calls, sock_owner, sock_m_socket, sock_user>>
gpio_vars == <<gpio_jobs, gpio_factory, gpio_claimed, gpio_edge, gpio_registry,
               gpio_detecting, gpio_flags, gpio_enabled, gpio_callback, gpio_masked>>
pin_vars == <<pin_jobs, pin_holders, pin_edge, pin_m_level, pin_m_edgeCallback, pin_alive,
              pin_seen, pin_latch, pin_toggled>>
tim_vars == <<tim_op, tim_running, tim_enabled, tim_flag, tim_m_stateVersion, tim_epoch,
              tim_registered, tim_callback, tim_awaited, tim_begun, tim_reader>>
in_vars == <<in_at, in_ready, in_failures, in_reader, in_writer, in_buffer,
             in_console_input_read, in_console_input_write, in_available,
             in_discard_line_feed, in_accepted, in_returned>>
out_vars == <<out_mode, out_queue, out_head, out_count, out_dropped, out_published,
              out_shown>>

ConstantsAssumption ==
    /\ "nobody" \notin Threads
    /\ RingSize \in Nat /\ IsFiniteSet(Slots) /\ Cardinality(Slots) = 2 * RingSize
    /\ \A p \in Pins : p.number \in 0 .. 15
    /\ Numbers \subseteq Nat \ {0}
    /\ "none" \notin Callbacks
    /\ {MaxEdges, MaxOps, MaxChunks} \subseteq Nat
    /\ Capacity \in Nat \ {0} /\ InputSize \in Nat \ {0}
ASSUME ConstantsAssumption

\* The pins of the run: two on one EXTI line, one on a line of their group, one alone.
FourPins == {[port |-> "A", number |-> 5], [port |-> "B", number |-> 5],
             [port |-> "A", number |-> 6], [port |-> "A", number |-> 0]}

Ethernet == INSTANCE EthernetDriver WITH
    calls <- eth_calls, owner <- eth_owner, running <- eth_running, device <- eth_device,
    tx <- eth_tx, allocated <- eth_allocated, ring <- eth_ring, filled <- eth_filled,
    packet <- eth_packet, errors <- eth_errors
Socket == INSTANCE LinuxEthernet WITH
    calls <- sock_calls, owner <- sock_owner, m_socket <- sock_m_socket, user <- sock_user
Gpio == INSTANCE GpioInterrupts WITH
    jobs <- gpio_jobs, factory <- gpio_factory, claimed <- gpio_claimed, edge <- gpio_edge,
    registry <- gpio_registry, detecting <- gpio_detecting, flags <- gpio_flags,
    enabled <- gpio_enabled, callback <- gpio_callback, masked <- gpio_masked
Pin == INSTANCE LinuxGpio WITH
    jobs <- pin_jobs, holders <- pin_holders, edge <- pin_edge, m_level <- pin_m_level,
    m_edgeCallback <- pin_m_edgeCallback, alive <- pin_alive, seen <- pin_seen,
    latch <- pin_latch, toggled <- pin_toggled
Timer == INSTANCE Stm32Timer WITH
    op <- tim_op, running <- tim_running, enabled <- tim_enabled, flag <- tim_flag,
    m_stateVersion <- tim_m_stateVersion, epoch <- tim_epoch, registered <- tim_registered,
    callback <- tim_callback, awaited <- tim_awaited, begun <- tim_begun,
    reader <- tim_reader
Input == INSTANCE ConsoleInput WITH
    Size <- InputSize, MaxFailures <- InputFailures, at <- in_at, ready <- in_ready,
    failures <- in_failures, reader <- in_reader, writer <- in_writer, buffer <- in_buffer,
    console_input_read <- in_console_input_read,
    console_input_write <- in_console_input_write, available <- in_available,
    discard_line_feed <- in_discard_line_feed, accepted <- in_accepted,
    returned <- in_returned
Output == INSTANCE ConsoleQueue WITH
    mode <- out_mode, queue <- out_queue, head <- out_head, count <- out_count,
    dropped <- out_dropped, published <- out_published, shown <- out_shown

Subjects == {"Ethernet", "Socket", "Gpio", "Pin", "Timer", "Input", "Output"}
Init == /\ subject \in Subjects
        /\ Ethernet!Init
        /\ Socket!Init
        /\ Gpio!Init
        /\ Pin!Init
        /\ Timer!Init
        /\ Input!Init
        /\ Output!Init
Next ==
    \/ /\ subject = "Ethernet" /\ Ethernet!Next
       /\ UNCHANGED <<subject, sock_vars, gpio_vars, pin_vars, tim_vars, in_vars, out_vars>>
    \/ /\ subject = "Socket" /\ Socket!Next
       /\ UNCHANGED <<subject, eth_vars, gpio_vars, pin_vars, tim_vars, in_vars, out_vars>>
    \/ /\ subject = "Gpio" /\ Gpio!Next
       /\ UNCHANGED <<subject, eth_vars, sock_vars, pin_vars, tim_vars, in_vars, out_vars>>
    \/ /\ subject = "Pin" /\ Pin!Next
       /\ UNCHANGED <<subject, eth_vars, sock_vars, gpio_vars, tim_vars, in_vars, out_vars>>
    \/ /\ subject = "Timer" /\ Timer!Next
       /\ UNCHANGED <<subject, eth_vars, sock_vars, gpio_vars, pin_vars, in_vars, out_vars>>
    \/ /\ subject = "Input" /\ Input!Next
       /\ UNCHANGED <<subject, eth_vars, sock_vars, gpio_vars, pin_vars, tim_vars, out_vars>>
    \/ /\ subject = "Output" /\ Output!Next
       /\ UNCHANGED <<subject, eth_vars, sock_vars, gpio_vars, pin_vars, tim_vars, in_vars>>
vars == <<subject, eth_vars, sock_vars, gpio_vars, pin_vars, tim_vars, in_vars, out_vars>>
Spec == Init /\ [][Next]_vars

-----------------------------------------------------------------------------
\* stm32/Ethernet.cpp: no receive slot is lost or shared, no threads wait in
\* a circle, and nobody copies over the frame that the DMA sends.
BuffersHaveOwners == [](Ethernet!SlotsConserved /\ Ethernet!NoCircularWait) /\ Ethernet!FrameUntouched
\* linux/Ethernet.cpp: system calls use a descriptor that is still the
\* driver's.
SocketIsOurs == Socket!SocketIsOurs
\* stm32/Gpio.cpp: interrupts find a live input, and creating or destroying
\* one loses no other's edge.
EdgesReachTheirInput == Gpio!EdgesReachTheirInput
\* linux/Gpio.cpp: a callback that runs exists, and no edge or toggle is
\* lost.
CallsLiveCallbacks == Pin!CallsLiveCallbacks
\* stm32/Timer.cpp: each update that is due is reported, no stale one is, and
\* never to a dead timer; two samples of one version that the clock accepts
\* count from one origin, unless taken inside an operation that changes it.
UpdatesAreSeen == Timer!UpdatesReportedOnce /\ Timer!SamplesShowJumps
\* stm32/hal.cpp: readers get what came, in order, and no wake-up is lost.
ReadersGetLines == Input!ReadersGetLines
\* linux/console.cpp: output is shown in order, or reported as dropped.
NothingVanishes == Output!NothingVanishes
=============================================================================
