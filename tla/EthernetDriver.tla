--------------------------- MODULE EthernetDriver ---------------------------
(***************************************************************************)
(* The Ethernet driver of the board: stm32/Ethernet.cpp, used by several   *)
(* threads, beside the DMA engine that owns the transmit frame and the     *)
(* receive slots while it works on them.                                   *)
(*                                                                         *)
(* One step is what a thread does between two waits for a mutex or for the *)
(* hardware; the DMA engine takes its steps in between.                    *)
(***************************************************************************)
EXTENDS Integers, Sequences, FiniteSets

CONSTANTS
    Threads,
    Slots,      \* rx_slots
    RingSize,   \* receive descriptors; the driver keeps twice as many slots
    MaxErrors   \* bound: HAL calls that fail, fatal bus errors, failed frames

VARIABLES
    calls,      \* what each thread is in: the call, where it is, the mutexes it still needs
    owner,      \* of each mutex
    running,    \* m_running
    device,     \* the HAL handle: ready, or error after a failed HAL_ETH_Init
    tx,         \* the transmit frame and its descriptor
    allocated,  \* the slots marked as allocated
    ring,       \* slots the receive descriptors point to
    filled,     \* of those, the ones that hold a frame
    packet,     \* the slot of the frame a receive call is reading
    errors

vars == <<calls, owner, running, device, tx, allocated, ring, filled, packet, errors>>

Nobody == "nobody"
Mutexes == {"transmit", "receive", "state", "phy"}
Idle == [op |-> "none", at |-> "idle", needs |-> <<>>]
\* A transmit descriptor without a packet; frame says whose data tx_frame holds.
NoPacket == [own |-> FALSE, fatal |-> FALSE, pending |-> FALSE, frame |-> Nobody]

MutexOrder_Swapped(op) == CASE op \in {"start", "stop"} -> <<"transmit", "state", "receive">>
                    [] op = "transmit" -> <<"transmit">>
                    [] op = "receive" -> <<"receive">>
                    [] op = "link" -> <<"phy">>
MutexOrder(op) == CASE op \in {"start", "stop"} -> <<"transmit", "receive", "state">>
                    [] op = "transmit" -> <<"transmit">>
                    [] op = "receive" -> <<"receive">>
                    [] op = "link" -> <<"phy">>

Init ==
    /\ calls = [t \in Threads |-> Idle]
    /\ owner = [m \in Mutexes |-> Nobody]
    /\ running = FALSE /\ device = "ready"
    /\ tx = NoPacket
    /\ allocated = {} /\ ring = {} /\ filled = {} /\ packet = {}
    /\ errors = 0

At(t, op, where) == calls[t].op = op /\ calls[t].at = where /\ calls[t].needs = <<>>
Goes(t, where, needs) == calls' = [calls EXCEPT ![t].at = where, ![t].needs = needs]
Free(t, mutexes) == [m \in Mutexes |-> IF owner[m] = t /\ m \in mutexes THEN Nobody ELSE owner[m]]
Returns(t) == calls' = [calls EXCEPT ![t] = Idle] /\ owner' = Free(t, Mutexes)
Fails == errors < MaxErrors /\ errors' = errors + 1
hardware == <<device, tx, allocated, ring, filled>>

Call(t, op) ==
    /\ calls[t] = Idle
    /\ calls' = [calls EXCEPT ![t] = [op |-> op, at |-> "entered", needs |-> MutexOrder(op)]]
    /\ UNCHANGED <<owner, running, hardware, packet, errors>>

Acquire(t) ==
    /\ calls[t].needs # <<>>
    /\ owner[Head(calls[t].needs)] = Nobody
    /\ owner' = [owner EXCEPT ![Head(calls[t].needs)] = t]
    /\ calls' = [calls EXCEPT ![t].needs = Tail(@)]
    /\ UNCHANGED <<running, hardware, packet, errors>>

\* getLinkInfo, also inside start: the PHY's registers are read under the PHY mutex.
LinkInfo(t) ==
    /\ At(t, "link", "entered")
    /\ Returns(t)
    /\ UNCHANGED <<running, hardware, packet, errors>>

\* start and stop return at once when there is nothing to do.
StateKnown(t) ==
    /\ \E op \in {"start", "stop"} : At(t, op, "entered") /\
         IF running = (op = "start") THEN Returns(t) ELSE Goes(t, "works", <<"phy">>) /\ UNCHANGED owner
    /\ UNCHANGED <<running, hardware, packet, errors>>

\* start: HAL_ETH_Start gives every descriptor a slot through HAL_ETH_RxAllocateCallback.
Start(t) ==
    /\ At(t, "start", "works")
    /\ Returns(t)
    /\ \/ /\ device = "ready"
          /\ running' = TRUE
          /\ \E given \in SUBSET (Slots \ allocated) :
                /\ Cardinality(given) = RingSize - Cardinality(ring)
                /\ ring' = ring \cup given
                /\ allocated' = allocated \cup given
          /\ UNCHANGED errors
       \/ device # "ready" /\ UNCHANGED <<running, allocated, ring, errors>>
       \/ Fails /\ UNCHANGED <<running, allocated, ring>>
    /\ UNCHANGED <<device, tx, filled, packet>>

\* stop: after HAL_ETH_Stop the MAC, the DMA and both rings are reset; a failed
\* HAL_ETH_Init leaves the packet and the slots as they were and the device in error.
Reset == /\ tx' = [NoPacket EXCEPT !.frame = tx.frame]
         /\ allocated' = {} /\ ring' = {} /\ filled' = {}

Stop(t) ==
    /\ At(t, "stop", "works")
    /\ Returns(t)
    /\ \/ running' = FALSE /\ Reset /\ UNCHANGED <<device, errors>>
       \/ running' = FALSE /\ Reset /\ UNCHANGED device /\ Fails
       \/ /\ running' = FALSE /\ device' = "error" /\ Fails
          /\ ring' = {} /\ filled' = {}
          /\ UNCHANGED <<tx, allocated>>
       \/ Fails /\ UNCHANGED <<running, hardware>>
    /\ UNCHANGED packet

\* isRunning in transmit and receive.
AsksState(t) ==
    /\ \E op \in {"transmit", "receive"} : At(t, op, "entered")
    /\ Goes(t, "asked", <<"state">>)
    /\ UNCHANGED <<owner, running, hardware, packet, errors>>
ReadsState(t) ==
    /\ \E op \in {"transmit", "receive"} : At(t, op, "asked")
    /\ IF running THEN Goes(t, "works", <<>>) /\ owner' = Free(t, {"state"}) ELSE Returns(t)
    /\ UNCHANGED <<running, hardware, packet, errors>>

\* waitForTransmit, before the frame is copied ("works") and after it is queued ("queued").
TimesOut_Forgets(t) == tx' = [tx EXCEPT !.pending = FALSE]
TimesOut(t) == tx' = tx

WaitForTransmit(t, where) ==
    /\ At(t, "transmit", where)
    /\ tx.pending
    /\ \/ tx.own /\ tx.fatal /\ Returns(t) /\ UNCHANGED <<tx, errors>>
       \/ tx.own /\ TimesOut(t) /\ Returns(t) /\ UNCHANGED errors
       \/ /\ ~tx.own /\ tx' = [tx EXCEPT !.pending = FALSE] /\ UNCHANGED errors
          /\ IF where = "works" THEN UNCHANGED <<calls, owner>> ELSE Returns(t)
       \/ ~tx.own /\ tx' = [tx EXCEPT !.pending = FALSE] /\ Fails /\ Returns(t)
    /\ UNCHANGED <<running, device, allocated, ring, filled, packet>>

\* The copy into tx_frame and HAL_ETH_Transmit_IT.
Enqueue(t) ==
    /\ At(t, "transmit", "works")
    /\ ~tx.pending
    /\ \/ /\ tx' = [tx EXCEPT !.own = TRUE, !.pending = TRUE, !.frame = t]
          /\ Goes(t, "queued", <<>>)
          /\ UNCHANGED <<owner, errors>>
       \/ tx' = [tx EXCEPT !.frame = t] /\ Fails /\ Returns(t)
    /\ UNCHANGED <<running, device, allocated, ring, filled, packet>>

\* HAL_ETH_ReadData takes a frame and gives its descriptor another slot.
ReadData(t) ==
    /\ At(t, "receive", "works")
    /\ \E s \in filled :
        /\ packet' = {s}
        /\ filled' = filled \ {s}
        /\ \E given \in SUBSET (Slots \ allocated) :
             /\ Cardinality(given) = IF Slots \ allocated = {} THEN 0 ELSE 1
             /\ ring' = (ring \ {s}) \cup given
             /\ allocated' = allocated \cup given
    /\ Goes(t, "reads", <<>>)
    /\ UNCHANGED <<owner, running, device, tx, errors>>

\* The frame is copied out, refused as too large, or filtered; a filtered one
\* ends the call when the deadline has passed.
Released == allocated \ packet

FrameDone(t) ==
    /\ At(t, "receive", "reads")
    /\ allocated' = Released
    /\ packet' = {}
    /\ Returns(t) \/ (Goes(t, "works", <<>>) /\ UNCHANGED owner)
    /\ UNCHANGED <<running, device, tx, ring, filled, errors>>

NoFrame(t) ==
    /\ At(t, "receive", "works")
    /\ filled = {}
    /\ Returns(t)
    /\ UNCHANGED <<running, hardware, packet, errors>>

\* The DMA engine.
DmaSends ==
    /\ running /\ tx.own /\ ~tx.fatal
    /\ \/ tx' = [tx EXCEPT !.own = FALSE] /\ UNCHANGED errors
       \/ tx' = [tx EXCEPT !.fatal = TRUE] /\ Fails
    /\ UNCHANGED <<calls, owner, running, device, allocated, ring, filled, packet>>
DmaReceives ==
    /\ running
    /\ \E s \in ring \ filled : filled' = filled \cup {s}
    /\ UNCHANGED <<calls, owner, running, device, tx, allocated, ring, packet, errors>>

Next ==
    \/ \E t \in Threads :
        \/ \E op \in {"start", "stop", "transmit", "receive", "link"} : Call(t, op)
        \/ Acquire(t) \/ LinkInfo(t) \/ StateKnown(t) \/ Start(t) \/ Stop(t)
        \/ AsksState(t) \/ ReadsState(t) \/ Enqueue(t) \/ ReadData(t) \/ FrameDone(t) \/ NoFrame(t)
        \/ \E where \in {"works", "queued"} : WaitForTransmit(t, where)
    \/ DmaSends \/ DmaReceives

-----------------------------------------------------------------------------
(* The frame buffer does not change while the DMA owns its descriptor, even *)
(* when the call that queued it has timed out and others transmit.          *)
FrameUntouched == [][tx.own /\ tx'.own => tx'.frame = tx.frame]_vars

(* No slot is lost, and none is with the DMA and a reader at once: the marks *)
(* are exactly the ring and the frame being read, a running receiver always *)
(* has a full ring, and a stopped device that still works owns none.        *)
SlotsConserved ==
    /\ packet \cap ring = {} /\ filled \subseteq ring
    /\ device = "ready" => allocated = ring \cup packet
    /\ running => Cardinality(ring) = RingSize
    /\ ~running /\ device = "ready" => ring = {}

(* No circle of threads waits for each other's mutexes: stop takes all four, *)
(* transmit and receive ask for the state while they hold their own.        *)
NoCircularWait ==
    \A group \in (SUBSET Threads) \ {{}} :
        ~\A t \in group : calls[t].needs # <<>> /\ owner[Head(calls[t].needs)] \in group
=============================================================================
