---------------------------- MODULE DriversProofs ---------------------------
(***************************************************************************)
(* Proofs about the drivers: the invariants of the run Drivers for every   *)
(* set of threads, descriptor numbers and callbacks, every capacity of the *)
(* console's queues and any number of operations. A step of DriversMC is   *)
(* one of its subject or leaves a component alone, so each component has   *)
(* an inductive invariant of its own.                                      *)
(***************************************************************************)
EXTENDS DriversMC, FiniteSetTheorems, TLAPS

-----------------------------------------------------------------------------
(* stm32/Ethernet.cpp.                                                      *)

EthCall == [op : {"none", "start", "stop", "transmit", "receive", "link"},
            at : {"idle", "entered", "asked", "works", "queued", "reads"},
            needs : Seq(Ethernet!Mutexes)]
\* Where each call can be, and the mutexes it still needs there.
EthShape(call) ==
    /\ call.op = "none" => call.at = "idle" /\ call.needs = <<>>
    /\ call.op \in {"start", "stop"} =>
          \/ /\ call.at = "entered"
             /\ call.needs \in {<<"transmit", "receive", "state">>, <<"receive", "state">>,
                                <<"state">>, <<>>}
          \/ call.at = "works" /\ call.needs \in {<<"phy">>, <<>>}
    /\ call.op \in {"transmit", "receive"} =>
          \/ call.at = "entered" /\ call.needs \in {<<call.op>>, <<>>}
          \/ call.at = "asked" /\ call.needs \in {<<"state">>, <<>>}
          \/ call.at \in {"works", "queued", "reads"} /\ call.needs = <<>>
    /\ call.op = "link" => call.at = "entered" /\ call.needs \in {<<"phy">>, <<>>}
\* The mutexes a call has.
EthHolds(call, mutex) ==
    CASE mutex = "phy" ->
           /\ call.needs = <<>>
           /\ call.op = "link" \/ (call.op \in {"start", "stop"} /\ call.at = "works")
      [] mutex = "state" ->
           \/ call.op \in {"start", "stop"} /\ (call.at = "works" \/ call.needs = <<>>)
           \/ call.op \in {"transmit", "receive"} /\ call.at = "asked" /\ call.needs = <<>>
      [] mutex = "receive" ->
           \/ /\ call.op \in {"start", "stop"}
              /\ call.at = "works" \/ call.needs \in {<<"state">>, <<>>}
           \/ call.op = "receive" /\ (call.at # "entered" \/ call.needs = <<>>)
      [] mutex = "transmit" ->
           \/ /\ call.op \in {"start", "stop"}
              /\ call.at = "works" \/ call.needs \in {<<"receive", "state">>, <<"state">>, <<>>}
           \/ call.op = "transmit" /\ (call.at # "entered" \/ call.needs = <<>>)
\* Each mutex belongs to the one call that has it.
EthCalls ==
    /\ eth_calls \in [Threads -> EthCall]
    /\ eth_owner \in [Ethernet!Mutexes -> Threads \cup {"nobody"}]
    /\ \A t \in Threads : EthShape(eth_calls[t])
    /\ \A t \in Threads : \A m \in Ethernet!Mutexes :
          EthHolds(eth_calls[t], m) <=> eth_owner[m] = t
\* What start, stop and receive have learned about the state stays true while
\* they have their mutexes.
EthState ==
    /\ eth_running \in BOOLEAN /\ eth_device \in {"ready", "error"}
    /\ eth_running => eth_device = "ready"
    /\ \A t \in Threads : eth_calls[t].at \in {"works", "reads"} =>
          /\ eth_calls[t].op = "start" => ~eth_running
          /\ eth_calls[t].op \in {"stop", "receive"} => eth_running
EthTx ==
    /\ eth_tx \in [own : BOOLEAN, fatal : BOOLEAN, pending : BOOLEAN,
                   frame : Threads \cup {"nobody"}]
    /\ eth_tx.own => eth_tx.pending
EthSlots ==
    /\ eth_allocated \subseteq Slots /\ eth_ring \subseteq Slots
    /\ eth_filled \subseteq eth_ring /\ eth_packet \subseteq Slots
    /\ eth_packet \cap eth_ring = {}
    /\ eth_device = "ready" => eth_allocated = eth_ring \cup eth_packet
    /\ eth_running => Cardinality(eth_ring) = RingSize
    /\ ~eth_running => eth_ring = {}
    /\ eth_packet # {} =>
          \E t \in Threads : eth_calls[t].op = "receive" /\ eth_calls[t].at = "reads"
EthInv == EthCalls /\ EthState /\ EthTx /\ EthSlots

\* The driver's module has its own copy of FiniteSets.
LEMMA EthCardinality == \A S : Ethernet!Cardinality(S) = Cardinality(S)
  BY Zenon DEF Ethernet!Cardinality, Cardinality

\* The lists of mutexes, and what Acquire leaves of them.
LEMMA EthTails ==
    /\ <<"transmit", "receive", "state">> # <<>> /\ <<"receive", "state">> # <<>>
    /\ \A m : Head(<<m>>) = m /\ Tail(<<m>>) = <<>> /\ <<m>> # <<>>
    /\ \A m, n : <<m>> = <<n>> => m = n
    /\ Head(<<"transmit", "receive", "state">>) = "transmit"
    /\ Tail(<<"transmit", "receive", "state">>) = <<"receive", "state">>
    /\ Head(<<"receive", "state">>) = "receive" /\ Tail(<<"receive", "state">>) = <<"state">>
    /\ \A m : /\ <<"transmit", "receive", "state">> # <<m>>
              /\ <<"receive", "state">> # <<m>>
    /\ <<"transmit", "receive", "state">> # <<"receive", "state">>
    /\ <<"transmit", "receive", "state">> \in Seq(Ethernet!Mutexes)
    /\ <<"receive", "state">> \in Seq(Ethernet!Mutexes)
    /\ \A m \in Ethernet!Mutexes : <<m>> \in Seq(Ethernet!Mutexes)
    /\ <<>> \in Seq(Ethernet!Mutexes)
  BY DEF Ethernet!Mutexes

LEMMA EthInitial == Ethernet!Init => EthInv
  <1> SUFFICES ASSUME Ethernet!Init PROVE EthInv
    OBVIOUS
  <1> USE DEF Ethernet!Init, Ethernet!Idle, Ethernet!Nobody
  <1>1. EthCalls
    <2>1. \A t \in Threads : EthShape(eth_calls[t])
      BY DEF EthShape
    <2>2. \A t \in Threads, m \in Ethernet!Mutexes : ~EthHolds(eth_calls[t], m) /\ eth_owner[m] # t
      BY ConstantsAssumption DEF ConstantsAssumption, EthHolds, Ethernet!Mutexes
    <2>3. /\ eth_calls \in [Threads -> EthCall]
          /\ eth_owner \in [Ethernet!Mutexes -> Threads \cup {"nobody"}]
      BY DEF EthCall
    <2> QED BY <2>1, <2>2, <2>3 DEF EthCalls
  <1>2. EthState
    BY DEF EthState
  <1>3. EthTx
    BY DEF EthTx, Ethernet!NoPacket
  <1>4. EthSlots
    BY DEF EthSlots
  <1> QED BY <1>1, <1>2, <1>3, <1>4 DEF EthInv

\* A step of one thread that keeps its mutexes in order keeps all of them so.
LEMMA EthThread ==
    ASSUME EthCalls, NEW t \in Threads, NEW c \in EthCall,
           eth_calls' = [eth_calls EXCEPT ![t] = c], EthShape(c),
           eth_owner' \in [Ethernet!Mutexes -> Threads \cup {"nobody"}],
           \A m \in Ethernet!Mutexes : \A u \in Threads \ {t} : eth_owner'[m] = u <=> eth_owner[m] = u,
           \A m \in Ethernet!Mutexes : EthHolds(c, m) <=> eth_owner'[m] = t
    PROVE  /\ EthCalls'
           /\ eth_calls'[t] = c
           /\ \A u \in Threads : u # t => eth_calls'[u] = eth_calls[u]
  <1>1. /\ eth_calls' \in [Threads -> EthCall]
        /\ eth_calls'[t] = c
        /\ \A u \in Threads : u # t => eth_calls'[u] = eth_calls[u]
    BY DEF EthCalls
  <1>2. \A u \in Threads : EthShape(eth_calls'[u])
    BY <1>1 DEF EthCalls
  <1>3. ASSUME NEW u \in Threads, NEW m \in Ethernet!Mutexes
        PROVE  EthHolds(eth_calls'[u], m) <=> eth_owner'[m] = u
    <2>1. CASE u = t
      BY <2>1, <1>1
    <2>2. CASE u # t
      BY <2>2, <1>1 DEF EthCalls
    <2> QED BY <2>1, <2>2
  <1> QED BY <1>1, <1>2, <1>3 DEF EthCalls

LEMMA EthReturns ==
    ASSUME EthCalls, NEW t \in Threads, Ethernet!Returns(t)
    PROVE  /\ EthCalls'
           /\ eth_calls'[t] = Ethernet!Idle
           /\ \A u \in Threads : u # t => eth_calls'[u] = eth_calls[u]
  <1> USE ConstantsAssumption DEF ConstantsAssumption, Ethernet!Idle, Ethernet!Nobody
  <1>1. Ethernet!Idle \in EthCall /\ EthShape(Ethernet!Idle)
    BY DEF EthCall, EthShape
  <1>2. \A m \in Ethernet!Mutexes : ~EthHolds(Ethernet!Idle, m)
    BY DEF EthHolds, Ethernet!Mutexes
  <1>3. /\ eth_calls' = [eth_calls EXCEPT ![t] = Ethernet!Idle]
        /\ eth_owner' = [m \in Ethernet!Mutexes |-> IF eth_owner[m] = t THEN "nobody" ELSE eth_owner[m]]
    BY DEF Ethernet!Returns, Ethernet!Free
  <1>4. eth_owner' \in [Ethernet!Mutexes -> Threads \cup {"nobody"}]
    BY <1>3 DEF EthCalls
  <1>5. \A m \in Ethernet!Mutexes : /\ eth_owner'[m] # t
                                    /\ \A u \in Threads \ {t} : eth_owner'[m] = u <=> eth_owner[m] = u
    BY <1>3
  <1>6. \A m \in Ethernet!Mutexes : EthHolds(Ethernet!Idle, m) <=> eth_owner'[m] = t
    BY <1>2, <1>5
  <1> DEFINE c == Ethernet!Idle
  <1>7. /\ c \in EthCall /\ EthShape(c) /\ eth_calls' = [eth_calls EXCEPT ![t] = c]
        /\ \A m \in Ethernet!Mutexes : EthHolds(c, m) <=> eth_owner'[m] = t
    BY <1>1, <1>3, <1>6
  <1> HIDE DEF c
  <1>9. \A m \in Ethernet!Mutexes : \A u \in Threads \ {t} : eth_owner'[m] = u <=> eth_owner[m] = u
    BY <1>5
  <1> HIDE DEF Ethernet!Idle, Ethernet!Nobody
  <1>8. /\ EthCalls' /\ eth_calls'[t] = c
        /\ \A u \in Threads : u # t => eth_calls'[u] = eth_calls[u]
    BY <1>4, <1>7, <1>9, EthThread
  <1> QED BY <1>8 DEF c

\* Goes changes neither the operation nor, mostly, the mutexes.
LEMMA EthGoes ==
    ASSUME EthCalls, NEW t \in Threads, NEW where, NEW needs,
           where \in {"asked", "works", "queued", "reads"},
           needs \in {<<"state">>, <<"phy">>, <<>>},
           Ethernet!Goes(t, where, needs)
    PROVE  \E c \in EthCall :
               /\ c.op = eth_calls[t].op /\ c.at = where /\ c.needs = needs
               /\ eth_calls' = [eth_calls EXCEPT ![t] = c]
  <1>1. eth_calls \in [Threads -> EthCall] /\ eth_calls[t] \in EthCall
    BY DEF EthCalls
  <1>2. needs \in Seq(Ethernet!Mutexes)
    BY EthTails DEF Ethernet!Mutexes
  <1> DEFINE c == [eth_calls[t] EXCEPT !.at = where, !.needs = needs]
  <1>3. c \in EthCall /\ c.op = eth_calls[t].op /\ c.at = where /\ c.needs = needs
    BY <1>1, <1>2 DEF EthCall
  <1>4. eth_calls' = [eth_calls EXCEPT ![t] = c]
    BY <1>1 DEF Ethernet!Goes, EthCall
  <1> HIDE DEF c
  <1> QED BY <1>3, <1>4

LEMMA EthGone ==
    ASSUME EthCalls, NEW t \in Threads, NEW c \in EthCall,
           eth_calls' = [eth_calls EXCEPT ![t] = c], EthShape(c), UNCHANGED eth_owner,
           \A m \in Ethernet!Mutexes : EthHolds(c, m) <=> EthHolds(eth_calls[t], m)
    PROVE  /\ EthCalls'
           /\ eth_calls'[t] = c
           /\ \A u \in Threads : u # t => eth_calls'[u] = eth_calls[u]
  <1>1. \A m \in Ethernet!Mutexes : EthHolds(c, m) <=> eth_owner'[m] = t
    BY DEF EthCalls
  <1>2. eth_owner' \in [Ethernet!Mutexes -> Threads \cup {"nobody"}]
    BY DEF EthCalls
  <1> QED BY <1>1, <1>2, EthThread

\* Steps that leave state and slots alone.
LEMMA EthKept ==
    ASSUME EthInv, NEW t \in Threads,
           \A u \in Threads : u # t => eth_calls'[u] = eth_calls[u],
           UNCHANGED <<eth_running, eth_device, eth_allocated, eth_ring, eth_filled, eth_packet>>,
           eth_calls'[t].at \in {"works", "reads"} =>
               /\ eth_calls'[t].op = "start" => ~eth_running
               /\ eth_calls'[t].op \in {"stop", "receive"} => eth_running,
           eth_calls[t].op = "receive" => eth_calls[t].at # "reads"
    PROVE  EthState' /\ EthSlots'
  <1>1. EthState'
    BY DEF EthInv, EthState
  <1>2. EthSlots'
    BY DEF EthInv, EthSlots
  <1> QED BY <1>1, <1>2

LEMMA EthCallStep ==
    ASSUME EthInv, NEW t \in Threads, NEW op \in {"start", "stop", "transmit", "receive", "link"},
           Ethernet!Call(t, op)
    PROVE  EthInv'
  <1> DEFINE order == Ethernet!MutexOrder(op)
             c == [op |-> op, at |-> "entered", needs |-> order]
  <1>1. /\ eth_calls[t] = Ethernet!Idle /\ EthCalls
        /\ eth_calls' = [eth_calls EXCEPT ![t] = c]
        /\ UNCHANGED <<eth_owner, eth_running, eth_device, eth_tx, eth_allocated, eth_ring,
                       eth_filled, eth_packet>>
    BY DEF Ethernet!Call, Ethernet!hardware, EthInv
  <1>2. /\ order \in Seq(Ethernet!Mutexes) /\ order # <<>>
        /\ op \in {"start", "stop"} => order = <<"transmit", "receive", "state">>
        /\ op \in {"transmit", "receive"} => order = <<op>>
        /\ op = "link" => order = <<"phy">>
    <2>1. op \in {"start", "stop"} => order = <<"transmit", "receive", "state">>
      BY DEF Ethernet!MutexOrder
    <2>2. op = "link" => order = <<"phy">>
      BY DEF Ethernet!MutexOrder
    <2>3. op \in {"transmit", "receive"} => order = <<op>>
      BY DEF Ethernet!MutexOrder
    <2> HIDE DEF order
    <2> QED BY <2>1, <2>2, <2>3, EthTails DEF Ethernet!Mutexes
  <1> HIDE DEF order
  <1>3. c \in EthCall /\ c.op = op /\ c.at = "entered" /\ c.needs = order
    BY <1>2 DEF EthCall
  <1> HIDE DEF c
  <1>4. EthShape(c)
    BY <1>2, <1>3 DEF EthShape
  <1>5. \A m \in Ethernet!Mutexes : ~EthHolds(c, m) /\ ~EthHolds(eth_calls[t], m)
    <2>1. order # <<"receive", "state">> /\ order # <<"state">>
      BY <1>2, EthTails
    <2>2. \A m \in Ethernet!Mutexes : ~EthHolds(c, m)
      BY <1>2, <1>3, <2>1 DEF EthHolds, Ethernet!Mutexes
    <2>3. \A m \in Ethernet!Mutexes : ~EthHolds(Ethernet!Idle, m)
      BY DEF EthHolds, Ethernet!Mutexes, Ethernet!Idle
    <2> QED BY <1>1, <2>2, <2>3
  <1>6. \A m \in Ethernet!Mutexes : EthHolds(c, m) <=> eth_owner'[m] = t
    BY <1>1, <1>5 DEF EthCalls
  <1>7. eth_owner' \in [Ethernet!Mutexes -> Threads \cup {"nobody"}]
    BY <1>1 DEF EthCalls
  <1>8. \A m \in Ethernet!Mutexes : \A u \in Threads \ {t} : eth_owner'[m] = u <=> eth_owner[m] = u
    BY <1>1
  <1>9. /\ EthCalls' /\ eth_calls'[t] = c
        /\ \A u \in Threads : u # t => eth_calls'[u] = eth_calls[u]
    BY ZenonT(30), <1>1, <1>3, <1>4, <1>6, <1>7, <1>8, EthThread
  <1>10. EthState' /\ EthSlots'
    BY <1>1, <1>3, <1>9, EthKept DEF Ethernet!Idle
  <1>11. EthTx'
    BY <1>1 DEF EthInv, EthTx
  <1> QED BY <1>9, <1>10, <1>11 DEF EthInv

LEMMA EthAcquireStep ==
    ASSUME EthInv, NEW t \in Threads, Ethernet!Acquire(t)
    PROVE  EthInv'
  <1> DEFINE call == eth_calls[t]
             m == Head(call.needs)
             c == [call EXCEPT !.needs = Tail(@)]
  <1>1. /\ EthCalls /\ eth_calls \in [Threads -> EthCall] /\ call \in EthCall /\ EthShape(call)
        /\ call.needs # <<>> /\ eth_owner[m] = "nobody"
    BY DEF EthInv, EthCalls, Ethernet!Acquire, Ethernet!Nobody
  <1>2. /\ eth_calls' = [eth_calls EXCEPT ![t] = c]
        /\ eth_owner' = [eth_owner EXCEPT ![m] = t]
        /\ UNCHANGED <<eth_running, eth_device, eth_tx, eth_allocated, eth_ring, eth_filled, eth_packet>>
    BY <1>1 DEF Ethernet!Acquire, Ethernet!hardware, EthCall
  <1> DEFINE needs == call.needs
             op == call.op
             at == call.at
  <1>3. \/ op \in {"start", "stop"} /\ at = "entered" /\ needs = <<"transmit", "receive", "state">>
        \/ op \in {"start", "stop"} /\ at = "entered" /\ needs = <<"receive", "state">>
        \/ op \in {"start", "stop"} /\ at = "entered" /\ needs = <<"state">>
        \/ op \in {"start", "stop"} /\ at = "works" /\ needs = <<"phy">>
        \/ op \in {"transmit", "receive"} /\ at = "entered" /\ needs = <<op>>
        \/ op \in {"transmit", "receive"} /\ at = "asked" /\ needs = <<"state">>
        \/ op = "link" /\ at = "entered" /\ needs = <<"phy">>
    BY <1>1 DEF EthShape, EthCall
  <1>4. /\ c \in EthCall /\ c.op = op /\ c.at = at /\ c.needs = Tail(needs)
        /\ m \in Ethernet!Mutexes
    <2>1. c.op = op /\ c.at = at /\ c.needs = Tail(needs)
      BY <1>1 DEF EthCall
    <2>2. Tail(needs) \in Seq(Ethernet!Mutexes) /\ m \in Ethernet!Mutexes
      BY <1>1 DEF EthCall
    <2>3. c \in EthCall
      BY <1>1, <2>2 DEF EthCall
    <2> QED BY <2>1, <2>2, <2>3
  <1> HIDE DEF c
  <1>5. /\ EthShape(c)
        /\ \A n \in Ethernet!Mutexes : EthHolds(c, n) <=> EthHolds(call, n) \/ n = m
    <2> USE DEF EthHolds, EthShape, Ethernet!Mutexes
    <2>1. CASE op \in {"start", "stop"} /\ at = "entered" /\ needs = <<"transmit", "receive", "state">>
      BY <2>1, <1>4, EthTails
    <2>2. CASE op \in {"start", "stop"} /\ at = "entered" /\ needs = <<"receive", "state">>
      BY <2>2, <1>4, EthTails
    <2>3. CASE op \in {"start", "stop"} /\ at = "entered" /\ needs = <<"state">>
      BY <2>3, <1>4, EthTails
    <2>4. CASE op \in {"start", "stop"} /\ at = "works" /\ needs = <<"phy">>
      BY <2>4, <1>4, EthTails
    <2>5. CASE op \in {"transmit", "receive"} /\ at = "entered" /\ needs = <<op>>
      BY <2>5, <1>4, EthTails
    <2>6. CASE op \in {"transmit", "receive"} /\ at = "asked" /\ needs = <<"state">>
      BY <2>6, <1>4, EthTails
    <2>7. CASE op = "link" /\ at = "entered" /\ needs = <<"phy">>
      BY <2>7, <1>4, EthTails
    <2> QED BY <1>3, <2>1, <2>2, <2>3, <2>4, <2>5, <2>6, <2>7
  <1>6. eth_owner' \in [Ethernet!Mutexes -> Threads \cup {"nobody"}]
    BY <1>1, <1>2 DEF EthCalls
  <1>7. \A n \in Ethernet!Mutexes : \A u \in Threads \ {t} : eth_owner'[n] = u <=> eth_owner[n] = u
    BY <1>1, <1>2, <1>4, ConstantsAssumption DEF ConstantsAssumption, EthCalls
  <1>8. \A n \in Ethernet!Mutexes : EthHolds(c, n) <=> eth_owner'[n] = t
    BY <1>1, <1>2, <1>4, <1>5 DEF EthCalls
  <1>9. /\ EthCalls' /\ eth_calls'[t] = c
        /\ \A u \in Threads : u # t => eth_calls'[u] = eth_calls[u]
    BY <1>1, <1>2, <1>4, <1>5, <1>6, <1>7, <1>8, EthThread
  <1>10. EthState' /\ EthSlots'
    <2>1. at # "reads" /\ (at = "works" => op \in {"start", "stop"})
      BY <1>3
    <2>2. at = "works" => (op = "start" => ~eth_running) /\ (op = "stop" => eth_running)
      BY DEF EthInv, EthState
    <2> QED BY <1>2, <1>4, <1>9, <2>1, <2>2, EthKept
  <1>11. EthTx'
    BY <1>2 DEF EthInv, EthTx
  <1> QED BY <1>9, <1>10, <1>11 DEF EthInv

\* Calls return with the data as it is.
LEMMA EthReturnStep ==
    ASSUME EthInv, NEW t \in Threads, Ethernet!Returns(t),
           eth_calls[t].op = "receive" => eth_calls[t].at # "reads",
           UNCHANGED <<eth_running, eth_device, eth_tx, eth_allocated, eth_ring, eth_filled, eth_packet>>
    PROVE  EthInv'
  <1>1. /\ EthCalls' /\ eth_calls'[t] = Ethernet!Idle
        /\ \A u \in Threads : u # t => eth_calls'[u] = eth_calls[u]
    BY EthReturns DEF EthInv
  <1>2. EthState' /\ EthSlots'
    BY <1>1, EthKept DEF Ethernet!Idle
  <1>3. EthTx'
    BY DEF EthInv, EthTx
  <1> QED BY <1>1, <1>2, <1>3 DEF EthInv

\* Calls go on with the data as it is.
LEMMA EthGoStep ==
    ASSUME EthInv, NEW t \in Threads,
           \/ /\ \E op \in {"start", "stop"} : /\ Ethernet!At(t, op, "entered")
                                               /\ eth_running # (op = "start")
              /\ Ethernet!Goes(t, "works", <<"phy">>)
           \/ /\ \E op \in {"transmit", "receive"} : Ethernet!At(t, op, "entered")
              /\ Ethernet!Goes(t, "asked", <<"state">>),
           UNCHANGED <<eth_owner, eth_running, eth_device, eth_tx, eth_allocated, eth_ring,
                       eth_filled, eth_packet>>
    PROVE  EthInv'
  <1>1. PICK where \in {"asked", "works"}, needs \in {<<"phy">>, <<"state">>} :
            /\ Ethernet!Goes(t, where, needs)
            /\ eth_calls[t].at = "entered" /\ eth_calls[t].needs = <<>>
            /\ \/ /\ where = "works" /\ needs = <<"phy">>
                  /\ eth_calls[t].op \in {"start", "stop"}
                  /\ eth_running # (eth_calls[t].op = "start")
               \/ /\ where = "asked" /\ needs = <<"state">>
                  /\ eth_calls[t].op \in {"transmit", "receive"}
    BY DEF Ethernet!At
  <1>2. EthCalls /\ where \in {"asked", "works", "queued", "reads"}
        /\ needs \in {<<"state">>, <<"phy">>, <<>>}
    BY DEF EthInv
  <1>3. PICK c \in EthCall : /\ c.op = eth_calls[t].op /\ c.at = where /\ c.needs = needs
                             /\ eth_calls' = [eth_calls EXCEPT ![t] = c]
    BY <1>1, <1>2, EthGoes
  <1>4. EthShape(c)
    BY <1>1, <1>3 DEF EthShape
  <1>5. \A m \in Ethernet!Mutexes : EthHolds(c, m) <=> EthHolds(eth_calls[t], m)
    BY <1>1, <1>3, EthTails DEF EthHolds, Ethernet!Mutexes
  <1>6. /\ EthCalls' /\ eth_calls'[t] = c
        /\ \A u \in Threads : u # t => eth_calls'[u] = eth_calls[u]
    BY <1>2, <1>3, <1>4, <1>5, EthGone
  <1>7. EthState' /\ EthSlots'
    <2>1. c.at # "reads" /\ (c.at = "works" => (c.op = "start" => ~eth_running) /\ (c.op = "stop" => eth_running))
      BY <1>1, <1>3 DEF EthInv, EthState
    <2>2. eth_calls[t].at # "reads" /\ (c.at = "works" => c.op # "receive")
      BY <1>1, <1>3
    <2> QED BY <1>6, <2>1, <2>2, EthKept
  <1>8. EthTx'
    BY DEF EthInv, EthTx
  <1> QED BY <1>6, <1>7, <1>8 DEF EthInv

\* A call that has its state under the mutex gives that mutex back.
LEMMA EthReadsStateStep ==
    ASSUME EthInv, NEW t \in Threads, Ethernet!ReadsState(t)
    PROVE  EthInv'
  <1>1. /\ eth_calls[t].op \in {"transmit", "receive"} /\ eth_calls[t].at = "asked"
        /\ eth_calls[t].needs = <<>> /\ EthCalls
        /\ UNCHANGED <<eth_running, eth_device, eth_tx, eth_allocated, eth_ring, eth_filled, eth_packet>>
    BY DEF Ethernet!ReadsState, Ethernet!At, Ethernet!hardware, EthInv
  <1>2. CASE ~eth_running
    BY <1>1, <1>2, EthReturnStep DEF Ethernet!ReadsState
  <1>3. CASE eth_running
    <2>1. Ethernet!Goes(t, "works", <<>>) /\ eth_owner' = Ethernet!Free(t, {"state"})
      BY <1>3 DEF Ethernet!ReadsState
    <2>2. "works" \in {"asked", "works", "queued", "reads"} /\ <<>> \in {<<"state">>, <<"phy">>, <<>>}
      OBVIOUS
    <2>3. PICK c \in EthCall : /\ c.op = eth_calls[t].op /\ c.at = "works" /\ c.needs = <<>>
                               /\ eth_calls' = [eth_calls EXCEPT ![t] = c]
      BY <1>1, <2>1, <2>2, EthGoes
    <2>4. EthShape(c)
      BY <1>1, <2>3 DEF EthShape
    <2>5. \A m \in Ethernet!Mutexes : EthHolds(c, m) <=> EthHolds(eth_calls[t], m) /\ m # "state"
      BY <1>1, <2>3, EthTails DEF EthHolds, Ethernet!Mutexes
    <2>6. \A m \in Ethernet!Mutexes :
              eth_owner'[m] = IF m = "state" /\ eth_owner[m] = t THEN "nobody" ELSE eth_owner[m]
      BY <2>1 DEF Ethernet!Free, Ethernet!Nobody
    <2>7. eth_owner' \in [Ethernet!Mutexes -> Threads \cup {"nobody"}]
      BY <1>1, <2>1 DEF Ethernet!Free, Ethernet!Nobody, EthCalls
    <2>8. \A m \in Ethernet!Mutexes : \A u \in Threads \ {t} : eth_owner'[m] = u <=> eth_owner[m] = u
      BY <2>6, ConstantsAssumption DEF ConstantsAssumption
    <2>9. \A m \in Ethernet!Mutexes : EthHolds(c, m) <=> eth_owner'[m] = t
      BY <1>1, <2>5, <2>6, ConstantsAssumption DEF ConstantsAssumption, EthCalls
    <2>10. /\ EthCalls' /\ eth_calls'[t] = c
           /\ \A u \in Threads : u # t => eth_calls'[u] = eth_calls[u]
      BY <1>1, <2>3, <2>4, <2>7, <2>8, <2>9, EthThread
    <2>11. EthState' /\ EthSlots'
      BY <1>1, <1>3, <2>3, <2>10, EthKept
    <2>12. EthTx'
      BY <1>1 DEF EthInv, EthTx
    <2> QED BY <2>10, <2>11, <2>12 DEF EthInv
  <1> QED BY <1>2, <1>3

\* Who works in start or stop is alone with the state, the ring and its frames.
LEMMA EthAlone ==
    ASSUME EthCalls, NEW t \in Threads,
           eth_calls[t].op \in {"start", "stop"}, eth_calls[t].at = "works",
           NEW u \in Threads, u # t, eth_calls[u].at \in {"works", "reads"}
    PROVE  eth_calls[u].op \notin {"start", "stop", "receive"}
  <1>1. "receive" \in Ethernet!Mutexes
    BY DEF Ethernet!Mutexes
  <1>2. EthHolds(eth_calls[t], "receive")
    BY DEF EthHolds
  <1>3. eth_owner["receive"] = t
    BY <1>1, <1>2 DEF EthCalls
  <1>4. ~EthHolds(eth_calls[u], "receive")
    BY <1>1, <1>3 DEF EthCalls
  <1>5. eth_calls[u].at # "entered"
    OBVIOUS
  <1>6. eth_calls[u].op \in {"start", "stop"} => eth_calls[u].at = "works"
    BY <1>5 DEF EthCalls, EthShape
  <1> QED BY <1>4, <1>5, <1>6 DEF EthHolds

\* And only one thread receives.
LEMMA EthOneReads ==
    ASSUME EthCalls, NEW t \in Threads, eth_calls[t].op = "receive", eth_calls[t].at \in {"works", "reads"},
           NEW u \in Threads, u # t, eth_calls[u].op = "receive"
    PROVE  eth_calls[u].at # "reads"
  <1>1. "receive" \in Ethernet!Mutexes
    BY DEF Ethernet!Mutexes
  <1>2. EthHolds(eth_calls[t], "receive")
    BY DEF EthHolds
  <1>3. eth_owner["receive"] = t
    BY <1>1, <1>2 DEF EthCalls
  <1>4. ~EthHolds(eth_calls[u], "receive")
    BY <1>1, <1>3 DEF EthCalls
  <1> QED BY <1>4 DEF EthHolds

\* start and stop: afterwards nobody works with the state that they changed.
LEMMA EthStateSet ==
    ASSUME EthInv, NEW t \in Threads, Ethernet!Returns(t),
           eth_calls[t].op \in {"start", "stop"}, eth_calls[t].at = "works"
    PROVE  /\ EthCalls'
           /\ \A u \in Threads : eth_calls'[u].at \in {"works", "reads"} =>
                  eth_calls'[u].op \notin {"start", "stop", "receive"}
           /\ eth_packet = {}
  <1>1. /\ EthCalls' /\ eth_calls'[t] = Ethernet!Idle
        /\ \A u \in Threads : u # t => eth_calls'[u] = eth_calls[u]
    BY EthReturns DEF EthInv
  <1>2. \A u \in Threads : u # t /\ eth_calls[u].at \in {"works", "reads"} =>
            eth_calls[u].op \notin {"start", "stop", "receive"}
    BY EthAlone DEF EthInv
  <1>3. \A u \in Threads : eth_calls'[u].at \in {"works", "reads"} =>
            eth_calls'[u].op \notin {"start", "stop", "receive"}
    BY <1>1, <1>2 DEF Ethernet!Idle
  <1>4. eth_packet = {}
    BY <1>2 DEF EthInv, EthSlots
  <1> QED BY <1>1, <1>3, <1>4

LEMMA EthStartStep ==
    ASSUME EthInv, NEW t \in Threads, Ethernet!Start(t)
    PROVE  EthInv'
  <1>1. /\ eth_calls[t].op = "start" /\ eth_calls[t].at = "works" /\ Ethernet!Returns(t)
        /\ UNCHANGED <<eth_device, eth_tx, eth_filled, eth_packet>>
    BY DEF Ethernet!Start, Ethernet!At
  <1>2. /\ EthCalls'
        /\ \A u \in Threads : eth_calls'[u].at \in {"works", "reads"} =>
               eth_calls'[u].op \notin {"start", "stop", "receive"}
        /\ eth_packet = {}
    BY <1>1, EthStateSet
  <1>3. ~eth_running /\ eth_ring = {} /\ eth_filled = {}
    BY <1>1 DEF EthInv, EthState, EthSlots
  <1>4. EthTx'
    BY <1>1 DEF EthInv, EthTx
  <1>5. CASE UNCHANGED <<eth_running, eth_allocated, eth_ring>>
    <2>1. EthState'
      BY <1>1, <1>2, <1>5 DEF EthInv, EthState
    <2>2. EthSlots'
      BY <1>1, <1>2, <1>5 DEF EthInv, EthSlots
    <2> QED BY <1>2, <1>4, <2>1, <2>2 DEF EthInv
  <1>6. CASE /\ eth_device = "ready" /\ eth_running' = TRUE
             /\ \E given \in SUBSET (Slots \ eth_allocated) :
                   /\ Cardinality(given) = RingSize - Cardinality(eth_ring)
                   /\ eth_ring' = eth_ring \cup given
                   /\ eth_allocated' = eth_allocated \cup given
    <2>1. PICK given \in SUBSET (Slots \ eth_allocated) :
              /\ Cardinality(given) = RingSize - Cardinality(eth_ring)
              /\ eth_ring' = eth_ring \cup given
              /\ eth_allocated' = eth_allocated \cup given
      BY <1>6
    <2>2. eth_allocated = {}
      BY <1>2, <1>3, <1>6 DEF EthInv, EthSlots
    <2>3. eth_ring' = given /\ eth_allocated' = given
      BY <1>3, <2>1, <2>2
    <2>4. Cardinality(eth_ring') = RingSize
      BY <1>3, <2>1, <2>3, FS_EmptySet, ConstantsAssumption DEF ConstantsAssumption
    <2>5. EthState'
      BY <1>1, <1>2, <1>6 DEF EthInv, EthState
    <2>6. EthSlots'
      BY <1>1, <1>2, <1>3, <1>6, <2>1, <2>3, <2>4 DEF EthInv, EthSlots
    <2> QED BY <1>2, <1>4, <2>5, <2>6 DEF EthInv
  <1>7. \/ UNCHANGED <<eth_running, eth_allocated, eth_ring>>
        \/ /\ eth_device = "ready" /\ eth_running' = TRUE
           /\ \E given \in SUBSET (Slots \ eth_allocated) :
                 /\ Cardinality(given) = RingSize - Cardinality(eth_ring)
                 /\ eth_ring' = eth_ring \cup given
                 /\ eth_allocated' = eth_allocated \cup given
    BY EthCardinality DEF Ethernet!Start
  <1> QED BY <1>5, <1>6, <1>7

LEMMA EthStopStep ==
    ASSUME EthInv, NEW t \in Threads, Ethernet!Stop(t)
    PROVE  EthInv'
  <1>1. /\ eth_calls[t].op = "stop" /\ eth_calls[t].at = "works" /\ Ethernet!Returns(t)
        /\ UNCHANGED eth_packet
    BY DEF Ethernet!Stop, Ethernet!At
  <1>2. /\ EthCalls'
        /\ \A u \in Threads : eth_calls'[u].at \in {"works", "reads"} =>
               eth_calls'[u].op \notin {"start", "stop", "receive"}
        /\ eth_packet = {}
    BY <1>1, EthStateSet
  <1>3. CASE eth_running' = FALSE /\ Ethernet!Reset /\ UNCHANGED eth_device
    <2>1. EthState'
      BY <1>2, <1>3 DEF EthInv, EthState
    <2>2. EthTx'
      BY <1>3 DEF EthInv, EthTx, Ethernet!Reset, Ethernet!NoPacket
    <2>3. EthSlots'
      BY <1>1, <1>2, <1>3 DEF EthInv, EthSlots, Ethernet!Reset
    <2> QED BY <1>2, <2>1, <2>2, <2>3 DEF EthInv
  <1>4. CASE /\ eth_running' = FALSE /\ eth_device' = "error"
             /\ eth_ring' = {} /\ eth_filled' = {} /\ UNCHANGED <<eth_tx, eth_allocated>>
    <2>1. EthState'
      BY <1>2, <1>4 DEF EthInv, EthState
    <2>2. EthTx'
      BY <1>4 DEF EthInv, EthTx
    <2>3. EthSlots'
      BY <1>1, <1>2, <1>4 DEF EthInv, EthSlots
    <2> QED BY <1>2, <2>1, <2>2, <2>3 DEF EthInv
  <1>5. CASE UNCHANGED <<eth_running, Ethernet!hardware>>
    <2>1. EthState'
      BY <1>2, <1>5 DEF EthInv, EthState, Ethernet!hardware
    <2>2. EthTx'
      BY <1>5 DEF EthInv, EthTx, Ethernet!hardware
    <2>3. EthSlots'
      BY <1>1, <1>2, <1>5 DEF EthInv, EthSlots, Ethernet!hardware
    <2> QED BY <1>2, <2>1, <2>2, <2>3 DEF EthInv
  <1> QED BY <1>3, <1>4, <1>5 DEF Ethernet!Stop

\* transmit: what it does to the frame and its descriptor.
LEMMA EthTransmitStep ==
    ASSUME EthInv, NEW t \in Threads,
           \/ Ethernet!Enqueue(t)
           \/ \E where \in {"works", "queued"} : Ethernet!WaitForTransmit(t, where)
    PROVE  EthInv'
  <1>1. /\ eth_calls[t].op = "transmit" /\ eth_calls[t].at \in {"works", "queued"}
        /\ eth_calls[t].needs = <<>>
        /\ UNCHANGED <<eth_running, eth_device, eth_allocated, eth_ring, eth_filled, eth_packet>>
    BY DEF Ethernet!Enqueue, Ethernet!WaitForTransmit, Ethernet!At
  <1>2. EthTx'
    BY DEF Ethernet!Enqueue, Ethernet!WaitForTransmit, Ethernet!TimesOut, EthInv, EthTx
  <1>3. \/ Ethernet!Returns(t)
        \/ UNCHANGED <<eth_calls, eth_owner>>
        \/ Ethernet!Goes(t, "queued", <<>>) /\ UNCHANGED eth_owner
    BY DEF Ethernet!Enqueue, Ethernet!WaitForTransmit
  <1>4. CASE Ethernet!Returns(t)
    <2>1. /\ EthCalls' /\ eth_calls'[t] = Ethernet!Idle
          /\ \A u \in Threads : u # t => eth_calls'[u] = eth_calls[u]
      BY <1>4, EthReturns DEF EthInv
    <2>2. EthState' /\ EthSlots'
      BY <1>1, <2>1, EthKept DEF Ethernet!Idle
    <2> QED BY <1>2, <2>1, <2>2 DEF EthInv
  <1>5. CASE UNCHANGED <<eth_calls, eth_owner>>
    <2>1. EthCalls'
      BY <1>5 DEF EthInv, EthCalls
    <2>2. EthState' /\ EthSlots'
      BY <1>1, <1>5 DEF EthInv, EthState, EthSlots
    <2> QED BY <1>2, <2>1, <2>2 DEF EthInv
  <1>6. CASE Ethernet!Goes(t, "queued", <<>>) /\ UNCHANGED eth_owner
    <2>1. /\ "queued" \in {"asked", "works", "queued", "reads"}
          /\ <<>> \in {<<"state">>, <<"phy">>, <<>>} /\ EthCalls
      BY DEF EthInv
    <2>2. PICK c \in EthCall : /\ c.op = eth_calls[t].op /\ c.at = "queued" /\ c.needs = <<>>
                               /\ eth_calls' = [eth_calls EXCEPT ![t] = c]
      BY <1>6, <2>1, EthGoes
    <2>3. EthShape(c)
      BY <1>1, <2>2 DEF EthShape
    <2>4. \A m \in Ethernet!Mutexes : EthHolds(c, m) <=> EthHolds(eth_calls[t], m)
      BY <1>1, <2>2 DEF EthHolds, Ethernet!Mutexes
    <2>5. /\ EthCalls' /\ eth_calls'[t] = c
          /\ \A u \in Threads : u # t => eth_calls'[u] = eth_calls[u]
      BY <1>6, <2>1, <2>2, <2>3, <2>4, EthGone
    <2>6. EthState' /\ EthSlots'
      BY <1>1, <2>2, <2>5, EthKept
    <2> QED BY <1>2, <2>5, <2>6 DEF EthInv
  <1> QED BY <1>3, <1>4, <1>5, <1>6

\* receive: the frame moves from the ring to the call, and back to nobody.
LEMMA EthReadDataStep ==
    ASSUME EthInv, NEW t \in Threads, Ethernet!ReadData(t)
    PROVE  EthInv'
  <1>1. /\ eth_calls[t].op = "receive" /\ eth_calls[t].at = "works" /\ eth_calls[t].needs = <<>>
        /\ Ethernet!Goes(t, "reads", <<>>)
        /\ UNCHANGED <<eth_owner, eth_running, eth_device, eth_tx>>
    BY DEF Ethernet!ReadData, Ethernet!At
  <1>s. PICK s \in eth_filled :
            /\ eth_packet' = {s} /\ eth_filled' = eth_filled \ {s}
            /\ \E given \in SUBSET (Slots \ eth_allocated) :
                  /\ Cardinality(given) = IF Slots \ eth_allocated = {} THEN 0 ELSE 1
                  /\ eth_ring' = (eth_ring \ {s}) \cup given
                  /\ eth_allocated' = eth_allocated \cup given
    BY EthCardinality DEF Ethernet!ReadData
  <1>2. PICK given \in SUBSET (Slots \ eth_allocated) :
            /\ eth_packet' = {s} /\ eth_filled' = eth_filled \ {s}
            /\ Cardinality(given) = IF Slots \ eth_allocated = {} THEN 0 ELSE 1
            /\ eth_ring' = (eth_ring \ {s}) \cup given
            /\ eth_allocated' = eth_allocated \cup given
    BY <1>s
  <1>3. /\ "reads" \in {"asked", "works", "queued", "reads"}
        /\ <<>> \in {<<"state">>, <<"phy">>, <<>>} /\ EthCalls
    BY DEF EthInv
  <1>4. PICK c \in EthCall : /\ c.op = "receive" /\ c.at = "reads" /\ c.needs = <<>>
                             /\ eth_calls' = [eth_calls EXCEPT ![t] = c]
    BY <1>1, <1>3, EthGoes
  <1>5. EthShape(c)
    BY <1>4 DEF EthShape
  <1>6. \A m \in Ethernet!Mutexes : EthHolds(c, m) <=> EthHolds(eth_calls[t], m)
    BY <1>1, <1>4 DEF EthHolds, Ethernet!Mutexes
  <1>7. /\ EthCalls' /\ eth_calls'[t] = c
        /\ \A u \in Threads : u # t => eth_calls'[u] = eth_calls[u]
    BY <1>1, <1>3, <1>4, <1>5, <1>6, EthGone
  <1>8. /\ eth_running /\ eth_device = "ready" /\ eth_packet = {}
        /\ eth_allocated = eth_ring /\ Cardinality(eth_ring) = RingSize
        /\ eth_ring \subseteq Slots /\ eth_filled \subseteq eth_ring
    <2>1. \A u \in Threads : eth_calls[u].op = "receive" => eth_calls[u].at # "reads"
      BY <1>1, <1>3, EthOneReads
    <2>2. eth_packet = {}
      BY <2>1 DEF EthInv, EthSlots
    <2>3. eth_running
      BY <1>1 DEF EthInv, EthState
    <2> QED BY <2>2, <2>3 DEF EthInv, EthState, EthSlots
  <1>9. EthState'
    BY <1>1, <1>4, <1>7, <1>8 DEF EthInv, EthState
  <1>10. EthTx'
    BY <1>1 DEF EthInv, EthTx
  <1>11. Cardinality(eth_ring') = RingSize
    <2>1. /\ IsFiniteSet(Slots) /\ RingSize \in Nat /\ Cardinality(Slots) = 2 * RingSize
      BY ConstantsAssumption DEF ConstantsAssumption
    <2>2. IsFiniteSet(eth_ring) /\ IsFiniteSet(given)
      BY <1>8, <2>1, FS_Subset
    <2>3. Slots \ eth_allocated # {}
      <3> SUFFICES ASSUME Slots \ eth_allocated = {} PROVE FALSE
        OBVIOUS
      <3>1. eth_ring = Slots
        BY <1>8
      <3>2. RingSize = 0
        BY <1>8, <2>1, <3>1
      <3>3. eth_ring = {}
        BY <1>8, <2>2, <3>2, FS_EmptySet
      <3> QED BY <1>8, <3>3
    <2>4. PICK x : given = {x}
      BY <1>2, <2>2, <2>3, FS_Singleton
    <2>5. x \notin eth_ring \ {s}
      BY <1>2, <1>8, <2>4
    <2>6. s \in eth_ring
      BY <1>8
    <2>7. IsFiniteSet(eth_ring \ {s}) /\ Cardinality(eth_ring \ {s}) = RingSize - 1
      BY <1>8, <2>2, <2>6, FS_RemoveElement
    <2>8. Cardinality((eth_ring \ {s}) \cup {x}) = RingSize - 1 + 1
      BY <2>5, <2>7, FS_AddElement
    <2> QED BY <1>2, <2>1, <2>4, <2>8
  <1>12. EthSlots'
    <2>1. \E u \in Threads : eth_calls'[u].op = "receive" /\ eth_calls'[u].at = "reads"
      BY <1>4, <1>7
    <2>2. /\ eth_packet' \subseteq Slots /\ eth_ring' \subseteq Slots /\ eth_allocated' \subseteq Slots
          /\ eth_filled' \subseteq eth_ring'
          /\ eth_packet' \cap eth_ring' = {}
          /\ eth_allocated' = eth_ring' \cup eth_packet'
      BY <1>2, <1>8
    <2> QED BY <1>1, <1>8, <1>11, <2>1, <2>2 DEF EthSlots
  <1> QED BY <1>7, <1>9, <1>10, <1>12 DEF EthInv

LEMMA EthFrameDoneStep ==
    ASSUME EthInv, NEW t \in Threads, Ethernet!FrameDone(t)
    PROVE  EthInv'
  <1>1. /\ eth_calls[t].op = "receive" /\ eth_calls[t].at = "reads" /\ eth_calls[t].needs = <<>>
        /\ eth_allocated' = eth_allocated \ eth_packet /\ eth_packet' = {}
        /\ UNCHANGED <<eth_running, eth_device, eth_tx, eth_ring, eth_filled>>
        /\ EthCalls
    BY DEF Ethernet!FrameDone, Ethernet!Released, Ethernet!At, EthInv
  <1>2. /\ EthCalls'
        /\ \A u \in Threads : u # t => eth_calls'[u] = eth_calls[u]
        /\ \/ eth_calls'[t] = Ethernet!Idle
           \/ eth_calls'[t].op = "receive" /\ eth_calls'[t].at = "works"
    <2>1. CASE Ethernet!Returns(t)
      BY <1>1, <2>1, EthReturns
    <2>2. CASE Ethernet!Goes(t, "works", <<>>) /\ UNCHANGED eth_owner
      <3>1. /\ "works" \in {"asked", "works", "queued", "reads"}
            /\ <<>> \in {<<"state">>, <<"phy">>, <<>>}
        OBVIOUS
      <3>2. PICK c \in EthCall : /\ c.op = "receive" /\ c.at = "works" /\ c.needs = <<>>
                                 /\ eth_calls' = [eth_calls EXCEPT ![t] = c]
        BY <1>1, <2>2, <3>1, EthGoes
      <3>3. EthShape(c)
        BY <3>2 DEF EthShape
      <3>4. \A m \in Ethernet!Mutexes : EthHolds(c, m) <=> EthHolds(eth_calls[t], m)
        BY <1>1, <3>2 DEF EthHolds, Ethernet!Mutexes
      <3>5. /\ EthCalls' /\ eth_calls'[t] = c
            /\ \A u \in Threads : u # t => eth_calls'[u] = eth_calls[u]
        BY <1>1, <2>2, <3>2, <3>3, <3>4, EthGone
      <3> QED BY <3>2, <3>5
    <2> QED BY <2>1, <2>2 DEF Ethernet!FrameDone
  <1>3. eth_running
    BY <1>1 DEF EthInv, EthState
  <1>4. EthState'
    BY <1>1, <1>2, <1>3 DEF EthInv, EthState, Ethernet!Idle
  <1>5. EthTx'
    BY <1>1 DEF EthInv, EthTx
  <1>6. EthSlots'
    BY <1>1, <1>3 DEF EthInv, EthSlots
  <1> QED BY <1>2, <1>4, <1>5, <1>6 DEF EthInv

\* The DMA engine.
LEMMA EthHardwareStep ==
    ASSUME EthInv, UNCHANGED eth_vars \/ Ethernet!DmaSends \/ Ethernet!DmaReceives
    PROVE  EthInv'
  <1>1. UNCHANGED <<eth_calls, eth_owner, eth_running, eth_device, eth_allocated, eth_ring, eth_packet>>
    BY DEF eth_vars, Ethernet!DmaSends, Ethernet!DmaReceives
  <1>2. EthCalls' /\ EthState'
    BY <1>1 DEF EthInv, EthCalls, EthState
  <1>3. EthTx'
    BY DEF eth_vars, Ethernet!DmaSends, Ethernet!DmaReceives, EthInv, EthTx
  <1>4. EthSlots'
    BY <1>1 DEF eth_vars, Ethernet!DmaSends, Ethernet!DmaReceives, EthInv, EthSlots
  <1> QED BY <1>2, <1>3, <1>4 DEF EthInv

LEMMA EthStep == EthInv /\ [Ethernet!Next]_eth_vars => EthInv'
  <1> SUFFICES ASSUME EthInv, [Ethernet!Next]_eth_vars PROVE EthInv'
    OBVIOUS
  <1>1. ASSUME NEW t \in Threads, Ethernet!LinkInfo(t) \/ Ethernet!NoFrame(t) PROVE EthInv'
    <2>1. /\ Ethernet!Returns(t) /\ (eth_calls[t].op = "receive" => eth_calls[t].at # "reads")
          /\ UNCHANGED <<eth_running, eth_device, eth_tx, eth_allocated, eth_ring, eth_filled, eth_packet>>
      BY <1>1 DEF Ethernet!LinkInfo, Ethernet!NoFrame, Ethernet!At, Ethernet!hardware
    <2> QED BY <2>1, EthReturnStep
  <1>2. ASSUME NEW t \in Threads, Ethernet!StateKnown(t) \/ Ethernet!AsksState(t) PROVE EthInv'
    <2>1. UNCHANGED <<eth_running, eth_device, eth_tx, eth_allocated, eth_ring, eth_filled, eth_packet>>
      BY <1>2 DEF Ethernet!StateKnown, Ethernet!AsksState, Ethernet!hardware
    <2>2. CASE Ethernet!Returns(t) /\ Ethernet!StateKnown(t)
      <3>1. eth_calls[t].op = "receive" => eth_calls[t].at # "reads"
        BY <2>2 DEF Ethernet!StateKnown, Ethernet!At
      <3> QED BY <2>1, <2>2, <3>1, EthReturnStep
    <2>3. CASE Ethernet!StateKnown(t) /\ ~Ethernet!Returns(t)
      <3>1. /\ UNCHANGED eth_owner /\ Ethernet!Goes(t, "works", <<"phy">>)
            /\ \E op \in {"start", "stop"} : Ethernet!At(t, op, "entered") /\ eth_running # (op = "start")
        BY <2>3 DEF Ethernet!StateKnown
      <3> QED BY <2>1, <3>1, EthGoStep
    <2>4. CASE Ethernet!AsksState(t)
      <3>1. /\ UNCHANGED eth_owner /\ Ethernet!Goes(t, "asked", <<"state">>)
            /\ \E op \in {"transmit", "receive"} : Ethernet!At(t, op, "entered")
        BY <2>4 DEF Ethernet!AsksState
      <3> QED BY <2>1, <3>1, EthGoStep
    <2> QED BY <1>2, <2>2, <2>3, <2>4
  <1> QED BY <1>1, <1>2, EthCallStep, EthAcquireStep, EthReadsStateStep, EthStartStep, EthStopStep,
             EthTransmitStep, EthReadDataStep, EthFrameDoneStep, EthHardwareStep DEF Ethernet!Next

\* The order of the mutexes: who has one only waits for a later one, so that a
\* circle would have to contain a call that waits for the last and has it.
LEMMA EthNoCircle == EthInv => Ethernet!NoCircularWait
  <1> SUFFICES ASSUME EthInv, NEW group \in (SUBSET Threads) \ {{}},
                      \A t \in group : /\ eth_calls[t].needs # <<>>
                                       /\ eth_owner[Head(eth_calls[t].needs)] \in group
               PROVE  FALSE
    BY DEF Ethernet!NoCircularWait
  <1>1. \A t \in group : t \in Threads /\ eth_calls[t] \in EthCall /\ EthShape(eth_calls[t])
    BY DEF EthInv, EthCalls
  <1>2. ASSUME NEW t \in group, NEW m \in Ethernet!Mutexes, Head(eth_calls[t].needs) = m
        PROVE  \E u \in group : EthHolds(eth_calls[u], m)
    BY <1>1, <1>2 DEF EthInv, EthCalls
  <1> DEFINE Waits(m) == \E t \in group : Head(eth_calls[t].needs) = m
  <1>m. {"transmit", "receive", "state", "phy"} = Ethernet!Mutexes
    BY DEF Ethernet!Mutexes
  <1>3. ~Waits("phy")
    <2>1. \A t \in group : ~EthHolds(eth_calls[t], "phy")
      BY <1>1 DEF EthHolds
    <2> QED BY <1>2, <1>m, <2>1
  <1>4. \A t \in group : eth_calls[t].needs # <<"phy">>
    BY <1>3, EthTails
  <1>5. ~Waits("state")
    <2>1. \A t \in group : ~EthHolds(eth_calls[t], "state")
      BY <1>1, <1>4 DEF EthHolds, EthShape
    <2> QED BY <1>2, <1>m, <2>1
  <1>6. \A t \in group : eth_calls[t].needs # <<"state">>
    BY <1>5, EthTails
  <1>7. ~Waits("receive")
    <2>1. \A t \in group : ~EthHolds(eth_calls[t], "receive")
      BY <1>1, <1>4, <1>6 DEF EthHolds, EthShape
    <2> QED BY <1>2, <1>m, <2>1
  <1>8. \A t \in group : eth_calls[t].needs \notin {<<"receive", "state">>, <<"receive">>}
    BY <1>7, EthTails
  <1>9. ~Waits("transmit")
    <2>1. \A t \in group : ~EthHolds(eth_calls[t], "transmit")
      BY <1>1, <1>4, <1>6, <1>8 DEF EthHolds, EthShape
    <2> QED BY <1>2, <1>m, <2>1
  <1>e. group # {}
    OBVIOUS
  <1>10. PICK t : t \in group
    BY <1>e
  <1>11. Head(eth_calls[t].needs) \in Ethernet!Mutexes
    <2>1. eth_calls[t].needs \in Seq(Ethernet!Mutexes) /\ eth_calls[t].needs # <<>>
      BY <1>1, <1>10 DEF EthCall
    <2> QED BY <2>1
  <1> QED BY <1>3, <1>5, <1>7, <1>9, <1>10, <1>11, <1>m

\* Nobody writes to the frame while the DMA has it.
LEMMA EthFrameKept ==
    ASSUME EthInv, Ethernet!Next, eth_tx.own, eth_tx'.own
    PROVE  eth_tx'.frame = eth_tx.frame
  <1>1. eth_tx.pending
    BY DEF EthInv, EthTx
  <1>2. eth_tx \in [own : BOOLEAN, fatal : BOOLEAN, pending : BOOLEAN, frame : Threads \cup {"nobody"}]
    BY DEF EthInv, EthTx
  <1>3. ASSUME NEW t \in Threads, Ethernet!Enqueue(t) PROVE FALSE
    BY <1>1, <1>3 DEF Ethernet!Enqueue
  <1>4. ASSUME NEW t \in Threads, NEW where \in {"works", "queued"}, Ethernet!WaitForTransmit(t, where)
        PROVE  eth_tx'.frame = eth_tx.frame
    BY <1>2, <1>4 DEF Ethernet!WaitForTransmit, Ethernet!TimesOut
  <1>5. ASSUME NEW t \in Threads, Ethernet!Stop(t)
        PROVE  eth_tx'.frame = eth_tx.frame
    BY <1>2, <1>5 DEF Ethernet!Stop, Ethernet!Reset, Ethernet!NoPacket, Ethernet!hardware
  <1>6. ASSUME Ethernet!DmaSends PROVE eth_tx'.frame = eth_tx.frame
    BY <1>2, <1>6 DEF Ethernet!DmaSends
  <1>7. ASSUME NEW t \in Threads,
               \/ \E op \in {"start", "stop", "transmit", "receive", "link"} : Ethernet!Call(t, op)
               \/ Ethernet!Acquire(t) \/ Ethernet!LinkInfo(t) \/ Ethernet!StateKnown(t)
               \/ Ethernet!Start(t) \/ Ethernet!AsksState(t) \/ Ethernet!ReadsState(t)
               \/ Ethernet!ReadData(t) \/ Ethernet!FrameDone(t) \/ Ethernet!NoFrame(t)
               \/ Ethernet!DmaReceives
        PROVE  eth_tx' = eth_tx
    BY <1>7 DEF Ethernet!Call, Ethernet!Acquire, Ethernet!LinkInfo, Ethernet!StateKnown, Ethernet!Start,
       Ethernet!AsksState, Ethernet!ReadsState, Ethernet!ReadData, Ethernet!FrameDone, Ethernet!NoFrame,
       Ethernet!DmaReceives, Ethernet!hardware
  <1>8. CASE Ethernet!DmaReceives
    BY <1>8 DEF Ethernet!DmaReceives
  <1> QED BY <1>3, <1>4, <1>5, <1>6, <1>7, <1>8 DEF Ethernet!Next

\* stm32/Ethernet.cpp: every allocated slot is with the DMA's ring or with the
\* one reader, threads never wait for mutexes in a circle, and the frame the DMA
\* sends is not written, for any number of threads, any ring and any failures.
THEOREM BuffersHaveOwnersHolds == Spec => BuffersHaveOwners
  <1>1. Init => EthInv
    BY EthInitial DEF Init
  <1>2. EthInv /\ [Next]_vars => EthInv'
    BY EthStep DEF Next, vars, eth_vars
  <1>3. EthInv => Ethernet!SlotsConserved /\ Ethernet!NoCircularWait
    <2>1. EthInv => Ethernet!SlotsConserved
      BY EthCardinality DEF EthInv, EthState, EthSlots, Ethernet!SlotsConserved
    <2> QED BY <2>1, EthNoCircle
  <1>4. EthInv /\ [Next]_vars => [eth_tx.own /\ eth_tx'.own => eth_tx'.frame = eth_tx.frame]_eth_vars
    BY EthFrameKept DEF Next, vars, eth_vars
  <1> QED BY <1>1, <1>2, <1>3, <1>4, PTL
          DEF Spec, BuffersHaveOwners, Ethernet!FrameUntouched, Ethernet!vars, eth_vars

-----------------------------------------------------------------------------
(* linux/Ethernet.cpp.                                                      *)

\* What a call of the socket driver has, where it can be: the mutexes it still
\* needs before its step, and no socket before it has opened or copied one.
SockCall == [op : {"none", "start", "stop", "transmit", "receive"},
             at : {"idle", "entered", "configures", "closes", "polls", "transfers"},
             needs : Seq(Socket!Mutexes), socket : Numbers \cup {0}]
SockNeeds(op) ==
    CASE op = "start" -> {<<"lifecycle">>, <<>>}
      [] op = "stop" -> {<<"transmit", "receive", "lifecycle">>, <<"receive", "lifecycle">>,
                         <<"lifecycle">>, <<>>}
      [] OTHER -> {<<op, "lifecycle">>, <<"lifecycle">>, <<>>}
SockShape(call) ==
    /\ call.at = "idle" => call.op = "none" /\ call.socket = 0
    /\ call.at = "entered" => /\ call.op # "none" /\ call.socket = 0
                              /\ call.needs \in SockNeeds(call.op)
    /\ call.at # "entered" => call.needs = <<>>
    /\ call.at = "configures" => call.op = "start"
    /\ call.at = "closes" => call.op = "stop"
    /\ call.at \in {"polls", "transfers"} => call.op \in {"transmit", "receive"}

\* The mutexes a call has, by where it is. transmit and receive have given the
\* lifecycle mutex back when they use their copy of the socket.
SockHolds(call, mutex) ==
    CASE mutex = "lifecycle" -> \/ call.at \in {"configures", "closes"}
                                \/ call.at = "entered" /\ call.needs = <<>>
      [] mutex = "receive" -> \/ call.op = "stop" /\ call.at = "closes"
                              \/ call.op = "stop" /\ call.at = "entered"
                                   /\ call.needs \in {<<"lifecycle">>, <<>>}
                              \/ call.op = "receive" /\ call.at \in {"polls", "transfers"}
                              \/ call.op = "receive" /\ call.at = "entered"
                                   /\ call.needs \in {<<"lifecycle">>, <<>>}
      [] mutex = "transmit" -> \/ call.op = "stop" /\ call.at = "closes"
                               \/ call.op = "stop" /\ call.at = "entered"
                                    /\ call.needs \in {<<"receive", "lifecycle">>, <<"lifecycle">>, <<>>}
                               \/ call.op = "transmit" /\ call.at \in {"polls", "transfers"}
                               \/ call.op = "transmit" /\ call.at = "entered"
                                    /\ call.needs \in {<<"lifecycle">>, <<>>}

SockTypes ==
    /\ sock_calls \in [Threads -> SockCall]
    /\ sock_owner \in [Socket!Mutexes -> Threads \cup {"nobody"}]
    /\ sock_m_socket \in Numbers \cup {0}
    /\ sock_user \in [Numbers -> {"driver", "other", "closed"}]
\* A call has its mutexes: no two calls have one at the same time.
SockMutexes ==
    \A t \in Threads : \A m \in Socket!Mutexes :
        SockHolds(sock_calls[t], m) => sock_owner[m] = t
\* A start or stop with a socket of its own has it alone; a transfer's copy is
\* still the driver's socket.
SockCopies ==
    \A t \in Threads :
        /\ sock_calls[t].at \in {"configures", "closes"} =>
              /\ sock_calls[t].socket \in Numbers
              /\ sock_user[sock_calls[t].socket] = "driver"
              /\ sock_m_socket = 0
        /\ sock_calls[t].at \in {"polls", "transfers"} =>
              sock_calls[t].socket = sock_m_socket /\ sock_m_socket # 0
SockUser ==
    /\ sock_m_socket # 0 => sock_user[sock_m_socket] = "driver"
    /\ \A n \in Numbers : sock_user[n] = "driver" =>
          n = sock_m_socket \/ \E t \in Threads :
              sock_calls[t].socket = n /\ sock_calls[t].at \in {"configures", "closes"}
SockInv == /\ SockTypes
           /\ \A t \in Threads : SockShape(sock_calls[t])
           /\ SockMutexes /\ SockCopies /\ SockUser

\* What Acquire does to the lists of MutexOrder.
LEMMA SockTails ==
    /\ \A op : /\ Head(<<op, "lifecycle">>) = op
               /\ Tail(<<op, "lifecycle">>) = <<"lifecycle">>
               /\ <<op, "lifecycle">> # <<>>
               /\ <<op, "lifecycle">> # <<"lifecycle">>
    /\ Head(<<"lifecycle">>) = "lifecycle" /\ Tail(<<"lifecycle">>) = <<>>
    /\ <<"lifecycle">> # <<>>
    /\ Head(<<"transmit", "receive", "lifecycle">>) = "transmit"
    /\ Tail(<<"transmit", "receive", "lifecycle">>) = <<"receive", "lifecycle">>
    /\ <<"transmit", "receive", "lifecycle">> # <<>>
    /\ <<"transmit", "receive", "lifecycle">> # <<"receive", "lifecycle">>
    /\ <<"transmit", "receive", "lifecycle">> # <<"lifecycle">>
    /\ <<"receive", "lifecycle">> # <<>> /\ <<"receive", "lifecycle">> # <<"lifecycle">>
  OBVIOUS

LEMMA SockInitial == Socket!Init => SockInv
  <1> SUFFICES ASSUME Socket!Init PROVE SockInv
    OBVIOUS
  <1> USE DEF Socket!Init, Socket!Idle, Socket!None, Socket!Mutexes
  <1>1. SockTypes
    BY DEF SockTypes, SockCall
  <1>2. \A t \in Threads : SockShape(sock_calls[t])
    BY DEF SockShape
  <1>3. SockMutexes
    BY DEF SockMutexes, SockHolds
  <1>4. SockCopies /\ SockUser
    BY DEF SockCopies, SockUser
  <1> QED BY <1>1, <1>2, <1>3, <1>4 DEF SockInv

\* A step of one thread that keeps to its shape, its mutexes and its socket
\* keeps the invariant, if it takes no mutex and no socket of another.
LEMMA SockThread ==
    ASSUME SockInv, NEW t \in Threads, NEW c \in SockCall,
           sock_calls' = [sock_calls EXCEPT ![t] = c], SockShape(c),
           sock_owner' \in [Socket!Mutexes -> Threads \cup {"nobody"}],
           \A m \in Socket!Mutexes : \/ sock_owner'[m] = sock_owner[m]
                                     \/ sock_owner[m] \in {t, "nobody"},
           \A m \in Socket!Mutexes : SockHolds(c, m) => sock_owner'[m] = t
    PROVE  /\ sock_calls' \in [Threads -> SockCall]
           /\ sock_calls'[t] = c
           /\ \A u \in Threads \ {t} : sock_calls'[u] = sock_calls[u]
           /\ \A u \in Threads : SockShape(sock_calls'[u])
           /\ SockMutexes'
  <1> USE ConstantsAssumption DEF ConstantsAssumption
  <1>1. /\ sock_calls' \in [Threads -> SockCall]
        /\ sock_calls'[t] = c
        /\ \A u \in Threads \ {t} : sock_calls'[u] = sock_calls[u]
    BY DEF SockInv, SockTypes
  <1>2. \A u \in Threads : SockShape(sock_calls'[u])
    BY <1>1 DEF SockInv
  <1>3. ASSUME NEW u \in Threads, NEW m \in Socket!Mutexes, SockHolds(sock_calls'[u], m)
        PROVE  sock_owner'[m] = u
    <2>1. CASE u = t
      BY <2>1, <1>1, <1>3
    <2>2. CASE u # t
      <3>1. sock_owner[m] = u
        BY <2>2, <1>1, <1>3 DEF SockInv, SockMutexes
      <3> QED BY <3>1, <2>2
    <2> QED BY <2>1, <2>2
  <1> QED BY <1>1, <1>2, <1>3 DEF SockMutexes

LEMMA SockCallStep ==
    ASSUME SockInv, NEW t \in Threads, NEW op \in {"start", "stop", "transmit", "receive"},
           Socket!Call(t, op)
    PROVE  SockInv'
  <1> DEFINE c == [sock_calls[t] EXCEPT !.op = op, !.at = "entered", !.needs = Socket!MutexOrder(op)]
  <1> USE DEF Socket!Idle, Socket!None
  <1>1. sock_calls[t] \in SockCall /\ sock_calls \in [Threads -> SockCall] /\ sock_calls[t] = Socket!Idle
    BY DEF SockInv, SockTypes, Socket!Call
  <1>2. /\ sock_calls' = [sock_calls EXCEPT ![t] = c]
        /\ UNCHANGED <<sock_owner, sock_m_socket, sock_user>>
    BY <1>1 DEF Socket!Call, SockCall
  <1>3. /\ Socket!MutexOrder(op) \in Seq(Socket!Mutexes)
        /\ Socket!MutexOrder(op) \in SockNeeds(op)
        /\ Socket!MutexOrder(op) # <<>>
        /\ op = "stop" => Socket!MutexOrder(op) = <<"transmit", "receive", "lifecycle">>
        /\ op \in {"transmit", "receive"} => Socket!MutexOrder(op) = <<op, "lifecycle">>
    <2>1. CASE op = "start"
      BY <2>1, SockTails DEF Socket!MutexOrder, SockNeeds, Socket!Mutexes
    <2>2. CASE op = "stop"
      BY <2>2, SockTails DEF Socket!MutexOrder, SockNeeds, Socket!Mutexes
    <2>3. CASE op \in {"transmit", "receive"}
      <3>1. Socket!MutexOrder(op) = <<op, "lifecycle">>
        BY <2>3 DEF Socket!MutexOrder
      <3>2. <<op, "lifecycle">> \in SockNeeds(op)
        BY <2>3 DEF SockNeeds
      <3>3. <<op, "lifecycle">> \in Seq(Socket!Mutexes)
        BY <2>3 DEF Socket!Mutexes
      <3> QED BY <2>3, <3>1, <3>2, <3>3, SockTails
    <2> QED BY <2>1, <2>2, <2>3
  <1>4. c \in SockCall /\ SockShape(c) /\ c.socket = 0 /\ c.op = op /\ c.at = "entered"
    <2>1. c.socket = 0 /\ c.op = op /\ c.at = "entered" /\ c.needs = Socket!MutexOrder(op)
      BY <1>1 DEF SockCall
    <2>2. c \in SockCall
      BY <1>1, <1>3 DEF SockCall
    <2> HIDE DEF c
    <2> QED BY <2>1, <2>2, <1>3 DEF SockShape
  <1>5. \A m \in Socket!Mutexes : ~SockHolds(c, m)
    BY ZenonT(30), <1>3, <1>4, <1>1, SockTails DEF SockHolds, Socket!Mutexes, SockCall
  <1> HIDE DEF c
  <1>6. /\ sock_calls' \in [Threads -> SockCall]
        /\ sock_calls'[t] = c
        /\ \A u \in Threads \ {t} : sock_calls'[u] = sock_calls[u]
        /\ \A u \in Threads : SockShape(sock_calls'[u])
        /\ SockMutexes'
    BY <1>2, <1>4, <1>5, SockThread DEF SockInv, SockTypes
  <1>7. SockTypes' BY <1>2, <1>6 DEF SockInv, SockTypes
  <1>8. SockCopies' BY <1>1, <1>2, <1>4, <1>6 DEF SockInv, SockCopies
  <1>9. SockUser' BY <1>1, <1>2, <1>4, <1>6 DEF SockInv, SockUser
  <1> QED BY <1>6, <1>7, <1>8, <1>9 DEF SockInv

LEMMA SockAcquireStep ==
    ASSUME SockInv, NEW t \in Threads, Socket!Acquire(t)
    PROVE  SockInv'
  <1> DEFINE m == Head(sock_calls[t].needs)
             c == [sock_calls[t] EXCEPT !.needs = Tail(@)]
  <1> USE DEF Socket!None
  <1>1. /\ sock_calls[t] \in SockCall /\ sock_calls \in [Threads -> SockCall]
        /\ sock_calls[t].needs # <<>> /\ sock_owner[m] = "nobody"
    BY DEF SockInv, SockTypes, Socket!Acquire
  <1>2. /\ sock_calls' = [sock_calls EXCEPT ![t] = c]
        /\ sock_owner' = [sock_owner EXCEPT ![m] = t]
        /\ UNCHANGED <<sock_m_socket, sock_user>>
    BY <1>1 DEF Socket!Acquire, SockCall
  <1>3. sock_calls[t].at = "entered" /\ sock_calls[t].needs \in SockNeeds(sock_calls[t].op)
    BY <1>1 DEF SockInv, SockShape
  <1>. DEFINE needs == sock_calls[t].needs
             op == sock_calls[t].op
  <1>4. \/ op = "stop" /\ needs = <<"transmit", "receive", "lifecycle">>
        \/ op \in {"stop", "receive"} /\ needs = <<"receive", "lifecycle">>
        \/ op = "transmit" /\ needs = <<"transmit", "lifecycle">>
        \/ op \in {"start", "stop", "transmit", "receive"} /\ needs = <<"lifecycle">>
    <2>1. op \in {"start", "stop", "transmit", "receive"}
      BY <1>1, <1>3 DEF SockCall, SockShape, SockInv
    <2> QED BY <1>1, <1>3, <2>1 DEF SockNeeds
  <1>5. /\ c \in SockCall /\ SockShape(c) /\ c.at = "entered" /\ c.socket = 0
        /\ c.needs = Tail(needs) /\ c.op = op /\ m \in Socket!Mutexes
    <2>1. c.socket = 0 /\ c.op = op /\ c.at = "entered" /\ c.needs = Tail(needs)
      <3>1. sock_calls[t].socket = 0 BY <1>3 DEF SockShape, SockInv
      <3> QED BY <1>1, <1>3, <3>1 DEF SockCall
    <2>2. /\ Tail(needs) \in Seq(Socket!Mutexes)
          /\ Tail(needs) \in SockNeeds(op)
          /\ m \in Socket!Mutexes
      <3>1. CASE op = "stop" /\ needs = <<"transmit", "receive", "lifecycle">>
        BY <3>1, SockTails DEF SockNeeds, Socket!Mutexes
      <3>2. CASE op \in {"stop", "receive"} /\ needs = <<"receive", "lifecycle">>
        BY <3>2, SockTails DEF SockNeeds, Socket!Mutexes
      <3>3. CASE op = "transmit" /\ needs = <<"transmit", "lifecycle">>
        BY <3>3, SockTails DEF SockNeeds, Socket!Mutexes
      <3>4. CASE op \in {"start", "stop", "transmit", "receive"} /\ needs = <<"lifecycle">>
        BY <3>4, SockTails DEF SockNeeds, Socket!Mutexes
      <3> QED BY <1>4, <3>1, <3>2, <3>3, <3>4
    <2>3. op # "none" /\ op \in {"none", "start", "stop", "transmit", "receive"}
      BY <1>4
    <2>4. c \in SockCall BY <1>1, <2>2 DEF SockCall
    <2> HIDE DEF c
    <2> QED BY <2>1, <2>2, <2>3, <2>4 DEF SockShape
  <1>6. ASSUME NEW k \in Socket!Mutexes, SockHolds(c, k), k # m
        PROVE  SockHolds(sock_calls[t], k)
    <2> HIDE DEF c
    <2>1. CASE op = "stop" /\ needs = <<"transmit", "receive", "lifecycle">>
      BY <2>1, <1>3, <1>5, <1>6, SockTails DEF SockHolds, Socket!Mutexes
    <2>2. CASE op \in {"stop", "receive"} /\ needs = <<"receive", "lifecycle">>
      <3>1. c.needs = <<"lifecycle">> /\ m = "receive"
        BY <2>2, <1>5, SockTails
      <3>2. k = "transmit" \/ k = "lifecycle"
        BY <3>1, <1>6 DEF Socket!Mutexes
      <3>3. k # "lifecycle"
        BY <3>1, <1>5, <1>6, SockTails DEF SockHolds
      <3> QED BY <3>1, <3>2, <3>3, <2>2, <1>3, <1>5, <1>6, SockTails DEF SockHolds
    <2>3. CASE op = "transmit" /\ needs = <<"transmit", "lifecycle">>
      <3>1. c.needs = <<"lifecycle">> /\ m = "transmit"
        BY <2>3, <1>5, SockTails
      <3>2. k = "receive" \/ k = "lifecycle"
        BY <3>1, <1>6 DEF Socket!Mutexes
      <3>3. k # "lifecycle"
        BY <3>1, <1>5, <1>6, SockTails DEF SockHolds
      <3> QED BY <3>1, <3>2, <3>3, <2>3, <1>3, <1>5, <1>6, SockTails DEF SockHolds
    <2>4. CASE op \in {"start", "stop", "transmit", "receive"} /\ needs = <<"lifecycle">>
      BY <2>4, <1>3, <1>5, <1>6, SockTails DEF SockHolds, Socket!Mutexes
    <2> QED BY <1>4, <2>1, <2>2, <2>3, <2>4
  <1> HIDE DEF c, m
  <1>7. \A k \in Socket!Mutexes : SockHolds(c, k) => sock_owner'[k] = t
    BY <1>2, <1>5, <1>6 DEF SockInv, SockMutexes, SockTypes
  <1>8. /\ sock_calls' \in [Threads -> SockCall]
        /\ sock_calls'[t] = c
        /\ \A u \in Threads \ {t} : sock_calls'[u] = sock_calls[u]
        /\ \A u \in Threads : SockShape(sock_calls'[u])
        /\ SockMutexes'
    BY <1>1, <1>2, <1>5, <1>7, SockThread DEF SockInv, SockTypes
  <1>9. SockTypes' BY <1>2, <1>5, <1>8 DEF SockInv, SockTypes
  <1>10. SockCopies' BY <1>2, <1>3, <1>5, <1>8 DEF SockInv, SockCopies
  <1>11. SockUser' BY <1>2, <1>3, <1>5, <1>8 DEF SockInv, SockUser
  <1> QED BY <1>8, <1>9, <1>10, <1>11 DEF SockInv

\* A call that ends gives its mutexes back.
LEMMA SockReturns ==
    ASSUME SockInv, NEW t \in Threads, Socket!Returns(t)
    PROVE  /\ sock_calls' \in [Threads -> SockCall]
           /\ sock_owner' \in [Socket!Mutexes -> Threads \cup {"nobody"}]
           /\ sock_calls'[t].at = "idle"
           /\ \A u \in Threads \ {t} : sock_calls'[u] = sock_calls[u]
           /\ \A u \in Threads : SockShape(sock_calls'[u])
           /\ SockMutexes'
  <1> DEFINE c == Socket!Idle
  <1>1. sock_calls' = [sock_calls EXCEPT ![t] = c] /\ sock_owner' = Socket!Free(t, Socket!Mutexes)
    BY DEF Socket!Returns
  <1>2. c \in SockCall /\ SockShape(c) /\ c.at = "idle"
    BY DEF SockCall, SockShape, Socket!Idle, Socket!None, Socket!Mutexes
  <1>3. \A m \in Socket!Mutexes : ~SockHolds(c, m)
    BY DEF SockHolds, Socket!Idle, Socket!Mutexes
  <1>4. /\ sock_owner' \in [Socket!Mutexes -> Threads \cup {"nobody"}]
        /\ \A m \in Socket!Mutexes : \/ sock_owner'[m] = sock_owner[m]
                                     \/ sock_owner[m] \in {t, "nobody"}
    BY <1>1 DEF Socket!Free, SockInv, SockTypes
  <1> HIDE DEF c
  <1> QED BY <1>1, <1>2, <1>3, <1>4, SockThread

\* A call that has its mutexes goes on, with or without the lifecycle mutex.
LEMMA SockGoes ==
    ASSUME SockInv, NEW t \in Threads, sock_calls[t].needs = <<>>,
           NEW where \in {"configures", "closes", "polls", "transfers"},
           NEW s \in Numbers \cup {0}, Socket!Goes(t, where, s),
           where = "configures" => sock_calls[t].op = "start",
           where = "closes" => sock_calls[t].op = "stop",
           where \in {"configures", "closes"} => sock_calls[t].at = "entered" /\ UNCHANGED sock_owner,
           where \in {"polls", "transfers"} =>
               /\ sock_calls[t].op \in {"transmit", "receive"}
               /\ sock_calls[t].at \in {"entered", "polls", "transfers"}
               /\ \/ UNCHANGED sock_owner
                  \/ sock_owner' = Socket!Free(t, {"lifecycle"})
    PROVE  /\ sock_calls' \in [Threads -> SockCall]
           /\ sock_owner' \in [Socket!Mutexes -> Threads \cup {"nobody"}]
           /\ sock_calls'[t].at = where /\ sock_calls'[t].socket = s
           /\ \A u \in Threads \ {t} : sock_calls'[u] = sock_calls[u]
           /\ \A u \in Threads : SockShape(sock_calls'[u])
           /\ SockMutexes'
  <1> DEFINE c == [sock_calls[t] EXCEPT !.at = where, !.socket = s]
  <1>1. sock_calls[t] \in SockCall /\ sock_calls \in [Threads -> SockCall]
    BY DEF SockInv, SockTypes
  <1>2. sock_calls' = [sock_calls EXCEPT ![t] = c]
    BY <1>1 DEF Socket!Goes, SockCall
  <1>3. c.op = sock_calls[t].op /\ c.at = where /\ c.socket = s /\ c.needs = <<>> /\ c \in SockCall
    BY <1>1 DEF SockCall
  <1> HIDE DEF c
  <1>4. SockShape(c)
    BY <1>3 DEF SockShape
  <1>5. /\ sock_owner' \in [Socket!Mutexes -> Threads \cup {"nobody"}]
        /\ \A m \in Socket!Mutexes : \/ sock_owner'[m] = sock_owner[m]
                                     \/ sock_owner[m] \in {t, "nobody"}
        /\ \A m \in Socket!Mutexes : m # "lifecycle" => sock_owner'[m] = sock_owner[m]
    BY DEF Socket!Free, SockInv, SockTypes
  <1>6. ASSUME NEW m \in Socket!Mutexes, SockHolds(c, m) PROVE sock_owner'[m] = t
    <2>1. SockHolds(sock_calls[t], m)
      <3>1. CASE m = "lifecycle"
        BY <3>1, <1>6, <1>3, SockTails DEF SockHolds
      <3>2. CASE m = "transmit"
        BY <3>2, <1>6, <1>3, SockTails DEF SockHolds
      <3>3. CASE m = "receive"
        BY <3>3, <1>6, <1>3, SockTails DEF SockHolds
      <3> QED BY <3>1, <3>2, <3>3 DEF Socket!Mutexes
    <2>2. sock_owner[m] = t
      BY <2>1 DEF SockInv, SockMutexes
    <2>3. m = "lifecycle" => UNCHANGED sock_owner
      BY <1>3, <1>6, SockTails DEF SockHolds
    <2> QED BY <2>2, <2>3, <1>5
  <1> QED BY <1>2, <1>3, <1>4, <1>5, <1>6, SockThread

\* Who has the lifecycle mutex, alone, is the only one between opening and
\* closing; who has all three, no transfer is under way.
LEMMA SockAlone ==
    ASSUME SockInv, NEW t \in Threads, SockHolds(sock_calls[t], "lifecycle"),
           NEW u \in Threads \ {t}
    PROVE  /\ sock_calls[u].at \notin {"configures", "closes"}
           /\ (/\ SockHolds(sock_calls[t], "transmit")
               /\ SockHolds(sock_calls[t], "receive")) => sock_calls[u].at \notin {"polls", "transfers"}
  <1>1. \A m \in Socket!Mutexes : ~(SockHolds(sock_calls[t], m) /\ SockHolds(sock_calls[u], m))
    BY DEF SockInv, SockMutexes
  <1>2. sock_calls[u].at \notin {"configures", "closes"}
    BY <1>1 DEF SockHolds, Socket!Mutexes
  <1>3. ASSUME sock_calls[u].at \in {"polls", "transfers"}
        PROVE  SockHolds(sock_calls[u], "transmit") \/ SockHolds(sock_calls[u], "receive")
    BY <1>3 DEF SockHolds, SockInv, SockShape
  <1> QED BY <1>1, <1>2, <1>3 DEF Socket!Mutexes

LEMMA SockStartStep ==
    ASSUME SockInv, NEW t \in Threads, Socket!Start(t)
    PROVE  SockInv'
  <1> USE DEF Socket!None
  <1>1. /\ sock_calls[t].op = "start" /\ sock_calls[t].at = "entered" /\ sock_calls[t].needs = <<>>
        /\ UNCHANGED sock_m_socket
    BY DEF Socket!Start, Socket!At
  <1>2. CASE Socket!Returns(t) /\ UNCHANGED sock_user
    <2>1. SockTypes' BY <1>1, <1>2, SockReturns DEF SockInv, SockTypes
    <2>2. SockCopies' BY <1>1, <1>2, SockReturns DEF SockInv, SockCopies
    <2>3. SockUser' BY <1>1, <1>2, SockReturns DEF SockInv, SockUser
    <2> QED BY <2>1, <2>2, <2>3, <1>2, SockReturns DEF SockInv
  <1>3. CASE /\ sock_m_socket = 0
             /\ Socket!Opened(Socket!Lowest, "driver")
             /\ Socket!Goes(t, "configures", Socket!Lowest)
             /\ UNCHANGED sock_owner
    <2> DEFINE n == Socket!Lowest
    <2>1. n \in Numbers /\ sock_user[n] = "closed" /\ sock_user' = [sock_user EXCEPT ![n] = "driver"]
      BY <1>3 DEF Socket!Opened
    <2>2. Socket!Goes(t, "configures", n)
      BY <1>3
    <2> HIDE DEF n
    <2>3. /\ sock_calls' \in [Threads -> SockCall]
          /\ sock_calls'[t].at = "configures" /\ sock_calls'[t].socket = n
          /\ \A u \in Threads \ {t} : sock_calls'[u] = sock_calls[u]
          /\ \A u \in Threads : SockShape(sock_calls'[u])
          /\ SockMutexes'
      BY <1>1, <1>3, <2>1, <2>2, SockGoes
    <2>4. SockTypes' BY <1>1, <1>3, <2>1, <2>3 DEF SockInv, SockTypes
    <2>5. SockHolds(sock_calls[t], "lifecycle")
      BY <1>1 DEF SockHolds
    <2>6. \A u \in Threads \ {t} : sock_calls[u].at \notin {"configures", "closes", "polls", "transfers"}
      BY <2>5, <1>3, SockAlone DEF SockInv, SockCopies
    <2>7. SockCopies'
      BY <1>1, <1>3, <2>1, <2>3, <2>6, ConstantsAssumption
      DEF SockInv, SockCopies, SockTypes, ConstantsAssumption
    <2>8. SockUser'
      BY <1>1, <1>3, <2>1, <2>3, <2>6 DEF SockInv, SockUser, SockTypes
    <2> QED BY <2>3, <2>4, <2>7, <2>8 DEF SockInv
  <1> QED BY <1>2, <1>3 DEF Socket!Start

LEMMA SockConfigureStep ==
    ASSUME SockInv, NEW t \in Threads, Socket!Configure(t)
    PROVE  SockInv'
  <1> USE ConstantsAssumption DEF ConstantsAssumption
  <1>1. /\ sock_calls[t].at = "configures" /\ Socket!Returns(t)
        /\ \/ sock_m_socket' = sock_calls[t].socket /\ UNCHANGED sock_user
           \/ sock_user' = [sock_user EXCEPT ![sock_calls[t].socket] = "closed"] /\ UNCHANGED sock_m_socket
    BY DEF Socket!Configure, Socket!At
  <1>2. /\ sock_calls[t].socket \in Numbers /\ sock_user[sock_calls[t].socket] = "driver"
        /\ sock_m_socket = 0
    BY <1>1 DEF SockInv, SockCopies
  <1>3. \A u \in Threads \ {t} : sock_calls[u].at \notin {"configures", "closes", "polls", "transfers"}
    <2>1. SockHolds(sock_calls[t], "lifecycle") BY <1>1 DEF SockHolds
    <2> QED BY <2>1, <1>2, SockAlone DEF SockInv, SockCopies
  <1>4. SockTypes' BY <1>1, <1>2, SockReturns DEF SockInv, SockTypes
  <1>5. SockCopies' BY <1>1, <1>3, SockReturns DEF SockCopies
  <1>6. SockUser' BY <1>1, <1>2, <1>3, SockReturns DEF SockInv, SockUser, SockTypes
  <1> QED BY <1>1, <1>4, <1>5, <1>6, SockReturns DEF SockInv

LEMMA SockStopStep ==
    ASSUME SockInv, NEW t \in Threads, Socket!Stop(t)
    PROVE  SockInv'
  <1> USE ConstantsAssumption DEF ConstantsAssumption, Socket!None
  <1>1. /\ sock_calls[t].op = "stop" /\ sock_calls[t].at = "entered" /\ sock_calls[t].needs = <<>>
        /\ sock_m_socket' = 0 /\ UNCHANGED sock_user
    BY DEF Socket!Stop, Socket!At
  <1>2. CASE sock_m_socket = 0
    <2>1. Socket!Returns(t) BY <1>2 DEF Socket!Stop
    <2>2. SockTypes' BY <1>1, <1>2, <2>1, SockReturns DEF SockInv, SockTypes
    <2>3. SockCopies' BY <1>1, <1>2, <2>1, SockReturns DEF SockInv, SockCopies
    <2>4. SockUser' BY <1>1, <1>2, <2>1, SockReturns DEF SockInv, SockUser
    <2> QED BY <2>1, <2>2, <2>3, <2>4, SockReturns DEF SockInv
  <1>3. CASE sock_m_socket # 0
    <2>1. /\ Socket!Goes(t, "closes", sock_m_socket) /\ UNCHANGED sock_owner
          /\ sock_m_socket \in Numbers /\ sock_user[sock_m_socket] = "driver"
      BY <1>3 DEF Socket!Stop, SockInv, SockTypes, SockUser
    <2>2. /\ sock_calls' \in [Threads -> SockCall]
          /\ sock_calls'[t].at = "closes" /\ sock_calls'[t].socket = sock_m_socket
          /\ \A u \in Threads \ {t} : sock_calls'[u] = sock_calls[u]
          /\ \A u \in Threads : SockShape(sock_calls'[u])
          /\ SockMutexes'
      BY <1>1, <2>1, SockGoes
    <2>3. /\ SockHolds(sock_calls[t], "lifecycle") /\ SockHolds(sock_calls[t], "transmit")
          /\ SockHolds(sock_calls[t], "receive")
      BY <1>1 DEF SockHolds
    <2>4. \A u \in Threads \ {t} : sock_calls[u].at \notin {"configures", "closes", "polls", "transfers"}
      BY <2>3, SockAlone
    <2>5. SockTypes' BY <1>1, <2>1, <2>2 DEF SockInv, SockTypes
    <2>6. SockCopies' BY <1>1, <2>1, <2>2, <2>4 DEF SockCopies
    <2>7. SockUser' BY <1>1, <2>1, <2>2, <2>4 DEF SockInv, SockUser
    <2> QED BY <2>2, <2>5, <2>6, <2>7 DEF SockInv
  <1> QED BY <1>2, <1>3

LEMMA SockCloseStep ==
    ASSUME SockInv, NEW t \in Threads, Socket!Close(t)
    PROVE  SockInv'
  <1> USE ConstantsAssumption DEF ConstantsAssumption
  <1>1. /\ sock_calls[t].at = "closes" /\ Socket!Returns(t) /\ UNCHANGED sock_m_socket
        /\ sock_user' = [sock_user EXCEPT ![sock_calls[t].socket] = "closed"]
    BY DEF Socket!Close, Socket!At
  <1>2. sock_calls[t].socket \in Numbers /\ sock_m_socket = 0
    BY <1>1 DEF SockInv, SockCopies
  <1>3. \A u \in Threads \ {t} : sock_calls[u].at \notin {"configures", "closes", "polls", "transfers"}
    <2>1. SockHolds(sock_calls[t], "lifecycle") BY <1>1 DEF SockHolds
    <2> QED BY <2>1, <1>2, SockAlone DEF SockInv, SockCopies
  <1>4. SockTypes' BY <1>1, <1>2, SockReturns DEF SockInv, SockTypes
  <1>5. SockCopies' BY <1>1, <1>3, SockReturns DEF SockCopies
  <1>6. SockUser' BY <1>1, <1>2, <1>3, SockReturns DEF SockInv, SockUser, SockTypes
  <1> QED BY <1>1, <1>4, <1>5, <1>6, SockReturns DEF SockInv

\* CopySocket, Poll and Transfer: a transfer goes on with the same socket or
\* returns, and changes neither m_socket nor a descriptor.
LEMMA SockTransferStep ==
    ASSUME SockInv, NEW t \in Threads,
           Socket!CopySocket(t) \/ Socket!Poll(t) \/ Socket!Transfer(t)
    PROVE  SockInv'
  <1> USE DEF Socket!None
  <1>1. /\ sock_calls[t].op \in {"transmit", "receive"} /\ sock_calls[t].needs = <<>>
        /\ sock_calls[t].at \in {"entered", "polls", "transfers"}
        /\ UNCHANGED <<sock_m_socket, sock_user>>
    BY DEF Socket!CopySocket, Socket!Poll, Socket!Transfer, Socket!At
  <1>2. CASE Socket!Returns(t)
    <2>1. SockTypes' BY <1>1, <1>2, SockReturns DEF SockInv, SockTypes
    <2>2. SockCopies' BY <1>1, <1>2, SockReturns DEF SockInv, SockCopies
    <2>3. SockUser' BY <1>1, <1>2, SockReturns DEF SockInv, SockUser
    <2> QED BY <2>1, <2>2, <2>3, <1>2, SockReturns DEF SockInv
  <1>3. ASSUME NEW where \in {"polls", "transfers"}, Socket!Goes(t, where, sock_m_socket),
               sock_m_socket # 0,
               UNCHANGED sock_owner \/ sock_owner' = Socket!Free(t, {"lifecycle"})
        PROVE  SockInv'
    <2>1. /\ sock_calls' \in [Threads -> SockCall]
          /\ sock_owner' \in [Socket!Mutexes -> Threads \cup {"nobody"}]
          /\ sock_calls'[t].at = where /\ sock_calls'[t].socket = sock_m_socket
          /\ \A u \in Threads \ {t} : sock_calls'[u] = sock_calls[u]
          /\ \A u \in Threads : SockShape(sock_calls'[u])
          /\ SockMutexes'
      BY <1>1, <1>3, SockGoes DEF SockInv, SockTypes
    <2>2. SockTypes' BY <1>1, <2>1 DEF SockInv, SockTypes
    <2>3. SockCopies' BY <1>1, <1>3, <2>1 DEF SockInv, SockCopies
    <2>4. SockUser' BY <1>1, <2>1 DEF SockInv, SockUser
    <2> QED BY <2>1, <2>2, <2>3, <2>4 DEF SockInv
  <1>4. CASE Socket!CopySocket(t)
    BY <1>2, <1>3, <1>4 DEF Socket!CopySocket
  <1>5. CASE Socket!Poll(t)
    <2>1. sock_calls[t].socket = sock_m_socket /\ sock_m_socket # 0
      BY <1>5 DEF Socket!Poll, Socket!At, SockInv, SockCopies
    <2> QED BY <2>1, <1>2, <1>3, <1>5 DEF Socket!Poll
  <1>6. CASE Socket!Transfer(t)
    <2>1. sock_calls[t].socket = sock_m_socket /\ sock_m_socket # 0
      BY <1>6 DEF Socket!Transfer, Socket!At, SockInv, SockCopies
    <2> QED BY <2>1, <1>2, <1>3, <1>6 DEF Socket!Transfer
  <1> QED BY <1>4, <1>5, <1>6

LEMMA SockOtherStep ==
    ASSUME SockInv, Socket!OtherOpens \/ \E n \in Numbers : Socket!OtherCloses(n)
    PROVE  SockInv'
  <1>1. PICK n \in Numbers : /\ sock_user[n] # "driver"
                             /\ \/ sock_user' = [sock_user EXCEPT ![n] = "other"]
                                \/ sock_user' = [sock_user EXCEPT ![n] = "closed"]
    BY DEF Socket!OtherOpens, Socket!Opened, Socket!OtherCloses
  <1>2. UNCHANGED <<sock_calls, sock_owner, sock_m_socket>>
    BY DEF Socket!OtherOpens, Socket!OtherCloses
  <1>3. SockTypes' BY <1>1, <1>2 DEF SockInv, SockTypes
  <1>4. \A k \in Numbers : sock_user'[k] = "driver" <=> sock_user[k] = "driver"
    BY <1>1 DEF SockInv, SockTypes
  <1>5. SockMutexes' BY <1>2 DEF SockInv, SockMutexes
  <1>6. SockCopies' BY <1>2, <1>4 DEF SockInv, SockCopies
  <1>7. SockUser' BY <1>2, <1>4 DEF SockInv, SockUser, SockTypes
  <1> QED BY <1>2, <1>3, <1>5, <1>6, <1>7 DEF SockInv

LEMMA SockStep == SockInv /\ [Socket!Next]_sock_vars => SockInv'
  <1> SUFFICES ASSUME SockInv, [Socket!Next]_sock_vars PROVE SockInv'
    OBVIOUS
  <1>1. CASE UNCHANGED sock_vars
    BY <1>1 DEF sock_vars, SockInv, SockTypes, SockMutexes, SockCopies, SockUser
  <1>2. CASE Socket!Next
    BY <1>2, SockCallStep, SockAcquireStep, SockStartStep, SockConfigureStep, SockStopStep,
       SockCloseStep, SockTransferStep, SockOtherStep DEF Socket!Next
  <1> QED BY <1>1, <1>2

LEMMA SockSafe == SockInv => SocketIsOurs
  <1> SUFFICES ASSUME SockInv PROVE SocketIsOurs
    OBVIOUS
  <1> USE DEF Socket!None
  <1>1. ASSUME NEW t \in Threads, sock_calls[t].socket # 0
        PROVE  sock_user[sock_calls[t].socket] = "driver"
    <2>1. sock_calls[t].at \in {"configures", "closes", "polls", "transfers"}
      BY <1>1 DEF SockInv, SockShape, SockTypes, SockCall
    <2> QED BY <2>1 DEF SockInv, SockCopies, SockUser
  <1>2. ASSUME NEW n \in Numbers, sock_user[n] = "driver"
        PROVE  n = sock_m_socket \/ \E t \in Threads :
                   sock_calls[t].socket = n /\ sock_calls[t].op \in {"start", "stop"}
    BY <1>2 DEF SockInv, SockUser, SockShape
  <1> QED BY <1>1, <1>2 DEF SocketIsOurs, Socket!SocketIsOurs

\* linux/Ethernet.cpp: no system call goes to a number that was closed or
\* belongs to somebody else, and no socket leaks, for any number of threads
\* and descriptors.
THEOREM SocketIsOursHolds == Spec => []SocketIsOurs
  <1>1. Init => SockInv
    BY SockInitial DEF Init
  <1>2. SockInv /\ [Next]_vars => SockInv'
    BY SockStep DEF Next, vars, sock_vars
  <1>3. SockInv => SocketIsOurs
    BY SockSafe
  <1> QED BY <1>1, <1>2, <1>3, PTL DEF Spec, vars

-----------------------------------------------------------------------------
(* stm32/Gpio.cpp and its factory.                                          *)

\* The steps of the constructor and of the destructor of an edge input, and
\* those between which its group is silent.
GpioBuilds == {"silences", "registers", "inits", "clears", "enables"}
GpioDestroys == {"disables", "deinits", "forgets", "restores"}
GpioSilent == (GpioBuilds \cup GpioDestroys) \ {"silences", "disables"}
GpioOwned == GpioDestroys \cup {"drops", "releases", "swaps"}
GpioInside == GpioBuilds \cup GpioDestroys \cup {"claims", "releases"}
GpioJob == [does : GpioInside \cup {"nothing", "asks", "drops", "swaps"},
            pin : Pins \cup {Gpio!NoPin}, edge : BOOLEAN]
GpioTypes ==
    /\ gpio_jobs \in [Threads -> GpioJob]
    /\ gpio_factory \in Threads \cup {"nobody"} /\ gpio_masked \in Threads \cup {"nobody"}
    /\ gpio_claimed \subseteq Pins /\ gpio_edge \subseteq gpio_claimed
    /\ gpio_registry \in [Gpio!Lines -> Pins \cup {Gpio!NoPin}]
    /\ gpio_detecting \subseteq Gpio!Lines /\ gpio_flags \subseteq Gpio!Lines
    /\ gpio_enabled \subseteq Gpio!Groups
    /\ gpio_callback \in [Pins -> {"none", "set", "torn"}]
\* Who is in the factory or in an InterruptGuard, and with what kind of pin.
GpioAt(job, t) ==
    /\ job.does = "nothing" => job = Gpio!Idle
    /\ job.does # "nothing" => job.pin \in Pins
    /\ job.does \in GpioInside <=> gpio_factory = t
    /\ job.does = "swaps" <=> gpio_masked = t
    /\ job.does \in GpioBuilds \cup {"claims"} => job.pin \notin gpio_claimed
    /\ job.does \in GpioOwned => job.pin \in gpio_claimed /\ (job.edge <=> job.pin \in gpio_edge)
    /\ job.does \in GpioBuilds \cup GpioDestroys \cup {"swaps"} => job.edge
GpioJobs == \A t \in Threads : GpioAt(gpio_jobs[t], t)
\* Two threads that are past asking work on different pins.
GpioApart ==
    \A t, u \in Threads :
        t # u /\ gpio_jobs[t].does \notin {"nothing", "asks"}
              /\ gpio_jobs[u].does \notin {"nothing", "asks"} => gpio_jobs[t].pin # gpio_jobs[u].pin
\* The registry has the inputs that exist, but not one that is forgotten, and
\* the one that is being constructed.
GpioListed(p) ==
    \/ /\ p \in gpio_edge
       /\ \A t \in Threads : gpio_jobs[t].pin = p => gpio_jobs[t].does \notin {"restores", "releases"}
    \/ \E t \in Threads : /\ gpio_jobs[t].pin = p /\ gpio_jobs[t].edge
                          /\ gpio_jobs[t].does \in {"inits", "clears", "enables", "claims"}
GpioRegistry ==
    /\ \A l \in Gpio!Lines : gpio_registry[l] # Gpio!NoPin => gpio_registry[l].number = l
    /\ \A p \in Pins : gpio_registry[p.number] = p <=> GpioListed(p)
    /\ \A t \in Threads : gpio_jobs[t].does \in {"silences", "registers"} =>
           gpio_registry[gpio_jobs[t].pin.number] = Gpio!NoPin
\* Only lines of registered inputs detect edges or have a flag.
GpioFlags ==
    /\ \A l \in gpio_detecting \cup gpio_flags : gpio_registry[l] # Gpio!NoPin
    /\ \A t \in Threads : gpio_jobs[t].does = "forgets" =>
           gpio_jobs[t].pin.number \notin gpio_detecting
\* A group is enabled if one of its lines is registered, but not while the
\* factory works on one of its lines.
GpioGroups ==
    \A g \in Gpio!Groups :
        g \in gpio_enabled <=>
            /\ \E l \in Gpio!Lines : gpio_registry[l] # Gpio!NoPin /\ Gpio!interrupt_for(l) = g
            /\ \A t \in Threads : gpio_jobs[t].does \in GpioSilent =>
                   Gpio!interrupt_for(gpio_jobs[t].pin.number) # g
GpioTorn ==
    \A p \in Pins : gpio_callback[p] = "torn" =>
        \E t \in Threads : gpio_jobs[t].pin = p /\ gpio_jobs[t].does = "swaps"
GpioInv == /\ GpioTypes /\ GpioJobs /\ GpioApart
           /\ GpioRegistry /\ GpioFlags /\ GpioGroups /\ GpioTorn

LEMMA GpioInitial == Gpio!Init => GpioInv
  <1> SUFFICES ASSUME Gpio!Init PROVE GpioInv
    OBVIOUS
  <1> USE DEF Gpio!Init, Gpio!Idle, Gpio!Nobody
  <1>0. \A t \in Threads : gpio_jobs[t] = Gpio!Idle
    OBVIOUS
  <1>n. \A p \in Pins : p # Gpio!NoPin /\ p.number \in Gpio!Lines
    BY ConstantsAssumption DEF ConstantsAssumption, Gpio!NoPin, Gpio!Lines
  <1>1. GpioTypes
    BY DEF GpioTypes, GpioJob
  <1>2. GpioJobs
    BY ConstantsAssumption, <1>0
       DEF ConstantsAssumption, GpioJobs, GpioAt, GpioInside, GpioBuilds, GpioDestroys, GpioOwned
  <1>3. GpioApart
    BY <1>0 DEF GpioApart
  <1>4. GpioRegistry
    BY <1>0, <1>n DEF GpioRegistry, GpioListed
  <1>5. GpioFlags
    BY <1>0 DEF GpioFlags
  <1>6. GpioGroups
    BY <1>0 DEF GpioGroups, GpioSilent
  <1>7. GpioTorn
    BY DEF GpioTorn
  <1> QED BY <1>1, <1>2, <1>3, <1>4, <1>5, <1>6, <1>7 DEF GpioInv

LEMMA GpioPins == \A p \in Pins : /\ p # Gpio!NoPin
                                  /\ p.number \in Gpio!Lines /\ p.number \in 0 .. 15
                                  /\ Gpio!interrupt_for(p.number) \in Gpio!Groups
  BY ConstantsAssumption DEF ConstantsAssumption, Gpio!NoPin, Gpio!Lines, Gpio!Groups

\* Steps from one position under the factory's mutex to the next.
GpioSteps == {<<"silences", "registers">>, <<"registers", "inits">>, <<"inits", "clears">>,
              <<"clears", "enables">>, <<"enables", "claims">>, <<"disables", "deinits">>,
              <<"deinits", "forgets">>, <<"forgets", "restores">>, <<"restores", "releases">>}

\* Such a step is a step of the one thread in the factory, and leaves threads,
\* pins and callbacks in order.
LEMMA GpioWorks ==
    ASSUME GpioInv, NEW t \in Threads, NEW from, NEW to, <<from, to>> \in GpioSteps,
           Gpio!Does(t, from), Gpio!Becomes(t, to),
           UNCHANGED <<gpio_factory, gpio_claimed, gpio_edge, gpio_callback, gpio_masked>>
    PROVE  /\ gpio_jobs \in [Threads -> GpioJob] /\ gpio_jobs' \in [Threads -> GpioJob]
           /\ \A u \in Threads : u # t => /\ gpio_jobs'[u] = gpio_jobs[u]
                                          /\ gpio_jobs[u].does \notin GpioInside
           /\ gpio_jobs[t].does = from /\ gpio_jobs'[t].does = to
           /\ gpio_jobs'[t].pin = gpio_jobs[t].pin /\ gpio_jobs[t].pin \in Pins
           /\ gpio_jobs'[t].edge = gpio_jobs[t].edge /\ gpio_jobs[t].edge
           /\ GpioJobs' /\ GpioApart' /\ GpioTorn'
  <1> DEFINE job == gpio_jobs[t]
  <1>1. /\ gpio_jobs \in [Threads -> GpioJob]
        /\ gpio_jobs' = [gpio_jobs EXCEPT ![t].does = to]
        /\ job.does = from
    BY DEF Gpio!Does, Gpio!Becomes, GpioInv, GpioTypes
  <1>2. /\ from \in GpioBuilds \cup GpioDestroys
        /\ to \in GpioInside
        /\ from \in GpioBuilds => to \in GpioBuilds \cup {"claims"}
        /\ from \in GpioDestroys => to \in GpioDestroys \cup {"releases"}
    BY DEF GpioSteps, GpioBuilds, GpioDestroys, GpioInside
  <1>3. /\ gpio_jobs'[t].does = to /\ gpio_jobs'[t].pin = job.pin /\ gpio_jobs'[t].edge = job.edge
        /\ \A u \in Threads : u # t => gpio_jobs'[u] = gpio_jobs[u]
    BY <1>1 DEF GpioJob
  <1>4. gpio_jobs' \in [Threads -> GpioJob]
    BY <1>1, <1>2 DEF GpioJob
  <1>5. /\ GpioAt(job, t)
        /\ gpio_factory = t /\ job.edge /\ job.pin \in Pins
        /\ \A u \in Threads : u # t => GpioAt(gpio_jobs[u], u) /\ gpio_jobs[u].does \notin GpioInside
    BY <1>1, <1>2 DEF GpioInv, GpioJobs, GpioAt, GpioInside, GpioBuilds, GpioDestroys
  <1>6. GpioJobs'
    <2>1. ASSUME NEW u \in Threads, u # t PROVE GpioAt(gpio_jobs[u], u)'
      BY <1>3, <1>5, <2>1 DEF GpioAt
    <2>2. GpioAt(gpio_jobs[t], t)'
      BY <1>1, <1>2, <1>3, <1>5 DEF GpioAt, GpioBuilds, GpioDestroys, GpioInside, GpioOwned
    <2> QED BY <2>1, <2>2 DEF GpioJobs
  <1>7. GpioApart'
    BY <1>1, <1>2, <1>3 DEF GpioInv, GpioApart, GpioInside, GpioBuilds, GpioDestroys
  <1>8. GpioTorn'
    <2> SUFFICES ASSUME NEW p \in Pins, gpio_callback[p] = "torn"
                 PROVE  \E u \in Threads : gpio_jobs'[u].pin = p /\ gpio_jobs'[u].does = "swaps"
      BY DEF GpioTorn
    <2>1. PICK u \in Threads : gpio_jobs[u].pin = p /\ gpio_jobs[u].does = "swaps"
      BY DEF GpioInv, GpioTorn
    <2>2. u # t
      BY <1>1, <1>2, <2>1 DEF GpioBuilds, GpioDestroys
    <2> QED BY <1>3, <2>1, <2>2
  <1> QED BY <1>1, <1>3, <1>4, <1>5, <1>6, <1>7, <1>8

\* What such a step does to the list of inputs the registry must have.
LEMMA GpioLists ==
    ASSUME GpioInv, NEW t \in Threads, NEW from, NEW to, <<from, to>> \in GpioSteps,
           Gpio!Does(t, from), Gpio!Becomes(t, to),
           UNCHANGED <<gpio_factory, gpio_claimed, gpio_edge, gpio_callback, gpio_masked>>
    PROVE  /\ GpioListed(gpio_jobs[t].pin) <=>
                 from \in {"inits", "clears", "enables", "disables", "deinits", "forgets"}
           /\ \A p \in Pins : p = gpio_jobs[t].pin =>
                 (GpioListed(p)' <=>
                    to \in {"inits", "clears", "enables", "claims", "deinits", "forgets"})
           /\ \A p \in Pins : p # gpio_jobs[t].pin => (GpioListed(p)' <=> GpioListed(p))
  <1> DEFINE job == gpio_jobs[t]
  <1>1. /\ \A u \in Threads : u # t => /\ gpio_jobs'[u] = gpio_jobs[u]
                                       /\ gpio_jobs[u].does \notin GpioInside
        /\ job.does = from /\ gpio_jobs'[t].does = to
        /\ gpio_jobs'[t].pin = job.pin /\ job.pin \in Pins
        /\ gpio_jobs'[t].edge = job.edge /\ job.edge
        /\ gpio_edge' = gpio_edge
    BY GpioWorks
  <1>2. GpioAt(job, t)
    BY DEF GpioInv, GpioJobs
  <1>3. /\ from \in GpioBuilds \/ from \in GpioDestroys
        /\ from \in GpioBuilds => job.pin \notin gpio_edge
        /\ from \in GpioDestroys => job.pin \in gpio_edge
    BY <1>1, <1>2 DEF GpioAt, GpioSteps, GpioBuilds, GpioDestroys, GpioOwned, GpioInv, GpioTypes
  <1>4. \A p \in Pins : p # job.pin => (GpioListed(p)' <=> GpioListed(p))
    BY <1>1 DEF GpioListed
  <1>5. GpioListed(job.pin) <=> \/ job.pin \in gpio_edge /\ from \notin {"restores", "releases"}
                                \/ from \in {"inits", "clears", "enables", "claims"}
    BY <1>1 DEF GpioListed, GpioInside, GpioBuilds, GpioDestroys
  <1>6. \A p \in Pins : p = job.pin =>
            (GpioListed(p)' <=> \/ job.pin \in gpio_edge /\ to \notin {"restores", "releases"}
                                \/ to \in {"inits", "clears", "enables", "claims"})
    BY <1>1 DEF GpioListed, GpioInside, GpioBuilds, GpioDestroys
  <1>7. /\ from \in GpioBuilds => to \in {"registers", "inits", "clears", "enables", "claims"}
        /\ from \in GpioDestroys => to \in {"deinits", "forgets", "restores", "releases"}
    BY DEF GpioSteps, GpioBuilds, GpioDestroys
  <1>8. GpioListed(job.pin) <=>
            from \in {"inits", "clears", "enables", "disables", "deinits", "forgets"}
    BY <1>3, <1>5 DEF GpioBuilds, GpioDestroys
  <1>9. \A p \in Pins : p = job.pin =>
            (GpioListed(p)' <=>
               to \in {"inits", "clears", "enables", "claims", "deinits", "forgets"})
    BY <1>3, <1>6, <1>7
  <1> QED BY <1>4, <1>8, <1>9

LEMMA GpioWorkStep ==
    ASSUME GpioInv, NEW t \in Threads,
           \/ Gpio!Silence(t) \/ Gpio!Register(t) \/ Gpio!InitPin(t) \/ Gpio!ClearFlag(t)
           \/ Gpio!Enable(t) \/ Gpio!Disable(t) \/ Gpio!DeInit(t) \/ Gpio!Forget(t) \/ Gpio!Restore(t)
    PROVE  GpioInv'
  <1> DEFINE job == gpio_jobs[t]
             line == job.pin.number
             group == Gpio!interrupt_for(line)
  <1>1. PICK from, to : /\ <<from, to>> \in GpioSteps
                        /\ Gpio!Does(t, from) /\ Gpio!Becomes(t, to)
                        /\ UNCHANGED <<gpio_factory, gpio_claimed, gpio_edge, gpio_callback, gpio_masked>>
    <2> USE DEF GpioSteps
    <2>1. CASE Gpio!Silence(t) BY <2>1 DEF Gpio!Silence
    <2>2. CASE Gpio!Register(t) BY <2>2 DEF Gpio!Register
    <2>3. CASE Gpio!InitPin(t) BY <2>3 DEF Gpio!InitPin
    <2>4. CASE Gpio!ClearFlag(t) BY <2>4 DEF Gpio!ClearFlag
    <2>5. CASE Gpio!Enable(t) BY <2>5 DEF Gpio!Enable
    <2>6. CASE Gpio!Disable(t) BY <2>6 DEF Gpio!Disable
    <2>7. CASE Gpio!DeInit(t) BY <2>7 DEF Gpio!DeInit
    <2>8. CASE Gpio!Forget(t) BY <2>8 DEF Gpio!Forget
    <2>9. CASE Gpio!Restore(t) BY <2>9 DEF Gpio!Restore
    <2> QED BY <2>1, <2>2, <2>3, <2>4, <2>5, <2>6, <2>7, <2>8, <2>9
  <1>2. /\ gpio_jobs' \in [Threads -> GpioJob]
        /\ \A u \in Threads : u # t => /\ gpio_jobs'[u] = gpio_jobs[u]
                                       /\ gpio_jobs[u].does \notin GpioInside
        /\ job.does = from /\ gpio_jobs'[t].does = to
        /\ gpio_jobs'[t].pin = job.pin /\ job.pin \in Pins
        /\ GpioJobs' /\ GpioApart' /\ GpioTorn'
    BY <1>1, GpioWorks
  <1>3. /\ GpioListed(job.pin) <=>
              from \in {"inits", "clears", "enables", "disables", "deinits", "forgets"}
        /\ \A p \in Pins : p = job.pin =>
              (GpioListed(p)' <=>
                 to \in {"inits", "clears", "enables", "claims", "deinits", "forgets"})
        /\ \A p \in Pins : p # job.pin => (GpioListed(p)' <=> GpioListed(p))
    BY <1>1, GpioLists
  <1>4. /\ line \in Gpio!Lines /\ group \in Gpio!Groups /\ job.pin # Gpio!NoPin
        /\ gpio_registry \in [Gpio!Lines -> Pins \cup {Gpio!NoPin}]
        /\ gpio_detecting \subseteq Gpio!Lines /\ gpio_flags \subseteq Gpio!Lines
        /\ gpio_enabled \subseteq Gpio!Groups
    BY <1>2, GpioPins DEF GpioInv, GpioTypes
  <1>5. /\ \A l \in Gpio!Lines : gpio_registry[l] # Gpio!NoPin => gpio_registry[l].number = l
        /\ \A p \in Pins : gpio_registry[p.number] = p <=> GpioListed(p)
        /\ from \in {"silences", "registers"} => gpio_registry[line] = Gpio!NoPin
        /\ \A l \in gpio_detecting \cup gpio_flags : gpio_registry[l] # Gpio!NoPin
        /\ from = "forgets" => line \notin gpio_detecting
    BY <1>2 DEF GpioInv, GpioRegistry, GpioFlags
  <1> DEFINE Inputs(g) == \E l \in Gpio!Lines : gpio_registry[l] # Gpio!NoPin
                                                /\ Gpio!interrupt_for(l) = g
  <1>6. \A g \in Gpio!Groups :
            g \in gpio_enabled <=> Inputs(g) /\ (from \in GpioSilent => group # g)
    BY <1>2 DEF GpioInv, GpioGroups, GpioSilent, GpioInside
  <1>7. ASSUME \A g \in Gpio!Groups :
                   g \in gpio_enabled' <=> Inputs(g)' /\ (to \in GpioSilent => group # g)
        PROVE  GpioGroups'
    BY <1>2, <1>7 DEF GpioGroups, GpioSilent, GpioInside
  <1>8. ASSUME UNCHANGED gpio_registry,
               from \in {"inits", "clears", "enables", "disables", "deinits", "forgets"} <=>
                 to \in {"inits", "clears", "enables", "claims", "deinits", "forgets"},
               to \in {"silences", "registers"} => from = "silences"
        PROVE  GpioRegistry'
    BY <1>2, <1>3, <1>5, <1>8 DEF GpioRegistry, GpioInside, GpioBuilds, GpioDestroys
  <1>9. ASSUME UNCHANGED <<gpio_registry, gpio_detecting>>, gpio_flags' \subseteq gpio_flags, to # "forgets"
        PROVE  GpioFlags'
    BY <1>2, <1>5, <1>9 DEF GpioFlags, GpioInside, GpioDestroys
  <1>10. CASE Gpio!Silence(t) \/ Gpio!Disable(t)
    <2>1. /\ gpio_enabled' = gpio_enabled \ {group}
          /\ UNCHANGED <<gpio_registry, gpio_detecting, gpio_flags>>
          /\ <<from, to>> \in {<<"silences", "registers">>, <<"disables", "deinits">>}
      BY <1>10, <1>1, <1>2 DEF Gpio!Silence, Gpio!Disable, Gpio!Group, Gpio!Line, Gpio!Does, GpioSteps
    <2>2. GpioRegistry' /\ GpioFlags'
      BY <2>1, <1>8, <1>9
    <2>3. GpioGroups'
      BY <2>1, <1>4, <1>6, <1>7 DEF GpioSilent, GpioBuilds, GpioDestroys
    <2> QED BY <1>1, <1>2, <1>4, <2>1, <2>2, <2>3 DEF GpioInv, GpioTypes
  <1>11. CASE Gpio!Register(t)
    <2>1. /\ gpio_registry' = [gpio_registry EXCEPT ![line] = job.pin]
          /\ UNCHANGED <<gpio_detecting, gpio_flags, gpio_enabled>>
          /\ from = "registers" /\ to = "inits"
      BY <1>11, <1>1, <1>2 DEF Gpio!Register, Gpio!Line, Gpio!Does, GpioSteps
    <2>2. /\ gpio_registry' \in [Gpio!Lines -> Pins \cup {Gpio!NoPin}]
          /\ gpio_registry'[line] = job.pin
          /\ \A l \in Gpio!Lines : l # line => gpio_registry'[l] = gpio_registry[l]
      BY <2>1, <1>2, <1>4
    <2>3. GpioRegistry'
      <3>1. \A p \in Pins : gpio_registry'[p.number] = p <=> GpioListed(p)'
        <4> SUFFICES ASSUME NEW p \in Pins PROVE gpio_registry'[p.number] = p <=> GpioListed(p)'
          OBVIOUS
        <4>1. CASE p = job.pin BY <4>1, <2>1, <2>2, <1>3
        <4>2. CASE p # job.pin BY <4>2, <2>1, <2>2, <1>3, <1>5, GpioPins
        <4> QED BY <4>1, <4>2
      <3>2. \A l \in Gpio!Lines : gpio_registry'[l] # Gpio!NoPin => gpio_registry'[l].number = l
        BY <2>2, <1>5
      <3> QED BY <3>1, <3>2, <2>1, <1>2 DEF GpioRegistry, GpioInside, GpioBuilds
    <2>4. GpioFlags'
      BY <2>1, <2>2, <1>2, <1>4, <1>5 DEF GpioFlags, GpioInside, GpioDestroys
    <2>5. GpioGroups'
      <3>1. \A g \in Gpio!Groups : g # group => (Inputs(g)' <=> Inputs(g))
        BY <2>2
      <3> QED BY <3>1, <2>1, <1>6, <1>7 DEF GpioSilent, GpioBuilds, GpioDestroys
    <2> QED BY <1>1, <1>2, <1>4, <2>1, <2>2, <2>3, <2>4, <2>5 DEF GpioInv, GpioTypes
  <1>12. CASE Gpio!InitPin(t)
    <2>1. /\ gpio_detecting' = gpio_detecting \cup {line}
          /\ UNCHANGED <<gpio_registry, gpio_flags, gpio_enabled>>
          /\ from = "inits" /\ to = "clears"
      BY <1>12, <1>1, <1>2 DEF Gpio!InitPin, Gpio!Line, Gpio!Does, GpioSteps
    <2>2. gpio_registry[line] # Gpio!NoPin
      BY <2>1, <1>2, <1>3, <1>4, <1>5
    <2>3. GpioFlags'
      BY <2>1, <2>2, <1>2, <1>5 DEF GpioFlags, GpioInside, GpioDestroys
    <2>4. GpioRegistry'
      BY <2>1, <1>8
    <2>5. GpioGroups'
      BY <2>1, <1>6, <1>7 DEF GpioSilent, GpioBuilds, GpioDestroys
    <2> QED BY <1>1, <1>2, <1>4, <2>1, <2>3, <2>4, <2>5 DEF GpioInv, GpioTypes
  <1>13. CASE Gpio!ClearFlag(t)
    <2>1. /\ gpio_flags' = gpio_flags \ {line}
          /\ UNCHANGED <<gpio_registry, gpio_detecting, gpio_enabled>>
          /\ from = "clears" /\ to = "enables"
      BY <1>13, <1>1, <1>2 DEF Gpio!ClearFlag, Gpio!Line, Gpio!Does, GpioSteps
    <2>2. GpioRegistry' /\ GpioFlags'
      BY <2>1, <1>8, <1>9
    <2>3. GpioGroups'
      BY <2>1, <1>6, <1>7 DEF GpioSilent, GpioBuilds, GpioDestroys
    <2> QED BY <1>1, <1>2, <1>4, <2>1, <2>2, <2>3 DEF GpioInv, GpioTypes
  <1>14. CASE Gpio!Enable(t)
    <2>1. /\ gpio_enabled' = gpio_enabled \cup {group}
          /\ UNCHANGED <<gpio_registry, gpio_detecting, gpio_flags>>
          /\ from = "enables" /\ to = "claims"
      BY <1>14, <1>1, <1>2 DEF Gpio!Enable, Gpio!Group, Gpio!Line, Gpio!Does, GpioSteps
    <2>2. GpioRegistry' /\ GpioFlags'
      BY <2>1, <1>8, <1>9
    <2>3. Inputs(group)
      BY <2>1, <1>2, <1>3, <1>4, <1>5
    <2>4. GpioGroups'
      BY <2>1, <2>3, <1>6, <1>7 DEF GpioSilent, GpioBuilds, GpioDestroys
    <2> QED BY <1>1, <1>2, <1>4, <2>1, <2>2, <2>4 DEF GpioInv, GpioTypes
  <1>15. CASE Gpio!DeInit(t)
    <2>1. /\ gpio_detecting' = gpio_detecting \ {line}
          /\ UNCHANGED <<gpio_registry, gpio_flags, gpio_enabled>>
          /\ from = "deinits" /\ to = "forgets"
      BY <1>15, <1>1, <1>2 DEF Gpio!DeInit, Gpio!Line, Gpio!Does, GpioSteps
    <2>2. GpioFlags'
      BY <2>1, <1>2, <1>5 DEF GpioFlags, GpioInside, GpioDestroys
    <2>3. GpioRegistry'
      BY <2>1, <1>8
    <2>4. GpioGroups'
      BY <2>1, <1>6, <1>7 DEF GpioSilent, GpioBuilds, GpioDestroys
    <2> QED BY <1>1, <1>2, <1>4, <2>1, <2>2, <2>3, <2>4 DEF GpioInv, GpioTypes
  <1>16. CASE Gpio!Forget(t)
    <2>1. /\ gpio_registry' = [gpio_registry EXCEPT ![line] = Gpio!NoPin]
          /\ gpio_flags' = gpio_flags \ {line}
          /\ UNCHANGED <<gpio_detecting, gpio_enabled>>
          /\ from = "forgets" /\ to = "restores"
      BY <1>16, <1>1, <1>2 DEF Gpio!Forget, Gpio!Line, Gpio!Does, GpioSteps
    <2>2. /\ gpio_registry' \in [Gpio!Lines -> Pins \cup {Gpio!NoPin}]
          /\ gpio_registry[line] = job.pin /\ gpio_registry'[line] = Gpio!NoPin
          /\ \A l \in Gpio!Lines : l # line => gpio_registry'[l] = gpio_registry[l]
      BY <2>1, <1>2, <1>3, <1>4, <1>5
    <2>3. GpioRegistry'
      <3>1. \A p \in Pins : gpio_registry'[p.number] = p <=> GpioListed(p)'
        <4> SUFFICES ASSUME NEW p \in Pins PROVE gpio_registry'[p.number] = p <=> GpioListed(p)'
          OBVIOUS
        <4>1. CASE p = job.pin BY <4>1, <2>1, <2>2, <1>3, <1>4
        <4>2. CASE p # job.pin BY <4>2, <2>1, <2>2, <1>3, <1>5, GpioPins
        <4> QED BY <4>1, <4>2
      <3>2. \A l \in Gpio!Lines : gpio_registry'[l] # Gpio!NoPin => gpio_registry'[l].number = l
        BY <2>2, <1>5
      <3> QED BY <3>1, <3>2, <2>1, <1>2 DEF GpioRegistry, GpioInside, GpioBuilds
    <2>4. GpioFlags'
      BY <2>1, <2>2, <1>2, <1>4, <1>5 DEF GpioFlags, GpioInside, GpioDestroys
    <2>5. GpioGroups'
      <3>1. \A g \in Gpio!Groups : g # group => (Inputs(g)' <=> Inputs(g))
        BY <2>2
      <3> QED BY <3>1, <2>1, <1>6, <1>7 DEF GpioSilent, GpioBuilds, GpioDestroys
    <2> QED BY <1>1, <1>2, <1>4, <2>1, <2>2, <2>3, <2>4, <2>5 DEF GpioInv, GpioTypes
  <1>17. CASE Gpio!Restore(t)
    <2>1. /\ gpio_enabled' = IF Inputs(group) THEN gpio_enabled \cup {group} ELSE gpio_enabled
          /\ UNCHANGED <<gpio_registry, gpio_detecting, gpio_flags>>
          /\ from = "restores" /\ to = "releases"
      BY <1>17, <1>1, <1>2 DEF Gpio!Restore, Gpio!group_still_used, Gpio!Group, Gpio!Line, Gpio!Does,
         GpioSteps
    <2>2. GpioRegistry' /\ GpioFlags'
      BY <2>1, <1>8, <1>9
    <2>4. GpioGroups'
      BY <2>1, <1>4, <1>6, <1>7 DEF GpioSilent, GpioBuilds, GpioDestroys
    <2> QED BY <1>1, <1>2, <1>4, <2>1, <2>2, <2>4 DEF GpioInv, GpioTypes
  <1> QED BY <1>10, <1>11, <1>12, <1>13, <1>14, <1>15, <1>16, <1>17

\* A step outside the constructors and destructors, or at their borders.
LEMMA GpioAside ==
    ASSUME GpioInv, NEW t \in Threads,
           \A u \in Threads : u # t => gpio_jobs'[u] = gpio_jobs[u],
           gpio_jobs[t].does \notin GpioSilent, gpio_jobs'[t].does \notin GpioSilent,
           gpio_jobs'[t].does = "silences" =>
               gpio_registry[gpio_jobs'[t].pin.number] = Gpio!NoPin,
           \A p \in Pins : GpioListed(p)' <=> GpioListed(p),
           UNCHANGED Gpio!exti
    PROVE  GpioRegistry' /\ GpioFlags' /\ GpioGroups'
  <1> USE DEF Gpio!exti
  <1>1. GpioRegistry'
    BY DEF GpioInv, GpioRegistry, GpioSilent, GpioBuilds, GpioDestroys
  <1>2. GpioFlags'
    BY DEF GpioInv, GpioFlags, GpioSilent, GpioBuilds, GpioDestroys
  <1>3. GpioGroups'
    BY DEF GpioInv, GpioGroups
  <1> QED BY <1>1, <1>2, <1>3

\* Threads outside the factory: what they do does not change what is listed.
LEMMA GpioUnlisted ==
    ASSUME GpioInv, NEW t \in Threads,
           \A u \in Threads : u # t => gpio_jobs'[u] = gpio_jobs[u],
           gpio_jobs[t].does \notin GpioInside,
           gpio_jobs'[t].does \notin GpioInside \/ gpio_jobs'[t].does \in {"silences", "disables"},
           UNCHANGED gpio_edge
    PROVE  \A p \in Pins : GpioListed(p)' <=> GpioListed(p)
  BY DEF GpioListed, GpioInside, GpioBuilds, GpioDestroys

\* The same, of a pin without interrupt.
LEMMA GpioPlain ==
    ASSUME GpioInv, NEW t \in Threads,
           \A u \in Threads : u # t => gpio_jobs'[u] = gpio_jobs[u],
           gpio_jobs[t].does \notin GpioInside, ~gpio_jobs'[t].edge,
           gpio_jobs'[t].pin \notin gpio_edge,
           UNCHANGED gpio_edge
    PROVE  \A p \in Pins : GpioListed(p)' <=> GpioListed(p)
  BY DEF GpioListed, GpioInside, GpioBuilds, GpioDestroys

LEMMA GpioAskStep ==
    ASSUME GpioInv, NEW t \in Threads, NEW p \in Pins, NEW e \in BOOLEAN,
           Gpio!Create(t, p, e) \/ Gpio!Drop(t, p) \/ Gpio!SwapBegins(t, p)
    PROVE  GpioInv'
  <1>1. /\ gpio_jobs \in [Threads -> GpioJob]
        /\ gpio_jobs[t] = Gpio!Idle /\ gpio_masked = "nobody"
        /\ p # Gpio!NoPin
    BY GpioPins DEF Gpio!Create, Gpio!Drop, Gpio!SwapBegins, Gpio!Begins, GpioInv, GpioTypes, Gpio!Nobody
  <1>2. PICK does \in {"asks", "drops", "swaps"}, edge \in BOOLEAN :
            /\ gpio_jobs' = [gpio_jobs EXCEPT ![t] = [does |-> does, pin |-> p, edge |-> edge]]
            /\ does = "asks" => /\ UNCHANGED <<gpio_masked, gpio_callback>>
            /\ does = "drops" => /\ UNCHANGED <<gpio_masked, gpio_callback>>
                                 /\ p \in gpio_claimed /\ (edge <=> p \in gpio_edge)
                                 /\ \A u \in Threads : gpio_jobs[u].pin = p => gpio_jobs[u].does = "asks"
            /\ does = "swaps" => /\ gpio_masked' = t
                                 /\ gpio_callback' = [gpio_callback EXCEPT ![p] = "torn"]
                                 /\ p \in gpio_edge /\ edge
                                 /\ \A u \in Threads : gpio_jobs[u].pin = p =>
                                        gpio_jobs[u].does \in {"asks", "swaps"}
            /\ UNCHANGED <<gpio_factory, gpio_claimed, gpio_edge, Gpio!exti>>
    <2>1. CASE Gpio!Create(t, p, e)
      BY <2>1 DEF Gpio!Create, Gpio!Begins
    <2>2. CASE Gpio!Drop(t, p)
      <3> DEFINE e0 == p \in gpio_edge
      <3>1. /\ gpio_jobs' = [gpio_jobs EXCEPT ![t] = [does |-> "drops", pin |-> p, edge |-> e0]]
            /\ UNCHANGED <<gpio_masked, gpio_callback, gpio_factory, gpio_claimed, gpio_edge, Gpio!exti>>
            /\ p \in gpio_claimed
            /\ \A u \in Threads : gpio_jobs[u].pin = p => gpio_jobs[u].does = "asks"
        BY <2>2 DEF Gpio!Drop, Gpio!Begins, Gpio!InUse
      <3>2. e0 \in BOOLEAN /\ (e0 <=> p \in gpio_edge)
        OBVIOUS
      <3> HIDE DEF e0
      <3> QED BY <3>1, <3>2
    <2>3. CASE Gpio!SwapBegins(t, p)
      BY <2>3 DEF Gpio!SwapBegins, Gpio!Begins
    <2> QED BY <2>1, <2>2, <2>3
  <1>3. /\ gpio_jobs'[t].does = does /\ gpio_jobs'[t].pin = p /\ gpio_jobs'[t].edge = edge
        /\ gpio_jobs' \in [Threads -> GpioJob]
        /\ \A u \in Threads : u # t => gpio_jobs'[u] = gpio_jobs[u]
    <2>1. [does |-> does, pin |-> p, edge |-> edge] \in GpioJob
      BY DEF GpioJob
    <2> QED BY <1>1, <1>2, <2>1
  <1>4. /\ gpio_jobs[t].does = "nothing"
        /\ \A u \in Threads : gpio_jobs[u].does # "swaps"
        /\ \A u \in Threads : GpioAt(gpio_jobs[u], u)
    BY <1>1, ConstantsAssumption DEF ConstantsAssumption, Gpio!Idle, GpioInv, GpioJobs, GpioAt
  <1>5. GpioTypes'
    <2>1. gpio_masked' \in Threads \cup {"nobody"} /\ gpio_callback' \in [Pins -> {"none", "set", "torn"}]
      BY <1>2 DEF GpioInv, GpioTypes
    <2> QED BY <1>2, <1>3, <2>1 DEF GpioInv, GpioTypes, Gpio!exti
  <1>6. GpioJobs'
    <2>1. ASSUME NEW u \in Threads, u # t PROVE GpioAt(gpio_jobs[u], u)'
      BY <1>1, <1>2, <1>3, <1>4, <2>1, ConstantsAssumption DEF ConstantsAssumption, GpioAt
    <2>2. gpio_factory # t
      BY <1>4 DEF GpioAt, GpioInside, GpioBuilds, GpioDestroys
    <2>3. p \in gpio_edge => p \in gpio_claimed
      BY DEF GpioInv, GpioTypes
    <2>4. GpioAt(gpio_jobs[t], t)'
      <3>1. CASE does = "asks"
        BY <1>1, <1>2, <1>3, <2>2, <3>1, ConstantsAssumption
           DEF ConstantsAssumption, GpioAt, GpioInside, GpioBuilds, GpioDestroys, GpioOwned
      <3>2. CASE does = "drops"
        BY <1>1, <1>2, <1>3, <2>2, <3>2, ConstantsAssumption
           DEF ConstantsAssumption, GpioAt, GpioInside, GpioBuilds, GpioDestroys, GpioOwned
      <3>3. CASE does = "swaps"
        BY <1>2, <1>3, <2>2, <2>3, <3>3
           DEF GpioAt, GpioInside, GpioBuilds, GpioDestroys, GpioOwned
      <3> QED BY <1>2, <3>1, <3>2, <3>3
    <2> QED BY <2>1, <2>4 DEF GpioJobs
  <1>7. GpioApart'
    BY <1>2, <1>3, <1>4 DEF GpioInv, GpioApart
  <1>8. GpioTorn'
    <2> SUFFICES ASSUME NEW q \in Pins, gpio_callback'[q] = "torn"
                 PROVE  \E u \in Threads : gpio_jobs'[u].pin = q /\ gpio_jobs'[u].does = "swaps"
      BY DEF GpioTorn
    <2>1. gpio_callback[q] # "torn"
      BY <1>4 DEF GpioInv, GpioTorn
    <2>2. does = "swaps" /\ q = p
      BY <1>2, <2>1 DEF GpioInv, GpioTypes
    <2> QED BY <1>3, <2>2
  <1>9. GpioRegistry' /\ GpioFlags' /\ GpioGroups'
    <2>1. /\ gpio_jobs[t].does \notin GpioInside /\ gpio_jobs'[t].does \notin GpioInside
          /\ gpio_jobs[t].does \notin GpioSilent /\ gpio_jobs'[t].does \notin GpioSilent
          /\ gpio_jobs'[t].does # "silences"
      BY <1>3, <1>4 DEF GpioSilent, GpioInside, GpioBuilds, GpioDestroys
    <2>2. \A q \in Pins : GpioListed(q)' <=> GpioListed(q)
      BY <1>2, <1>3, <2>1, GpioUnlisted
    <2> QED BY <1>2, <1>3, <2>1, <2>2, GpioAside
  <1> QED BY <1>5, <1>6, <1>7, <1>8, <1>9 DEF GpioInv

\* Locking the factory, and giving it back.
LEMMA GpioFactoryStep ==
    ASSUME GpioInv, NEW t \in Threads,
           Gpio!EnterFactory(t) \/ Gpio!LockToDelete(t)
    PROVE  GpioInv'
  <1> DEFINE job == gpio_jobs[t]
             new == gpio_jobs'[t]
  <1>1. /\ gpio_jobs \in [Threads -> GpioJob] /\ job \in GpioJob
        /\ job.does \in {"asks", "drops"} /\ gpio_factory = "nobody"
        /\ UNCHANGED <<gpio_claimed, gpio_edge, Gpio!exti, gpio_callback, gpio_masked>>
        /\ \A u \in Threads : GpioAt(gpio_jobs[u], u) /\ gpio_jobs[u].does \notin GpioInside
    <2>1. \A u \in Threads : GpioAt(gpio_jobs[u], u)
      BY DEF GpioInv, GpioJobs
    <2>2. gpio_factory = "nobody"
      BY DEF Gpio!EnterFactory, Gpio!LockToDelete, Gpio!Nobody
    <2>3. \A u \in Threads : gpio_jobs[u].does \notin GpioInside
      BY <2>1, <2>2, ConstantsAssumption DEF ConstantsAssumption, GpioAt
    <2> QED BY <2>1, <2>2, <2>3 DEF Gpio!EnterFactory, Gpio!LockToDelete, Gpio!Does, GpioInv, GpioTypes
  <1>2. job.pin \in Pins
    BY <1>1 DEF GpioAt
  <1>3. /\ gpio_jobs' \in [Threads -> GpioJob]
        /\ \A u \in Threads : u # t => gpio_jobs'[u] = gpio_jobs[u]
        /\ \/ new = Gpio!Idle /\ gpio_factory' = gpio_factory /\ job.does = "asks"
           \/ /\ new.pin = job.pin /\ new.edge = job.edge /\ gpio_factory' = t
              /\ \/ /\ job.does = "asks" /\ job.pin \notin gpio_claimed
                    /\ \/ job.edge /\ gpio_registry[job.pin.number] = Gpio!NoPin
                          /\ new.does = "silences"
                       \/ ~job.edge /\ new.does = "claims"
                 \/ job.does = "drops" /\ new.does = (IF job.edge THEN "disables" ELSE "releases")
    <2>1. CASE Gpio!LockToDelete(t)
      BY <1>1, <2>1 DEF Gpio!LockToDelete, Gpio!Does, Gpio!Becomes, GpioJob, GpioInside, GpioDestroys
    <2>2. CASE Gpio!EnterFactory(t) /\ Gpio!Refused(job.pin, job.edge)
      <3>1. gpio_jobs' = [gpio_jobs EXCEPT ![t] = Gpio!Idle] /\ gpio_factory' = gpio_factory
        BY <2>2 DEF Gpio!EnterFactory, Gpio!Ends
      <3>2. job.does = "asks"
        BY <2>2 DEF Gpio!EnterFactory, Gpio!Does
      <3>3. Gpio!Idle \in GpioJob
        BY DEF GpioJob, Gpio!Idle
      <3> QED BY <1>1, <3>1, <3>2, <3>3
    <2>3. CASE Gpio!EnterFactory(t) /\ ~Gpio!Refused(job.pin, job.edge)
      BY <1>1, <2>3 DEF Gpio!EnterFactory, Gpio!Does, Gpio!Becomes, GpioJob, GpioInside, GpioBuilds,
         Gpio!Refused, Gpio!interruptLineAvailable
    <2> QED BY <2>1, <2>2, <2>3
  <1>4. GpioTypes'
    BY <1>1, <1>3 DEF GpioInv, GpioTypes, Gpio!exti
  <1>5. GpioJobs'
    <2>1. ASSUME NEW u \in Threads, u # t PROVE GpioAt(gpio_jobs[u], u)'
      BY <1>1, <1>3, <2>1, ConstantsAssumption DEF ConstantsAssumption, GpioAt
    <2>2. GpioAt(gpio_jobs[t], t)'
      <3>1. gpio_masked # t
        BY <1>1 DEF GpioAt
      <3>2. CASE new = Gpio!Idle
        BY <1>1, <1>3, <3>1, <3>2, ConstantsAssumption
           DEF ConstantsAssumption, GpioAt, GpioInside, GpioBuilds, GpioDestroys, GpioOwned, Gpio!Idle
      <3>3. CASE new # Gpio!Idle /\ job.does = "asks"
        BY <1>1, <1>2, <1>3, <3>1, <3>3
           DEF GpioAt, GpioInside, GpioBuilds, GpioDestroys, GpioOwned
      <3>4. CASE job.does = "drops"
        BY <1>1, <1>2, <1>3, <3>1, <3>4
           DEF GpioAt, GpioInside, GpioBuilds, GpioDestroys, GpioOwned
      <3> QED BY <1>1, <3>2, <3>3, <3>4
    <2> QED BY <2>1, <2>2 DEF GpioJobs
  <1>6. GpioApart'
    <2>1. ASSUME new # Gpio!Idle,
                 NEW u \in Threads, u # t, gpio_jobs[u].does \notin {"nothing", "asks"}
          PROVE  gpio_jobs[u].pin # new.pin
      <3>1. gpio_jobs[u].does \in {"drops", "swaps"}
        BY <1>1, <2>1 DEF GpioJob
      <3>2. gpio_jobs[u].pin \in gpio_claimed
        BY <1>1, <3>1 DEF GpioAt, GpioOwned
      <3> QED BY <1>1, <1>3, <2>1, <3>2 DEF GpioInv, GpioApart
    <2>2. \A u, v \in Threads : u # t /\ v # t => gpio_jobs'[u] = gpio_jobs[u] /\ gpio_jobs'[v] = gpio_jobs[v]
      BY <1>3
    <2>3. new = Gpio!Idle => new.does = "nothing"
      BY DEF Gpio!Idle
    <2> QED BY <1>3, <2>1, <2>2, <2>3 DEF GpioInv, GpioApart
  <1>7. GpioTorn'
    <2> SUFFICES ASSUME NEW q \in Pins, gpio_callback[q] = "torn"
                 PROVE  \E u \in Threads : gpio_jobs'[u].pin = q /\ gpio_jobs'[u].does = "swaps"
      BY <1>1 DEF GpioTorn
    <2>1. PICK u \in Threads : gpio_jobs[u].pin = q /\ gpio_jobs[u].does = "swaps"
      BY DEF GpioInv, GpioTorn
    <2> QED BY <1>1, <1>3, <2>1
  <1>8. GpioRegistry' /\ GpioFlags' /\ GpioGroups'
    <2>1. new.does \notin GpioSilent /\ job.does \notin GpioSilent
      BY <1>1, <1>3 DEF GpioSilent, GpioBuilds, GpioDestroys, Gpio!Idle
    <2>2. new.does = "silences" => gpio_registry[new.pin.number] = Gpio!NoPin
      BY <1>3 DEF Gpio!Idle
    <2>3. \A q \in Pins : GpioListed(q)' <=> GpioListed(q)
      <3>1. CASE new.does \in {"nothing", "silences", "disables"}
        <4>1. new.does \notin GpioInside \/ new.does \in {"silences", "disables"}
          BY <3>1 DEF GpioInside, GpioBuilds, GpioDestroys
        <4> QED BY <1>1, <1>3, <4>1, GpioUnlisted
      <3>2. CASE new.does \in {"claims", "releases"}
        <4>1. ~new.edge /\ new.pin \notin gpio_edge
          BY <1>1, <1>3, <3>2 DEF GpioAt, GpioInv, GpioTypes, GpioOwned, Gpio!Idle
        <4> QED BY <1>1, <1>3, <4>1, GpioPlain
      <3> QED BY <1>3, <3>1, <3>2 DEF Gpio!Idle
    <2> QED BY <1>1, <1>3, <2>1, <2>2, <2>3, GpioAside
  <1> QED BY <1>4, <1>5, <1>6, <1>7, <1>8 DEF GpioInv

LEMMA GpioLeaveStep ==
    ASSUME GpioInv, NEW t \in Threads,
           Gpio!Claim(t) \/ Gpio!Release(t) \/ Gpio!SwapEnds(t)
    PROVE  GpioInv'
  <1> DEFINE job == gpio_jobs[t]
  <1>1. /\ gpio_jobs \in [Threads -> GpioJob]
        /\ gpio_jobs' = [gpio_jobs EXCEPT ![t] = Gpio!Idle]
        /\ job.does \in {"claims", "releases", "swaps"}
        /\ UNCHANGED Gpio!exti
    BY DEF Gpio!Claim, Gpio!Release, Gpio!SwapEnds, Gpio!Ends, Gpio!Does, Gpio!exti, GpioInv, GpioTypes
  <1>2. /\ job.does = "claims" =>
              /\ gpio_claimed' = gpio_claimed \cup {job.pin}
              /\ gpio_edge' = IF job.edge THEN gpio_edge \cup {job.pin} ELSE gpio_edge
              /\ gpio_factory' = "nobody" /\ UNCHANGED <<gpio_masked, gpio_callback>>
        /\ job.does = "releases" =>
              /\ gpio_claimed' = gpio_claimed \ {job.pin} /\ gpio_edge' = gpio_edge \ {job.pin}
              /\ gpio_callback' = [gpio_callback EXCEPT ![job.pin] = "none"]
              /\ gpio_factory' = "nobody" /\ UNCHANGED gpio_masked
        /\ job.does = "swaps" =>
              /\ \E new \in {"none", "set"} : gpio_callback' = [gpio_callback EXCEPT ![job.pin] = new]
              /\ gpio_masked' = "nobody" /\ UNCHANGED <<gpio_factory, gpio_claimed, gpio_edge>>
    BY DEF Gpio!Claim, Gpio!Release, Gpio!SwapEnds, Gpio!Does, Gpio!Nobody
  <1>3. /\ \A u \in Threads : GpioAt(gpio_jobs[u], u)
        /\ job.pin \in Pins
        /\ \A u \in Threads : u # t /\ gpio_jobs[u].does \notin {"nothing", "asks"} =>
                                  gpio_jobs[u].pin # job.pin
    BY <1>1 DEF GpioInv, GpioJobs, GpioAt, GpioApart
  <1>4. /\ gpio_jobs'[t] = Gpio!Idle /\ \A u \in Threads : u # t => gpio_jobs'[u] = gpio_jobs[u]
        /\ gpio_jobs' \in [Threads -> GpioJob]
    BY <1>1 DEF GpioJob, Gpio!Idle
  <1>5. GpioTypes'
    <2>1. gpio_callback' \in [Pins -> {"none", "set", "torn"}]
      BY <1>1, <1>2 DEF GpioInv, GpioTypes
    <2>2. gpio_claimed' \subseteq Pins /\ gpio_edge' \subseteq gpio_claimed'
      BY <1>1, <1>2, <1>3 DEF GpioInv, GpioTypes
    <2>3. gpio_factory' \in Threads \cup {"nobody"} /\ gpio_masked' \in Threads \cup {"nobody"}
      BY <1>1, <1>2 DEF GpioInv, GpioTypes
    <2> QED BY <1>1, <1>4, <2>1, <2>2, <2>3 DEF GpioInv, GpioTypes, Gpio!exti
  <1>6. GpioJobs'
    <2>1. ASSUME NEW u \in Threads, u # t PROVE GpioAt(gpio_jobs[u], u)'
      <3>1. /\ job.does \in GpioInside => gpio_factory = t /\ gpio_jobs[u].does \notin GpioInside
            /\ job.does = "swaps" => gpio_masked = t /\ gpio_jobs[u].does # "swaps"
        BY <1>3, <2>1 DEF GpioAt
      <3>2. CASE job.does \in {"claims", "releases"}
        <4>1. gpio_factory' # u /\ gpio_jobs[u].does \notin GpioInside /\ gpio_masked' = gpio_masked
          BY <1>2, <3>1, <3>2, ConstantsAssumption DEF ConstantsAssumption, GpioInside
        <4>2. gpio_jobs[u].does \in GpioOwned =>
                  /\ gpio_jobs[u].pin \in gpio_claimed'
                  /\ gpio_jobs[u].pin \in gpio_edge' <=> gpio_jobs[u].pin \in gpio_edge
          BY <1>2, <1>3, <2>1, <3>2 DEF GpioAt, GpioOwned, GpioDestroys
        <4>3. gpio_jobs[u].does \notin GpioBuilds \cup {"claims"}
          BY <4>1 DEF GpioInside
        <4> QED BY <1>3, <1>4, <2>1, <4>1, <4>2, <4>3 DEF GpioAt
      <3>3. CASE job.does = "swaps"
        BY <1>2, <1>3, <1>4, <2>1, <3>1, <3>3, ConstantsAssumption DEF ConstantsAssumption, GpioAt
      <3> QED BY <1>1, <3>2, <3>3
    <2>2. GpioAt(gpio_jobs[t], t)'
      BY <1>1, <1>2, <1>3, <1>4, ConstantsAssumption
         DEF ConstantsAssumption, GpioAt, Gpio!Idle, GpioInside, GpioBuilds, GpioDestroys, GpioOwned
    <2> QED BY <2>1, <2>2 DEF GpioJobs
  <1>7. GpioApart'
    BY <1>4 DEF GpioInv, GpioApart, Gpio!Idle
  <1>8. GpioTorn'
    <2> SUFFICES ASSUME NEW q \in Pins, gpio_callback'[q] = "torn"
                 PROVE  \E u \in Threads : gpio_jobs'[u].pin = q /\ gpio_jobs'[u].does = "swaps"
      BY DEF GpioTorn
    <2>1. gpio_callback[q] = "torn" /\ (job.does = "swaps" => q # job.pin)
      BY <1>1, <1>2 DEF GpioInv, GpioTypes
    <2>2. PICK u \in Threads : gpio_jobs[u].pin = q /\ gpio_jobs[u].does = "swaps"
      BY <2>1 DEF GpioInv, GpioTorn
    <2> QED BY <1>1, <1>4, <2>1, <2>2
  <1>9. GpioRegistry' /\ GpioFlags' /\ GpioGroups'
    <2>1. /\ job.does \notin GpioSilent /\ gpio_jobs'[t].does \notin GpioSilent
          /\ gpio_jobs'[t].does = "nothing"
      BY <1>1, <1>4 DEF GpioSilent, GpioBuilds, GpioDestroys, Gpio!Idle
    <2>2. \A q \in Pins : GpioListed(q)' <=> GpioListed(q)
      <3>1. CASE job.does = "swaps"
        <4>1. job.does \notin GpioInside /\ gpio_jobs'[t].does \notin GpioInside
          BY <3>1, <2>1 DEF GpioInside, GpioBuilds, GpioDestroys
        <4> QED BY <1>2, <1>4, <3>1, <4>1, GpioUnlisted
      <3>2. CASE job.does \in {"claims", "releases"}
        <4>1. \A u \in Threads : u # t => gpio_jobs[u].does \notin GpioInside
          BY <1>3, <3>2 DEF GpioAt, GpioInside
        <4>2. /\ job.does = "claims" => job.pin \notin gpio_edge
              /\ job.does = "releases" => job.pin \in gpio_claimed
          BY <1>3 DEF GpioAt, GpioInv, GpioTypes, GpioOwned
        <4> SUFFICES ASSUME NEW q \in Pins PROVE GpioListed(q)' <=> GpioListed(q)
          OBVIOUS
        <4>3. GpioListed(q) <=> \/ q \in gpio_edge /\ (job.pin = q => job.does # "releases")
                                \/ job.pin = q /\ job.edge /\ job.does = "claims"
          BY <3>2, <4>1 DEF GpioListed, GpioInside, GpioBuilds, GpioDestroys
        <4>4. GpioListed(q)' <=> q \in gpio_edge'
          BY <1>4, <2>1, <4>1 DEF GpioListed, GpioInside, GpioBuilds, GpioDestroys
        <4> QED BY <1>2, <3>2, <4>2, <4>3, <4>4
      <3> QED BY <1>1, <3>1, <3>2
    <2> QED BY <1>1, <1>4, <2>1, <2>2, GpioAside
  <1> QED BY <1>5, <1>6, <1>7, <1>8, <1>9 DEF GpioInv

\* The hardware only sets and clears flags.
LEMMA GpioHardwareStep ==
    ASSUME GpioInv,
           \/ UNCHANGED gpio_vars
           \/ \E l \in Gpio!Lines : Gpio!Edge(l)
           \/ \E g \in Gpio!Groups : Gpio!dispatchEdge(g)
    PROVE  GpioInv'
  <1>1. /\ UNCHANGED <<gpio_jobs, gpio_factory, gpio_claimed, gpio_edge, gpio_registry, gpio_detecting,
                       gpio_enabled, gpio_callback, gpio_masked>>
        /\ gpio_flags' \subseteq gpio_flags \cup gpio_detecting
    BY DEF gpio_vars, Gpio!Edge, Gpio!dispatchEdge
  <1>2. GpioTypes' /\ GpioJobs' /\ GpioApart'
    BY <1>1 DEF GpioInv, GpioTypes, GpioJobs, GpioAt, GpioApart
  <1>3. GpioFlags' /\ GpioGroups' /\ GpioTorn'
    BY <1>1 DEF GpioInv, GpioFlags, GpioGroups, GpioTorn
  <1>4. GpioRegistry'
    BY <1>1 DEF GpioInv, GpioRegistry, GpioListed
  <1> QED BY <1>2, <1>3, <1>4 DEF GpioInv

LEMMA GpioStep == GpioInv /\ [Gpio!Next]_gpio_vars => GpioInv'
  BY GpioWorkStep, GpioAskStep, GpioFactoryStep, GpioLeaveStep, GpioHardwareStep DEF Gpio!Next

LEMMA GpioSafe == GpioInv => Gpio!InterruptFindsInput /\ Gpio!GroupsFollowInputs
  <1> SUFFICES ASSUME GpioInv PROVE Gpio!InterruptFindsInput /\ Gpio!GroupsFollowInputs
    OBVIOUS
  <1> USE DEF Gpio!Nobody
  <1>1. Gpio!InterruptFindsInput
    <2> SUFFICES ASSUME NEW g \in gpio_enabled, gpio_masked = "nobody", NEW l \in Gpio!Taken(g)
                 PROVE  /\ gpio_registry[l] # Gpio!NoPin
                        /\ gpio_callback[gpio_registry[l]] # "torn"
                        /\ \/ gpio_registry[l] \in gpio_edge
                           \/ \E t \in Threads : /\ gpio_jobs[t].pin = gpio_registry[l]
                                                 /\ gpio_jobs[t].does = "claims"
      BY DEF Gpio!InterruptFindsInput
    <2> DEFINE p == gpio_registry[l]
    <2>1. l \in gpio_flags /\ Gpio!interrupt_for(l) = g /\ l \in Gpio!Lines /\ g \in Gpio!Groups
      BY DEF Gpio!Taken, GpioInv, GpioTypes
    <2>2. p # Gpio!NoPin /\ p \in Pins /\ p.number = l
      BY <2>1 DEF GpioInv, GpioTypes, GpioFlags, GpioRegistry
    <2>3. GpioListed(p)
      BY <2>2 DEF GpioInv, GpioRegistry
    <2>4. \A t \in Threads : gpio_jobs[t].pin = p => gpio_jobs[t].does \notin GpioSilent
      BY <2>1, <2>2 DEF GpioInv, GpioGroups
    <2>5. \A t \in Threads : gpio_jobs[t].does # "swaps"
      BY ConstantsAssumption DEF ConstantsAssumption, GpioInv, GpioJobs, GpioAt
    <2> QED BY <2>2, <2>3, <2>4, <2>5 DEF GpioListed, GpioSilent, GpioBuilds, GpioInv, GpioTorn
  <1>2. Gpio!GroupsFollowInputs
    <2> SUFFICES ASSUME gpio_factory = "nobody"
                 PROVE  /\ gpio_enabled = {Gpio!interrupt_for(p.number) : p \in gpio_edge}
                        /\ \A p \in gpio_edge : gpio_registry[p.number] = p
      BY DEF Gpio!GroupsFollowInputs
    <2>1. \A t \in Threads : gpio_jobs[t].does \notin GpioInside
      BY ConstantsAssumption DEF ConstantsAssumption, GpioInv, GpioJobs, GpioAt
    <2>2. \A p \in Pins : gpio_registry[p.number] = p <=> p \in gpio_edge
      BY <2>1 DEF GpioInv, GpioRegistry, GpioListed, GpioInside, GpioBuilds, GpioDestroys
    <2>3. gpio_edge \subseteq Pins
      BY DEF GpioInv, GpioTypes
    <2>4. \A g \in Gpio!Groups :
              g \in gpio_enabled <=> \E l \in Gpio!Lines : /\ gpio_registry[l] # Gpio!NoPin
                                                           /\ Gpio!interrupt_for(l) = g
      BY <2>1 DEF GpioInv, GpioGroups, GpioSilent, GpioInside
    <2>5. ASSUME NEW g \in gpio_enabled PROVE \E p \in gpio_edge : g = Gpio!interrupt_for(p.number)
      <3>1. g \in Gpio!Groups
        BY DEF GpioInv, GpioTypes
      <3>2. PICK l \in Gpio!Lines : gpio_registry[l] # Gpio!NoPin /\ Gpio!interrupt_for(l) = g
        BY <2>4, <2>5, <3>1
      <3>3. gpio_registry[l] \in Pins /\ gpio_registry[l].number = l
        BY <3>2 DEF GpioInv, GpioTypes, GpioRegistry
      <3> QED BY <2>2, <3>2, <3>3
    <2>6. ASSUME NEW p \in gpio_edge PROVE Gpio!interrupt_for(p.number) \in gpio_enabled
      <3>1. /\ p \in Pins /\ gpio_registry[p.number] = p /\ p # Gpio!NoPin
            /\ p.number \in Gpio!Lines /\ Gpio!interrupt_for(p.number) \in Gpio!Groups
        BY <2>2, <2>3, GpioPins
      <3> QED BY <2>4, <3>1
    <2> QED BY <2>2, <2>3, <2>5, <2>6
  <1> QED BY <1>1, <1>2

\* An action takes a flag only as the interrupt of an enabled group does, or as
\* the thread that works on the flag's own line.
LEMMA GpioKeeps ==
    ASSUME GpioInv, Gpio!Next, NEW l \in gpio_flags \ gpio_flags'
    PROVE  \/ Gpio!interrupt_for(l) \in gpio_enabled
           \/ \E t \in Threads : gpio_jobs[t] # gpio_jobs'[t] /\ Gpio!Line(t) = l
  <1>t. gpio_jobs \in [Threads -> GpioJob]
    BY DEF GpioInv, GpioTypes
  <1>1. ASSUME NEW t \in Threads, Gpio!ClearFlag(t) \/ Gpio!Forget(t)
        PROVE  gpio_jobs[t] # gpio_jobs'[t] /\ Gpio!Line(t) = l
    <2>1. Gpio!Line(t) = l
      BY <1>1 DEF Gpio!ClearFlag, Gpio!Forget
    <2>2. gpio_jobs[t].does # gpio_jobs'[t].does
      BY <1>t, <1>1 DEF Gpio!ClearFlag, Gpio!Forget, Gpio!Does, Gpio!Becomes, GpioJob
    <2> QED BY <2>1, <2>2
  <1>2. ASSUME NEW g \in Gpio!Groups, Gpio!dispatchEdge(g) PROVE Gpio!interrupt_for(l) \in gpio_enabled
    BY <1>2 DEF Gpio!dispatchEdge, Gpio!Taken
  <1>3. ASSUME NEW n \in Gpio!Lines, Gpio!Edge(n) PROVE FALSE
    BY <1>3 DEF Gpio!Edge
  <1>4. ASSUME NEW t \in Threads, NEW p \in Pins,
               (\E e \in BOOLEAN : Gpio!Create(t, p, e)) \/ Gpio!Drop(t, p) \/ Gpio!SwapBegins(t, p)
        PROVE  FALSE
    BY <1>4 DEF Gpio!Create, Gpio!Drop, Gpio!SwapBegins, Gpio!exti
  <1>5. ASSUME NEW t \in Threads,
               \/ Gpio!EnterFactory(t) \/ Gpio!Silence(t) \/ Gpio!Register(t) \/ Gpio!InitPin(t)
               \/ Gpio!Enable(t) \/ Gpio!Claim(t) \/ Gpio!LockToDelete(t) \/ Gpio!Disable(t)
               \/ Gpio!DeInit(t) \/ Gpio!Restore(t) \/ Gpio!Release(t) \/ Gpio!SwapEnds(t)
        PROVE  FALSE
    BY <1>5 DEF Gpio!EnterFactory, Gpio!Silence, Gpio!Register, Gpio!InitPin, Gpio!Enable, Gpio!Claim,
       Gpio!LockToDelete, Gpio!Disable, Gpio!DeInit, Gpio!Restore, Gpio!Release, Gpio!SwapEnds, Gpio!exti
  <1> QED BY <1>1, <1>2, <1>3, <1>4, <1>5 DEF Gpio!Next

\* stm32/Gpio.cpp: an interrupt finds a live, registered input with a whole
\* callback for each flag, the groups enabled are those of the inputs that
\* exist, and constructing or destroying one input discards no edge of another,
\* for any threads and any pins on the 16 lines.
THEOREM EdgesReachTheirInputHolds == Spec => EdgesReachTheirInput
  <1>1. Init => GpioInv
    BY GpioInitial DEF Init
  <1>2. GpioInv /\ [Next]_vars => GpioInv'
    BY GpioStep DEF Next, vars, gpio_vars
  <1>3. GpioInv => Gpio!InterruptFindsInput /\ Gpio!GroupsFollowInputs
    BY GpioSafe
  <1>4. GpioInv /\ [Next]_vars =>
            [\A l \in gpio_flags \ gpio_flags' :
                \/ Gpio!interrupt_for(l) \in gpio_enabled
                \/ \E t \in Threads : gpio_jobs[t] # gpio_jobs'[t] /\ Gpio!Line(t) = l]_gpio_vars
    BY GpioKeeps DEF Next, vars, gpio_vars
  <1> QED BY <1>1, <1>2, <1>3, <1>4, PTL
          DEF Spec, EdgesReachTheirInput, Gpio!EdgesReachTheirInput, Gpio!OthersEdgesKept, Gpio!vars, gpio_vars

-----------------------------------------------------------------------------
(* linux/Gpio.cpp.                                                          *)

PinJob == [does : {"nothing", "copies", "calls", "toggles"}, level : BOOLEAN,
           callback : Callbacks \cup {"none"}]
PinTypes ==
    /\ pin_jobs \in [Threads -> PinJob]
    /\ pin_holders \subseteq Threads
    /\ pin_m_level \in BOOLEAN
    /\ pin_m_edgeCallback \in Callbacks \cup {"none"}
    /\ pin_seen \in [rising : Nat, falling : Nat]
    /\ pin_latch \in BOOLEAN
    /\ pin_toggled \in [times : Nat, from : BOOLEAN]
\* Who works on the input holds it, so that it is not destroyed meanwhile; the
\* callback goes with the last reference.
PinHolders ==
    /\ \A t \in Threads : /\ pin_jobs[t].does \in {"copies", "calls"} => t \in pin_holders
                          /\ pin_jobs[t].callback # "none" <=> pin_jobs[t].does = "calls"
    /\ pin_holders = {} => pin_m_edgeCallback = "none"
\* Rising and falling edges alternate, also when setters overtake each other.
PinEdges ==
    IF pin_m_level THEN pin_seen.rising - pin_seen.falling \in {0, 1}
    ELSE pin_seen.rising - pin_seen.falling \in {-1, 0}
PinAlive ==
    pin_alive = ({pin_m_edgeCallback} \cup {pin_jobs[t].callback : t \in Threads}) \ {"none"}
PinLatch == pin_latch = (pin_toggled.from # (pin_toggled.times % 2 = 1))
PinInv == PinTypes /\ PinHolders /\ PinEdges /\ PinAlive /\ PinLatch

LEMMA PinInitial == Pin!Init => PinInv
  <1> SUFFICES ASSUME Pin!Init PROVE PinInv
    OBVIOUS
  <1> USE DEF Pin!Init, Pin!Idle, Pin!None, Pin!NoEdges
  <1>1. PinTypes BY DEF PinTypes, PinJob
  <1>2. PinHolders BY DEF PinHolders
  <1>3. PinEdges BY DEF PinEdges
  <1>4. PinAlive BY DEF PinAlive
  <1>5. PinLatch
    <2>1. pin_latch = FALSE /\ pin_toggled.from = FALSE /\ pin_toggled.times = 0
      OBVIOUS
    <2>2. 0 % 2 # 1
      OBVIOUS
    <2> QED BY <2>1, <2>2, Zenon DEF PinLatch
  <1> QED BY <1>1, <1>2, <1>3, <1>4, <1>5 DEF PinInv

\* Nobody refers to a callback of an input without holders.
LEMMA PinUnheld ==
    ASSUME PinInv, pin_holders = {}
    PROVE  pin_alive = {} /\ pin_m_edgeCallback = "none"
  <1>1. pin_m_edgeCallback = "none" /\ \A t \in Threads : pin_jobs[t].callback = "none"
    BY DEF PinInv, PinHolders
  <1> QED BY <1>1 DEF PinInv, PinAlive

LEMMA PinCreateStep ==
    ASSUME PinInv, NEW t \in Threads, NEW e, Pin!Create(t, e)
    PROVE  PinInv'
  <1> USE DEF Pin!None, Pin!NoEdges
  <1>1. /\ pin_holders = {} /\ pin_holders' = {t} /\ pin_m_level' \in BOOLEAN
        /\ pin_m_edgeCallback' = "none" /\ pin_seen' = [rising |-> 0, falling |-> 0]
        /\ UNCHANGED <<pin_jobs, pin_alive, pin_latch, pin_toggled>>
    BY DEF Pin!Create, Pin!output
  <1>2. PinTypes' BY <1>1 DEF PinInv, PinTypes
  <1>3. PinHolders' BY <1>1 DEF PinInv, PinHolders
  <1>4. PinEdges' BY <1>1 DEF PinEdges
  <1>5. PinAlive' BY <1>1, PinUnheld DEF PinInv, PinAlive
  <1>6. PinLatch' BY <1>1 DEF PinInv, PinLatch
  <1> QED BY <1>2, <1>3, <1>4, <1>5, <1>6 DEF PinInv

LEMMA PinShareStep ==
    ASSUME PinInv, NEW t \in Threads, NEW u \in Threads, Pin!Share(t, u)
    PROVE  PinInv'
  <1>1. /\ pin_holders' = pin_holders \cup {u}
        /\ UNCHANGED <<pin_jobs, pin_m_level, pin_m_edgeCallback, pin_alive, pin_seen,
                       pin_latch, pin_toggled>>
    BY DEF Pin!Share, Pin!output
  <1>2. PinTypes' BY <1>1 DEF PinInv, PinTypes
  <1>3. PinHolders' BY <1>1 DEF PinInv, PinHolders
  <1>4. PinEdges' /\ PinAlive' /\ PinLatch' BY <1>1 DEF PinInv, PinEdges, PinAlive, PinLatch
  <1> QED BY <1>2, <1>3, <1>4 DEF PinInv

LEMMA PinDropStep ==
    ASSUME PinInv, NEW t \in Threads, Pin!Drop(t)
    PROVE  PinInv'
  <1> USE DEF Pin!None, Pin!Idle
  <1>1. /\ pin_holders' = pin_holders \ {t} /\ pin_jobs[t] = Pin!Idle
        /\ pin_m_edgeCallback' = IF pin_holders' = {} THEN "none" ELSE pin_m_edgeCallback
        /\ pin_alive' = IF pin_holders' = {} THEN {} ELSE pin_alive
        /\ UNCHANGED <<pin_jobs, pin_m_level, pin_seen, pin_latch, pin_toggled>>
    BY DEF Pin!Drop, Pin!output
  <1>2. PinTypes' BY <1>1 DEF PinInv, PinTypes
  <1>3. PinHolders' BY <1>1 DEF PinInv, PinHolders
  <1>4. PinEdges' /\ PinLatch' BY <1>1 DEF PinInv, PinEdges, PinLatch
  <1>5. PinAlive'
    <2>1. CASE pin_holders' = {}
      <3>1. \A u \in Threads : pin_jobs'[u].callback = "none"
        BY <1>3, <2>1 DEF PinHolders
      <3> QED BY <3>1, <1>1, <2>1 DEF PinAlive
    <2>2. CASE pin_holders' # {}
      BY <2>2, <1>1 DEF PinInv, PinAlive
    <2> QED BY <2>1, <2>2
  <1> QED BY <1>2, <1>3, <1>4, <1>5 DEF PinInv

LEMMA PinSetCallbackStep ==
    ASSUME PinInv, NEW t \in Threads, NEW new \in Callbacks \cup {"none"},
           Pin!SetEdgeCallback(t, new)
    PROVE  PinInv'
  <1> USE DEF Pin!None
  <1>1. /\ t \in pin_holders /\ pin_m_edgeCallback' = new
        /\ pin_alive' = Pin!Kept(new, t) \cup ({pin_jobs[t].callback} \ {"none"})
        /\ UNCHANGED <<pin_jobs, pin_holders, pin_m_level, pin_seen, pin_latch, pin_toggled>>
    BY DEF Pin!SetEdgeCallback, Pin!output
  <1>2. PinTypes' BY <1>1 DEF PinInv, PinTypes
  <1>3. PinHolders' BY <1>1 DEF PinInv, PinHolders
  <1>4. PinEdges' /\ PinLatch' BY <1>1 DEF PinInv, PinEdges, PinLatch
  <1>5. PinAlive'
    <2>1. Pin!InCalls(t) = {pin_jobs[u].callback : u \in Threads \ {t}}
      BY DEF Pin!InCalls
    <2>2. Pin!InCalls(t) \ {"none"} \subseteq pin_alive
      BY <2>1 DEF PinInv, PinAlive
    <2>3. pin_alive' = ({new} \cup Pin!InCalls(t) \cup {pin_jobs[t].callback}) \ {"none"}
      BY <1>1, <2>2 DEF Pin!Kept
    <2>4. Pin!InCalls(t) \cup {pin_jobs[t].callback} = {pin_jobs[u].callback : u \in Threads}
      BY <2>1
    <2> QED BY <2>3, <2>4, <1>1 DEF PinAlive
  <1> QED BY <1>2, <1>3, <1>4, <1>5 DEF PinInv

\* A step of one thread that leaves the input alone: its job changes, and with
\* it perhaps the callbacks that are alive.
LEMMA PinJobStep ==
    ASSUME PinInv, NEW t \in Threads, NEW job \in PinJob, pin_jobs' = [pin_jobs EXCEPT ![t] = job],
           job.does \in {"copies", "calls"} => t \in pin_holders,
           job.callback # "none" <=> job.does = "calls",
           UNCHANGED <<pin_holders, pin_m_edgeCallback>>
    PROVE  /\ pin_jobs' \in [Threads -> PinJob] /\ pin_jobs'[t] = job
           /\ \A u \in Threads \ {t} : pin_jobs'[u] = pin_jobs[u]
           /\ PinHolders'
           /\ {pin_jobs'[u].callback : u \in Threads} = Pin!InCalls(t) \cup {job.callback}
           /\ {pin_jobs[u].callback : u \in Threads} = Pin!InCalls(t) \cup {pin_jobs[t].callback}
  <1>1. /\ pin_jobs' \in [Threads -> PinJob] /\ pin_jobs'[t] = job
        /\ \A u \in Threads \ {t} : pin_jobs'[u] = pin_jobs[u]
    BY DEF PinInv, PinTypes
  <1>2. PinHolders'
    BY <1>1 DEF PinInv, PinHolders
  <1>3. /\ {pin_jobs'[u].callback : u \in Threads} = Pin!InCalls(t) \cup {job.callback}
        /\ {pin_jobs[u].callback : u \in Threads} = Pin!InCalls(t) \cup {pin_jobs[t].callback}
    BY <1>1 DEF Pin!InCalls
  <1> QED BY <1>1, <1>2, <1>3

LEMMA PinSetLevelStep ==
    ASSUME PinInv, NEW t \in Threads, NEW level \in BOOLEAN, Pin!SetSimulatedLevel(t, level)
    PROVE  PinInv'
  <1> USE DEF Pin!None, Pin!Idle
  <1>1. /\ t \in pin_holders /\ pin_jobs[t] = Pin!Idle /\ pin_m_level' = level
        /\ pin_seen' = IF pin_m_level = level THEN pin_seen
                       ELSE IF level THEN [pin_seen EXCEPT !.rising = @ + 1]
                       ELSE [pin_seen EXCEPT !.falling = @ + 1]
        /\ UNCHANGED <<pin_holders, pin_m_edgeCallback, pin_alive, pin_latch, pin_toggled>>
    BY DEF Pin!SetSimulatedLevel, Pin!output
  <1>2. /\ pin_seen' \in [rising : Nat, falling : Nat]
        /\ PinEdges'
    <2>1. pin_seen \in [rising : Nat, falling : Nat] /\ pin_m_level \in BOOLEAN /\ PinEdges
      BY DEF PinInv, PinTypes
    <2>2. CASE pin_m_level = level
      BY <2>1, <2>2, <1>1 DEF PinEdges
    <2>3. CASE pin_m_level # level /\ level
      <3>1. /\ pin_seen'.rising = pin_seen.rising + 1 /\ pin_seen'.falling = pin_seen.falling
            /\ pin_seen' \in [rising : Nat, falling : Nat]
        BY <2>1, <2>3, <1>1
      <3>2. pin_seen.rising - pin_seen.falling \in {-1, 0}
        BY <2>1, <2>3 DEF PinEdges
      <3>3. pin_seen'.rising - pin_seen'.falling \in {0, 1}
        BY <2>1, <3>1, <3>2
      <3> QED BY <3>1, <3>3, <2>3, <1>1 DEF PinEdges
    <2>4. CASE pin_m_level # level /\ ~level
      <3>1. /\ pin_seen'.rising = pin_seen.rising /\ pin_seen'.falling = pin_seen.falling + 1
            /\ pin_seen' \in [rising : Nat, falling : Nat]
        BY <2>1, <2>4, <1>1
      <3>2. pin_seen.rising - pin_seen.falling \in {0, 1}
        BY <2>1, <2>4 DEF PinEdges
      <3>3. pin_seen'.rising - pin_seen'.falling \in {-1, 0}
        BY <2>1, <3>1, <3>2
      <3> QED BY <3>1, <3>3, <2>4, <1>1 DEF PinEdges
    <2> QED BY <2>2, <2>3, <2>4
  <1>3. PinLatch' BY <1>1 DEF PinInv, PinLatch
  <1>4. CASE UNCHANGED pin_jobs
    <2>1. PinTypes' BY <1>1, <1>2, <1>4 DEF PinInv, PinTypes
    <2>2. PinHolders' /\ PinAlive' BY <1>1, <1>4 DEF PinInv, PinHolders, PinAlive
    <2> QED BY <2>1, <2>2, <1>2, <1>3 DEF PinInv
  <1>5. CASE Pin!Goes(t, "copies", level, "none")
    <2> DEFINE job == [does |-> "copies", level |-> level, callback |-> "none"]
    <2>1. pin_jobs' = [pin_jobs EXCEPT ![t] = job] BY <1>5 DEF Pin!Goes
    <2>2. job \in PinJob /\ job.callback = "none" /\ job.does = "copies" BY DEF PinJob
    <2> HIDE DEF job
    <2>3. /\ pin_jobs' \in [Threads -> PinJob] /\ PinHolders'
          /\ {pin_jobs'[u].callback : u \in Threads} = {pin_jobs[u].callback : u \in Threads}
      <3>1. pin_jobs[t].callback = "none" BY <1>1
      <3>2. /\ job.does \in {"copies", "calls"} => t \in pin_holders
            /\ job.callback # "none" <=> job.does = "calls"
        BY <1>1, <2>2
      <3> QED BY <2>1, <2>2, <3>1, <3>2, <1>1, PinJobStep
    <2>4. PinTypes' BY <1>1, <1>2, <2>3 DEF PinInv, PinTypes
    <2>5. PinAlive' BY <1>1, <2>3 DEF PinInv, PinAlive
    <2> QED BY <2>3, <2>4, <2>5, <1>2, <1>3 DEF PinInv
  <1> QED BY <1>4, <1>5 DEF Pin!SetSimulatedLevel

LEMMA PinCopyStep ==
    ASSUME PinInv, NEW t \in Threads, Pin!CopyCallback(t)
    PROVE  PinInv'
  <1> USE DEF Pin!None, Pin!Idle
  <1> DEFINE job == IF pin_m_edgeCallback = "none" THEN Pin!Idle
                    ELSE [does |-> "calls", level |-> pin_jobs[t].level, callback |-> pin_m_edgeCallback]
  <1>1. /\ pin_jobs[t].does = "copies"
        /\ UNCHANGED <<pin_holders, pin_m_level, pin_m_edgeCallback, pin_alive, pin_seen,
                       pin_latch, pin_toggled>>
        /\ pin_jobs' = [pin_jobs EXCEPT ![t] = job]
    BY DEF Pin!CopyCallback, Pin!input, Pin!output, Pin!Ends, Pin!Goes
  <1>2. /\ job \in PinJob /\ job.callback = pin_m_edgeCallback
        /\ job.callback # "none" <=> job.does = "calls"
        /\ t \in pin_holders /\ pin_jobs[t].callback = "none"
    BY <1>1 DEF PinInv, PinTypes, PinJob, PinHolders
  <1> HIDE DEF job
  <1>3. /\ pin_jobs' \in [Threads -> PinJob] /\ PinHolders'
        /\ {pin_jobs'[u].callback : u \in Threads} = Pin!InCalls(t) \cup {pin_m_edgeCallback}
        /\ {pin_jobs[u].callback : u \in Threads} = Pin!InCalls(t) \cup {"none"}
    BY <1>1, <1>2, PinJobStep
  <1>4. PinTypes' BY <1>1, <1>3 DEF PinInv, PinTypes
  <1>5. PinAlive' BY <1>1, <1>3 DEF PinInv, PinAlive
  <1>6. PinEdges' /\ PinLatch' BY <1>1 DEF PinInv, PinEdges, PinLatch
  <1> QED BY <1>3, <1>4, <1>5, <1>6 DEF PinInv

LEMMA PinReturnStep ==
    ASSUME PinInv, NEW t \in Threads, Pin!CallReturns(t)
    PROVE  PinInv'
  <1> USE DEF Pin!None
  <1> DEFINE job == Pin!Idle
  <1>1. /\ pin_alive' = Pin!Kept(pin_m_edgeCallback, t)
        /\ UNCHANGED <<pin_holders, pin_m_level, pin_m_edgeCallback, pin_seen, pin_latch, pin_toggled>>
        /\ pin_jobs' = [pin_jobs EXCEPT ![t] = job]
    BY DEF Pin!CallReturns, Pin!output, Pin!Ends
  <1>2. job \in PinJob /\ job.callback = "none" /\ job.does = "nothing"
    BY DEF PinJob, Pin!Idle
  <1> HIDE DEF job
  <1>3. /\ pin_jobs' \in [Threads -> PinJob] /\ PinHolders'
        /\ {pin_jobs'[u].callback : u \in Threads} = Pin!InCalls(t) \cup {"none"}
        /\ {pin_jobs[u].callback : u \in Threads} = Pin!InCalls(t) \cup {pin_jobs[t].callback}
    BY ZenonT(30), <1>1, <1>2, PinJobStep
  <1>4. PinTypes' BY <1>1, <1>3 DEF PinInv, PinTypes
  <1>5. PinAlive'
    <2>1. (Pin!InCalls(t) \cup {pin_m_edgeCallback}) \ {"none"} \subseteq pin_alive
      BY <1>3 DEF PinInv, PinAlive
    <2>2. pin_alive' = (Pin!InCalls(t) \cup {pin_m_edgeCallback}) \ {"none"}
      BY <1>1, <2>1 DEF Pin!Kept
    <2> QED BY <2>2, <1>1, <1>3 DEF PinAlive
  <1>6. PinEdges' /\ PinLatch' BY <1>1 DEF PinInv, PinEdges, PinLatch
  <1> QED BY <1>3, <1>4, <1>5, <1>6 DEF PinInv

\* One toggle more changes the level.
LEMMA PinToggled ==
    ASSUME NEW n \in Nat
    PROVE  ((n + 1) % 2 = 1) <=> ~(n % 2 = 1)
  OBVIOUS

LEMMA PinOutputStep ==
    ASSUME PinInv, NEW t \in Threads,
           \/ \E level \in BOOLEAN : Pin!Write(t, level)
           \/ Pin!ReadLatch(t) \/ Pin!CompareExchange(t)
    PROVE  PinInv'
  <1> USE DEF Pin!None, Pin!Idle
  <1>1. UNCHANGED <<pin_holders, pin_m_level, pin_m_edgeCallback, pin_alive, pin_seen>>
    BY DEF Pin!Write, Pin!ReadLatch, Pin!CompareExchange, Pin!input, Pin!output
  <1>2. PinEdges' BY <1>1 DEF PinInv, PinEdges
  <1>3. /\ pin_latch \in BOOLEAN /\ pin_toggled \in [times : Nat, from : BOOLEAN]
        /\ pin_jobs \in [Threads -> PinJob] /\ PinLatch
    BY DEF PinInv, PinTypes
  <1>4. /\ pin_latch' \in BOOLEAN /\ pin_toggled' \in [times : Nat, from : BOOLEAN]
        /\ PinLatch'
    <2>1. CASE \E level \in BOOLEAN : Pin!Write(t, level)
      BY <2>1 DEF Pin!Write, PinLatch
    <2>2. CASE UNCHANGED <<pin_latch, pin_toggled>>
      BY <2>2, <1>3 DEF PinLatch
    <2>3. CASE /\ pin_latch' = ~pin_latch
               /\ pin_toggled' = [pin_toggled EXCEPT !.times = @ + 1]
      <3>1. /\ pin_toggled'.times = pin_toggled.times + 1 /\ pin_toggled'.from = pin_toggled.from
            /\ pin_toggled' \in [times : Nat, from : BOOLEAN]
        BY <2>3, <1>3
      <3>2. ((pin_toggled.times + 1) % 2 = 1) <=> ~(pin_toggled.times % 2 = 1)
        BY <1>3, PinToggled
      <3>3. pin_latch' \in BOOLEAN
        BY <2>3, <1>3
      <3>4. PinLatch'
        BY <3>1, <3>2, <2>3, <1>3 DEF PinLatch
      <3> QED BY <3>1, <3>3, <3>4
    <2> QED BY <2>1, <2>2, <2>3 DEF Pin!ReadLatch, Pin!CompareExchange, Pin!output
  <1>5. /\ pin_jobs' \in [Threads -> PinJob] /\ PinHolders'
        /\ {pin_jobs'[u].callback : u \in Threads} = {pin_jobs[u].callback : u \in Threads}
    <2>1. CASE UNCHANGED pin_jobs
      BY <2>1, <1>1, <1>3 DEF PinInv, PinHolders
    <2>2. ASSUME NEW job \in PinJob, pin_jobs' = [pin_jobs EXCEPT ![t] = job],
                 job.callback = "none", job.does \in {"nothing", "toggles"},
                 pin_jobs[t].callback = "none"
          PROVE  /\ pin_jobs' \in [Threads -> PinJob] /\ PinHolders'
                 /\ {pin_jobs'[u].callback : u \in Threads} = {pin_jobs[u].callback : u \in Threads}
      BY <2>2, <1>1, PinJobStep
    <2>3. CASE Pin!ReadLatch(t) \/ Pin!CompareExchange(t)
      <3>1. pin_jobs[t].callback = "none"
        BY <2>3 DEF Pin!ReadLatch, Pin!CompareExchange, PinInv, PinHolders
      <3>2. PICK job \in {Pin!Idle, [does |-> "toggles", level |-> pin_latch, callback |-> "none"]} :
                pin_jobs' = [pin_jobs EXCEPT ![t] = job]
        BY <2>3 DEF Pin!ReadLatch, Pin!CompareExchange, Pin!Goes, Pin!Ends
      <3>3. job \in PinJob /\ job.callback = "none" /\ job.does \in {"nothing", "toggles"}
        <4>1. CASE job = Pin!Idle BY <4>1 DEF PinJob
        <4>2. CASE job = [does |-> "toggles", level |-> pin_latch, callback |-> "none"]
          BY <4>2, <1>3 DEF PinJob
        <4> QED BY <3>2, <4>1, <4>2
      <3> QED BY <3>1, <3>2, <3>3, <2>2
    <2> QED BY <2>1, <2>3 DEF Pin!Write
  <1>6. PinTypes' BY <1>1, <1>4, <1>5 DEF PinInv, PinTypes
  <1>7. PinAlive' BY <1>1, <1>5 DEF PinInv, PinAlive
  <1> QED BY <1>2, <1>4, <1>5, <1>6, <1>7 DEF PinInv

LEMMA PinStep == PinInv /\ [Pin!Next]_pin_vars => PinInv'
  <1> SUFFICES ASSUME PinInv, [Pin!Next]_pin_vars PROVE PinInv'
    OBVIOUS
  <1>1. CASE UNCHANGED pin_vars
    BY <1>1 DEF pin_vars, PinInv, PinTypes, PinHolders, PinEdges, PinAlive, PinLatch
  <1>2. CASE Pin!Next
    BY <1>2, PinCreateStep, PinShareStep, PinDropStep, PinSetCallbackStep, PinSetLevelStep,
       PinCopyStep, PinReturnStep, PinOutputStep DEF Pin!Next, Pin!None
  <1> QED BY <1>1, <1>2

LEMMA PinSafe == PinInv => CallsLiveCallbacks
  <1> SUFFICES ASSUME PinInv PROVE CallsLiveCallbacks
    OBVIOUS
  <1>1. \A t \in Threads : pin_jobs[t].does = "calls" => pin_jobs[t].callback \in pin_alive
    BY DEF PinInv, PinHolders, PinAlive
  <1>2. pin_seen.rising - pin_seen.falling \in {-1, 0, 1}
    BY DEF PinInv, PinTypes, PinEdges
  <1> QED BY <1>1, <1>2 DEF CallsLiveCallbacks, Pin!CallsLiveCallbacks, PinInv, PinAlive, PinLatch, Pin!None

\* linux/Gpio.cpp: a callback that runs exists although it may have been
\* replaced, none outlives its last reference, and no edge or toggle is lost,
\* for any number of threads and callbacks.
THEOREM CallsLiveCallbacksHolds == Spec => []CallsLiveCallbacks
  <1>1. Init => PinInv
    BY PinInitial DEF Init
  <1>2. PinInv /\ [Next]_vars => PinInv'
    BY PinStep DEF Next, vars, pin_vars
  <1>3. PinInv => CallsLiveCallbacks
    BY PinSafe
  <1> QED BY <1>1, <1>2, <1>3, PTL DEF Spec, vars

-----------------------------------------------------------------------------
(* stm32/Timer.cpp.                                                         *)

\* The positions of each operation.
TimPlaces == {"idle", "entered", "masks", "stops", "marks", "runs", "loads", "latches",
              "restores", "writes", "guarded", "unregisters"}
TimPositions(does, at) ==
    \/ does = "nothing" /\ at = "idle"
    \/ does # "nothing" /\ at = "entered"
    \/ does = "start" /\ at = "masks"
    \/ does = "stop" /\ at \in {"stops", "marks"}
    \/ does = "startIt" /\ at \in {"runs", "marks"}
    \/ does = "setPrescaler" /\ at \in {"loads", "latches", "restores", "marks"}
    \/ does \in {"setCounter", "forceUpdateEvent"} /\ at = "writes"
    \/ does = "swap" /\ at = "guarded"
    \/ does = "destroy" /\ at = "unregisters"
TimOps == [does : Timer!Operations \cup {"nothing"}, at : TimPlaces, enabled : BOOLEAN,
           pending : BOOLEAN]
TimOp ==
    /\ tim_op \in TimOps
    /\ TimPositions(tim_op.does, tim_op.at)
    /\ tim_op.at = "idle" => ~tim_op.enabled
TimBits ==
    /\ tim_running \in BOOLEAN /\ tim_enabled \in BOOLEAN /\ tim_flag \in BOOLEAN
    /\ tim_registered \in BOOLEAN
    /\ tim_awaited \in {"off", "on", "due"}
TimCounts == tim_m_stateVersion \in Nat /\ tim_epoch \in Nat
\* The operation has masked the interrupt and will unmask it as it was.
TimMasked == \/ tim_op.at \in {"stops", "loads", "latches", "restores"}
             \/ Timer!At("setPrescaler", "marks")
TimWanted == IF TimMasked THEN tim_op.enabled ELSE tim_enabled
\* startIt has turned interrupts on before the timer has them.
TimStarts == tim_op.does = "startIt" /\ tim_op.at # "entered"
TimMasks ==
    /\ TimMasked \/ Timer!At("startIt", "runs") => ~tim_enabled
    /\ Timer!At("stop", "marks") \/ Timer!At("destroy", "unregisters") \/ ~tim_registered =>
           ~tim_enabled /\ tim_awaited = "off"
    /\ tim_op.at = "entered" => tim_op.enabled = tim_enabled
    /\ ~TimStarts => /\ tim_awaited # "off" => TimWanted /\ tim_running
                     /\ TimWanted => tim_awaited # "off"
    /\ TimStarts => /\ tim_awaited # "off"
                    /\ tim_op.at = "runs" => ~tim_op.enabled
                    /\ tim_op.at = "marks" => tim_running
\* A flag is an update to report, except where UG's is about to be cleared.
TimClears == tim_op.at \in {"loads", "latches", "restores"} /\ ~tim_op.pending
TimFlags ==
    /\ tim_awaited = "due" => tim_flag
    /\ TimClears => tim_awaited # "due"
    /\ ~TimClears => (tim_flag /\ (TimWanted \/ TimStarts) => tim_awaited = "due")
    /\ tim_op.at \in {"loads", "latches"} /\ tim_op.pending => tim_flag
    /\ tim_op.at = "restores" => tim_flag
\* A swap and nothing else tears the callback; operations need the instance.
TimInstance ==
    /\ tim_callback = "torn" <=> Timer!At("swap", "guarded")
    /\ tim_op.does # "nothing" => tim_registered
\* The counter jumps ahead of its version while it stands, or within setPrescaler.
TimStill == Timer!At("stop", "marks") \/ Timer!At("destroy", "unregisters") \/ ~tim_registered
TimAhead == tim_op.does = "setPrescaler" /\ tim_op.at \in {"restores", "marks"}
TimEpoch ==
    /\ TimStill => ~tim_running
    /\ tim_epoch <= tim_m_stateVersion + 1
    /\ tim_epoch = tim_m_stateVersion + 1 => TimStill \/ TimAhead
\* A sample of the version now, with no step of a change seen: the counter has not
\* jumped since, and the rate was read before it could.
TimReads == [at : {"idle", "counter", "rate", "verify", "accepted"}, version : Nat, epoch : Nat,
             rate : Nat, between : BOOLEAN]
TimCurrent == ~tim_reader.between /\ tim_reader.version = tim_m_stateVersion
TimReader ==
    /\ tim_reader \in TimReads
    /\ tim_reader.version <= tim_m_stateVersion
    /\ TimCurrent /\ tim_reader.at \in {"rate", "verify", "accepted"} /\ ~TimStill /\ ~TimAhead =>
           tim_op.at # "writes" /\ tim_reader.epoch = tim_epoch
    /\ TimCurrent /\ tim_reader.at = "verify" /\ ~TimStill => tim_reader.rate = tim_reader.epoch
    /\ ~tim_reader.between /\ tim_reader.at = "accepted" => tim_reader.rate = tim_reader.epoch
TimInv == TimOp /\ TimBits /\ TimCounts /\ TimMasks /\ TimFlags /\ TimInstance /\ TimEpoch /\ TimReader

\* What a sample in progress is worth after a step that leaves it alone.
LEMMA TimNewVersion ==
    ASSUME TimInv, UNCHANGED tim_reader, tim_m_stateVersion' = tim_m_stateVersion + 1
    PROVE  TimReader'
  <1>1. tim_reader.version \in Nat /\ tim_m_stateVersion \in Nat
    BY DEF TimInv, TimReader, TimReads, TimCounts
  <1>2. ~TimCurrent'
    BY <1>1 DEF TimInv, TimReader, TimCurrent
  <1> QED BY <1>1, <1>2 DEF TimInv, TimReader
LEMMA TimSameVersion ==
    ASSUME TimInv, UNCHANGED <<tim_reader, tim_m_stateVersion>>,
           TimStill => TimStill',
           ~TimStill' /\ ~TimAhead' =>
               /\ ~TimAhead /\ tim_op'.at # "writes"
               /\ tim_op.at = "writes" \/ tim_epoch' = tim_epoch
    PROVE  TimReader'
  BY DEF TimInv, TimReader, TimCurrent

LEMMA TimGoes ==
    ASSUME TimOp, NEW where \in TimPlaces, Timer!Goes(where)
    PROVE  /\ tim_op'.does = tim_op.does /\ tim_op'.at = where /\ tim_op'.enabled = tim_op.enabled
           /\ tim_op'.pending = tim_op.pending /\ tim_op' \in TimOps
  BY DEF TimOp, TimOps, Timer!Goes

LEMMA TimReturns ==
    ASSUME Timer!Return
    PROVE  /\ tim_op'.does = "nothing" /\ tim_op'.at = "idle" /\ ~tim_op'.enabled
           /\ tim_op' \in TimOps
  <1>1. tim_op' = [does |-> "nothing", at |-> "idle", enabled |-> FALSE, pending |-> FALSE]
    BY DEF Timer!Return, Timer!Idle
  <1>2. "idle" \in TimPlaces
    BY DEF TimPlaces
  <1>3. /\ tim_op' \in TimOps
        /\ tim_op'.does = "nothing" /\ tim_op'.at = "idle"
    BY <1>1, <1>2 DEF TimOps
  <1>4. ~tim_op'.enabled
    BY <1>1
  <1> QED BY <1>3, <1>4

\* The first state: nothing runs.
LEMMA TimInitial == Timer!Init => TimInv
  <1> SUFFICES ASSUME Timer!Init PROVE TimInv
    OBVIOUS
  <1> USE DEF Timer!Init, Timer!Idle, Timer!NoSample, Timer!At, Timer!Operations
  <1>1. TimOp BY DEF TimOp, TimOps, TimPlaces, TimPositions
  <1>2. TimBits BY DEF TimBits
  <1>3. TimCounts BY DEF TimCounts
  <1>4. TimMasks BY DEF TimMasks, TimMasked, TimWanted, TimStarts
  <1>5. TimFlags BY DEF TimFlags, TimWanted, TimMasked, TimStarts
  <1>6. TimInstance BY DEF TimInstance
  <1>7. TimEpoch BY DEF TimEpoch
  <1>8. TimReader BY DEF TimReader, TimReads, TimCurrent
  <1> QED BY <1>1, <1>2, <1>3, <1>4, <1>5, <1>6, <1>7, <1>8 DEF TimInv

\* start: the counter runs, with the interrupts it finds.
LEMMA TimStartRuns ==
    ASSUME TimInv, Timer!StartRuns
    PROVE  TimInv'
  <1>1. CASE tim_running' = TRUE /\ Timer!Goes("masks")
    <2>1. /\ tim_op'.does = tim_op.does /\ tim_op'.at = "masks" /\ tim_op'.enabled = tim_op.enabled
         /\ tim_op' \in TimOps
      BY <1>1, TimGoes DEF TimInv, TimPlaces, Timer!StartRuns
    <2>2. TimOp'
      BY <1>1, <2>1 DEF TimInv, TimOp, TimPositions, Timer!At, Timer!StartRuns, Timer!interrupt,
           Timer!counter, Timer!rest
    <2>3. TimBits'
      BY <1>1, <2>1
           DEF TimInv, TimBits, TimOp, TimOps, Timer!StartRuns, Timer!interrupt, Timer!counter,
           Timer!rest
    <2>4. TimCounts'
      BY <1>1, <2>1
           DEF TimInv, TimCounts, Timer!StartRuns, Timer!interrupt, Timer!counter, Timer!rest
    <2>5. TimMasks'
      BY <1>1, <2>1
           DEF TimInv, TimMasks, TimMasked, TimWanted, TimStarts, TimOp, TimPositions, TimBits,
           Timer!At, Timer!StartRuns, Timer!interrupt, Timer!counter, Timer!rest
    <2>6. TimFlags'
      BY <1>1, <2>1
           DEF TimInv, TimFlags, TimClears, TimMasks, TimMasked, TimWanted, TimStarts, TimOp, TimPositions,
           TimBits, Timer!At, Timer!StartRuns, Timer!interrupt, Timer!counter, Timer!rest
    <2>7. TimInstance'
      BY <1>1, <2>1 DEF TimInv, TimInstance, TimOp, TimPositions, Timer!At, Timer!StartRuns,
           Timer!interrupt, Timer!counter, Timer!rest
    <2>8. TimEpoch'
      BY <1>1, <2>1 DEF TimInv, TimEpoch, TimStill, TimAhead, TimCounts, TimInstance, TimOp, TimPositions, Timer!At,
           Timer!StartRuns, Timer!interrupt, Timer!counter, Timer!rest
    <2>9. TimReader'
      BY <1>1, <2>1
           DEF TimInv, TimReader, TimCurrent, TimStill, TimAhead, TimEpoch, TimCounts, TimBits, TimInstance, TimOp, TimPositions,
           Timer!At, Timer!StartRuns, Timer!interrupt, Timer!counter, Timer!rest
    <2> QED BY <2>2, <2>3, <2>4, <2>5, <2>6, <2>7, <2>8, <2>9 DEF TimInv
  <1>2. CASE ~tim_running /\ Timer!Return /\ UNCHANGED tim_running
    <2>1. /\ tim_op'.does = "nothing" /\ tim_op'.at = "idle" /\ ~tim_op'.enabled
         /\ tim_op' \in TimOps
      BY <1>2, TimReturns DEF Timer!StartRuns
    <2>2. TimOp'
      BY <1>2, <2>1 DEF TimInv, TimOp, TimPositions, Timer!At, Timer!StartRuns, Timer!interrupt,
           Timer!counter, Timer!rest
    <2>3. TimBits'
      BY <1>2, <2>1
           DEF TimInv, TimBits, TimOp, TimOps, Timer!StartRuns, Timer!interrupt, Timer!counter,
           Timer!rest
    <2>4. TimCounts'
      BY <1>2, <2>1
           DEF TimInv, TimCounts, Timer!StartRuns, Timer!interrupt, Timer!counter, Timer!rest
    <2>5. TimMasks'
      BY <1>2, <2>1
           DEF TimInv, TimMasks, TimMasked, TimWanted, TimStarts, TimOp, TimPositions, TimBits,
           Timer!At, Timer!StartRuns, Timer!interrupt, Timer!counter, Timer!rest
    <2>6. TimFlags'
      BY <1>2, <2>1
           DEF TimInv, TimFlags, TimClears, TimMasks, TimMasked, TimWanted, TimStarts, TimOp, TimPositions,
           TimBits, Timer!At, Timer!StartRuns, Timer!interrupt, Timer!counter, Timer!rest
    <2>7. TimInstance'
      BY <1>2, <2>1 DEF TimInv, TimInstance, TimOp, TimPositions, Timer!At, Timer!StartRuns,
           Timer!interrupt, Timer!counter, Timer!rest
    <2>8. TimEpoch'
      BY <1>2, <2>1 DEF TimInv, TimEpoch, TimStill, TimAhead, TimCounts, TimInstance, TimOp, TimPositions, Timer!At,
           Timer!StartRuns, Timer!interrupt, Timer!counter, Timer!rest
    <2>9. TimReader'
      BY <1>2, <2>1
           DEF TimInv, TimReader, TimCurrent, TimStill, TimAhead, TimEpoch, TimCounts, TimBits, TimInstance, TimOp, TimPositions,
           Timer!At, Timer!StartRuns, Timer!interrupt, Timer!counter, Timer!rest
    <2> QED BY <2>2, <2>3, <2>4, <2>5, <2>6, <2>7, <2>8, <2>9 DEF TimInv
  <1> QED BY <1>1, <1>2 DEF Timer!StartRuns

\* start: the interrupts go off.
LEMMA TimStartMasks ==
    ASSUME TimInv, Timer!StartMasks
    PROVE  TimInv'
  <1>1. /\ tim_op'.does = "nothing" /\ tim_op'.at = "idle" /\ ~tim_op'.enabled
       /\ tim_op' \in TimOps
    BY TimReturns DEF Timer!StartMasks
  <1>2. TimOp'
    BY <1>1 DEF TimInv, TimOp, TimPositions, Timer!At, Timer!StartMasks, Timer!markStateChange,
         Timer!interrupt, Timer!counter, Timer!rest
  <1>3. TimBits'
    BY <1>1 DEF TimInv, TimBits, TimOp, TimOps, Timer!StartMasks, Timer!markStateChange,
         Timer!interrupt, Timer!counter, Timer!rest
  <1>4. TimCounts'
    BY <1>1 DEF TimInv, TimCounts, Timer!StartMasks, Timer!markStateChange, Timer!interrupt,
         Timer!counter, Timer!rest
  <1>5. TimMasks'
    BY <1>1 DEF TimInv, TimMasks, TimMasked, TimWanted, TimStarts, TimOp, TimPositions, TimBits,
         Timer!At, Timer!StartMasks, Timer!markStateChange, Timer!interrupt, Timer!counter,
         Timer!rest
  <1>6. TimFlags'
    BY <1>1 DEF TimInv, TimFlags, TimClears, TimMasks, TimMasked, TimWanted, TimStarts, TimOp, TimPositions,
         TimBits, Timer!At, Timer!StartMasks, Timer!markStateChange, Timer!interrupt,
         Timer!counter, Timer!rest
  <1>7. TimInstance'
    BY <1>1 DEF TimInv, TimInstance, TimOp, TimPositions, Timer!At, Timer!StartMasks,
         Timer!markStateChange, Timer!interrupt, Timer!counter, Timer!rest
  <1>8. TimEpoch'
    BY <1>1 DEF TimInv, TimEpoch, TimStill, TimAhead, TimCounts, TimInstance, TimOp, TimPositions, Timer!At,
         Timer!StartMasks, Timer!markStateChange, Timer!interrupt, Timer!counter, Timer!rest
  <1>9. TimReader'
    BY TimNewVersion DEF Timer!StartMasks, Timer!markStateChange, Timer!rest
  <1> QED BY <1>2, <1>3, <1>4, <1>5, <1>6, <1>7, <1>8, <1>9 DEF TimInv

\* stop: the counter stands, ahead of its version, or the masks are put back.
LEMMA TimStopHalts ==
    ASSUME TimInv, Timer!StopHalts
    PROVE  TimInv'
  <1>1. CASE /\ tim_running' = FALSE /\ Timer!JumpsBeforeMark /\ tim_awaited' = "off"
            /\ Timer!Goes("marks")
            /\ UNCHANGED <<tim_enabled, tim_flag, tim_m_stateVersion, Timer!rest>>
    <2>1. /\ tim_op'.does = tim_op.does /\ tim_op'.at = "marks" /\ tim_op'.enabled = tim_op.enabled
         /\ tim_op' \in TimOps
      BY <1>1, TimGoes DEF TimInv, TimPlaces, Timer!StopHalts
    <2>2. TimOp'
      BY <1>1, <2>1
           DEF TimInv, TimOp, TimPositions, Timer!At, Timer!StopHalts, Timer!JumpsBeforeMark,
           Timer!Unmask, Timer!interrupt, Timer!counter, Timer!rest
    <2>3. TimBits'
      BY <1>1, <2>1 DEF TimInv, TimBits, TimOp, TimOps, Timer!StopHalts, Timer!JumpsBeforeMark,
           Timer!Unmask, Timer!interrupt, Timer!counter, Timer!rest
    <2>4. TimCounts'
      BY <1>1, <2>1 DEF TimInv, TimCounts, Timer!StopHalts, Timer!JumpsBeforeMark, Timer!Unmask,
           Timer!interrupt, Timer!counter, Timer!rest
    <2>5. TimMasks'
      BY <1>1, <2>1
           DEF TimInv, TimMasks, TimMasked, TimWanted, TimStarts, TimOp, TimPositions, TimBits,
           Timer!At, Timer!StopHalts, Timer!JumpsBeforeMark, Timer!Unmask, Timer!interrupt,
           Timer!counter, Timer!rest
    <2>6. TimFlags'
      BY <1>1, <2>1
           DEF TimInv, TimFlags, TimClears, TimMasks, TimMasked, TimWanted, TimStarts, TimOp, TimPositions,
           TimBits, Timer!At, Timer!StopHalts, Timer!JumpsBeforeMark, Timer!Unmask,
           Timer!interrupt, Timer!counter, Timer!rest
    <2>7. TimInstance'
      BY <1>1, <2>1 DEF TimInv, TimInstance, TimOp, TimPositions, Timer!At, Timer!StopHalts,
           Timer!JumpsBeforeMark, Timer!Unmask, Timer!interrupt, Timer!counter, Timer!rest
    <2>8. TimEpoch'
      BY <1>1, <2>1 DEF TimInv, TimEpoch, TimStill, TimAhead, TimCounts, TimInstance, TimOp, TimPositions, Timer!At,
           Timer!StopHalts, Timer!JumpsBeforeMark, Timer!Unmask, Timer!interrupt, Timer!counter,
           Timer!rest
    <2>9. TimReader'
      BY <1>1, <2>1
           DEF TimInv, TimReader, TimCurrent, TimStill, TimAhead, TimEpoch, TimCounts, TimBits, TimInstance, TimOp, TimPositions,
           Timer!At, Timer!StopHalts, Timer!JumpsBeforeMark, Timer!Unmask, Timer!interrupt,
           Timer!counter, Timer!rest
    <2> QED BY <2>2, <2>3, <2>4, <2>5, <2>6, <2>7, <2>8, <2>9 DEF TimInv
  <1>2. CASE Timer!Unmask(tim_op.enabled) /\ Timer!Return /\ UNCHANGED Timer!counter
    <2>1. /\ tim_op'.does = "nothing" /\ tim_op'.at = "idle" /\ ~tim_op'.enabled
         /\ tim_op' \in TimOps
      BY <1>2, TimReturns DEF Timer!StopHalts
    <2>2. TimOp'
      BY <1>2, <2>1
           DEF TimInv, TimOp, TimPositions, Timer!At, Timer!StopHalts, Timer!JumpsBeforeMark,
           Timer!Unmask, Timer!interrupt, Timer!counter, Timer!rest
    <2>3. TimBits'
      BY <1>2, <2>1 DEF TimInv, TimBits, TimOp, TimOps, Timer!StopHalts, Timer!JumpsBeforeMark,
           Timer!Unmask, Timer!interrupt, Timer!counter, Timer!rest
    <2>4. TimCounts'
      BY <1>2, <2>1 DEF TimInv, TimCounts, Timer!StopHalts, Timer!JumpsBeforeMark, Timer!Unmask,
           Timer!interrupt, Timer!counter, Timer!rest
    <2>5. TimMasks'
      BY <1>2, <2>1
           DEF TimInv, TimMasks, TimMasked, TimWanted, TimStarts, TimOp, TimPositions, TimBits,
           Timer!At, Timer!StopHalts, Timer!JumpsBeforeMark, Timer!Unmask, Timer!interrupt,
           Timer!counter, Timer!rest
    <2>6. TimFlags'
      BY <1>2, <2>1
           DEF TimInv, TimFlags, TimClears, TimMasks, TimMasked, TimWanted, TimStarts, TimOp, TimPositions,
           TimBits, Timer!At, Timer!StopHalts, Timer!JumpsBeforeMark, Timer!Unmask,
           Timer!interrupt, Timer!counter, Timer!rest
    <2>7. TimInstance'
      BY <1>2, <2>1 DEF TimInv, TimInstance, TimOp, TimPositions, Timer!At, Timer!StopHalts,
           Timer!JumpsBeforeMark, Timer!Unmask, Timer!interrupt, Timer!counter, Timer!rest
    <2>8. TimEpoch'
      BY <1>2, <2>1 DEF TimInv, TimEpoch, TimStill, TimAhead, TimCounts, TimInstance, TimOp, TimPositions, Timer!At,
           Timer!StopHalts, Timer!JumpsBeforeMark, Timer!Unmask, Timer!interrupt, Timer!counter,
           Timer!rest
    <2>9. TimReader'
      BY <1>2, <2>1
           DEF TimInv, TimReader, TimCurrent, TimStill, TimAhead, TimEpoch, TimCounts, TimBits, TimInstance, TimOp, TimPositions,
           Timer!At, Timer!StopHalts, Timer!JumpsBeforeMark, Timer!Unmask, Timer!interrupt,
           Timer!counter, Timer!rest
    <2> QED BY <2>2, <2>3, <2>4, <2>5, <2>6, <2>7, <2>8, <2>9 DEF TimInv
  <1> QED BY <1>1, <1>2 DEF Timer!StopHalts

\* startIt: what came before is forgotten; a start that fails had no interrupts.
LEMMA TimStartItRuns ==
    ASSUME TimInv, Timer!StartItRuns
    PROVE  TimInv'
  <1>1. CASE tim_running' = TRUE /\ Timer!Goes("marks") /\ UNCHANGED <<tim_enabled, tim_awaited>>
    <2>1. /\ tim_op'.does = tim_op.does /\ tim_op'.at = "marks" /\ tim_op'.enabled = tim_op.enabled
         /\ tim_op' \in TimOps
      BY <1>1, TimGoes DEF TimInv, TimPlaces, Timer!StartItRuns
    <2>2. TimOp'
      BY <1>1, <2>1 DEF TimInv, TimOp, TimPositions, Timer!At, Timer!StartItRuns, Timer!interrupt,
           Timer!counter, Timer!rest
    <2>3. TimBits'
      BY <1>1, <2>1
           DEF TimInv, TimBits, TimOp, TimOps, Timer!StartItRuns, Timer!interrupt, Timer!counter,
           Timer!rest
    <2>4. TimCounts'
      BY <1>1, <2>1
           DEF TimInv, TimCounts, Timer!StartItRuns, Timer!interrupt, Timer!counter, Timer!rest
    <2>5. TimMasks'
      BY <1>1, <2>1
           DEF TimInv, TimMasks, TimMasked, TimWanted, TimStarts, TimOp, TimPositions, TimBits,
           Timer!At, Timer!StartItRuns, Timer!interrupt, Timer!counter, Timer!rest
    <2>6. TimFlags'
      BY <1>1, <2>1
           DEF TimInv, TimFlags, TimClears, TimMasks, TimMasked, TimWanted, TimStarts, TimOp, TimPositions,
           TimBits, Timer!At, Timer!StartItRuns, Timer!interrupt, Timer!counter, Timer!rest
    <2>7. TimInstance'
      BY <1>1, <2>1 DEF TimInv, TimInstance, TimOp, TimPositions, Timer!At, Timer!StartItRuns,
           Timer!interrupt, Timer!counter, Timer!rest
    <2>8. TimEpoch'
      BY <1>1, <2>1 DEF TimInv, TimEpoch, TimStill, TimAhead, TimCounts, TimInstance, TimOp, TimPositions, Timer!At,
           Timer!StartItRuns, Timer!interrupt, Timer!counter, Timer!rest
    <2>9. TimReader'
      BY <1>1, <2>1
           DEF TimInv, TimReader, TimCurrent, TimStill, TimAhead, TimEpoch, TimCounts, TimBits, TimInstance, TimOp, TimPositions,
           Timer!At, Timer!StartItRuns, Timer!interrupt, Timer!counter, Timer!rest
    <2> QED BY <2>2, <2>3, <2>4, <2>5, <2>6, <2>7, <2>8, <2>9 DEF TimInv
  <1>2. CASE /\ ~tim_running /\ tim_enabled' = tim_op.enabled /\ tim_awaited' = "off"
            /\ Timer!Return /\ UNCHANGED tim_running
    <2>1. /\ tim_op'.does = "nothing" /\ tim_op'.at = "idle" /\ ~tim_op'.enabled
         /\ tim_op' \in TimOps
      BY <1>2, TimReturns DEF Timer!StartItRuns
    <2>2. TimOp'
      BY <1>2, <2>1 DEF TimInv, TimOp, TimPositions, Timer!At, Timer!StartItRuns, Timer!interrupt,
           Timer!counter, Timer!rest
    <2>3. TimBits'
      BY <1>2, <2>1
           DEF TimInv, TimBits, TimOp, TimOps, Timer!StartItRuns, Timer!interrupt, Timer!counter,
           Timer!rest
    <2>4. TimCounts'
      BY <1>2, <2>1
           DEF TimInv, TimCounts, Timer!StartItRuns, Timer!interrupt, Timer!counter, Timer!rest
    <2>5. TimMasks'
      BY <1>2, <2>1
           DEF TimInv, TimMasks, TimMasked, TimWanted, TimStarts, TimOp, TimPositions, TimBits,
           Timer!At, Timer!StartItRuns, Timer!interrupt, Timer!counter, Timer!rest
    <2>6. TimFlags'
      BY <1>2, <2>1
           DEF TimInv, TimFlags, TimClears, TimMasks, TimMasked, TimWanted, TimStarts, TimOp, TimPositions,
           TimBits, Timer!At, Timer!StartItRuns, Timer!interrupt, Timer!counter, Timer!rest
    <2>7. TimInstance'
      BY <1>2, <2>1 DEF TimInv, TimInstance, TimOp, TimPositions, Timer!At, Timer!StartItRuns,
           Timer!interrupt, Timer!counter, Timer!rest
    <2>8. TimEpoch'
      BY <1>2, <2>1 DEF TimInv, TimEpoch, TimStill, TimAhead, TimCounts, TimInstance, TimOp, TimPositions, Timer!At,
           Timer!StartItRuns, Timer!interrupt, Timer!counter, Timer!rest
    <2>9. TimReader'
      BY <1>2, <2>1
           DEF TimInv, TimReader, TimCurrent, TimStill, TimAhead, TimEpoch, TimCounts, TimBits, TimInstance, TimOp, TimPositions,
           Timer!At, Timer!StartItRuns, Timer!interrupt, Timer!counter, Timer!rest
    <2> QED BY <2>2, <2>3, <2>4, <2>5, <2>6, <2>7, <2>8, <2>9 DEF TimInv
  <1> QED BY <1>1, <1>2 DEF Timer!StartItRuns

\* setCounter and forceUpdateEvent: the jump has its version already.
LEMMA TimWrites ==
    ASSUME TimInv, Timer!Writes
    PROVE  TimInv'
  <1>1. /\ tim_op'.does = "nothing" /\ tim_op'.at = "idle" /\ ~tim_op'.enabled
       /\ tim_op' \in TimOps
    BY TimReturns DEF Timer!Writes
  <1>2. TimOp'
    BY <1>1 DEF TimInv, TimOp, TimPositions, Timer!At, Timer!Writes, Timer!JumpsAfterMark,
         Timer!interrupt, Timer!counter, Timer!rest
  <1>3. TimBits'
    BY <1>1
         DEF TimInv, TimBits, TimOp, TimOps, Timer!Writes, Timer!JumpsAfterMark, Timer!interrupt,
         Timer!counter, Timer!rest
  <1>4. TimCounts'
    BY <1>1 DEF TimInv, TimCounts, Timer!Writes, Timer!JumpsAfterMark, Timer!interrupt,
         Timer!counter, Timer!rest
  <1>5. TimMasks'
    BY <1>1 DEF TimInv, TimMasks, TimMasked, TimWanted, TimStarts, TimOp, TimPositions, TimBits,
         Timer!At, Timer!Writes, Timer!JumpsAfterMark, Timer!interrupt, Timer!counter, Timer!rest
  <1>6. TimFlags'
    BY <1>1 DEF TimInv, TimFlags, TimClears, TimMasks, TimMasked, TimWanted, TimStarts, TimOp, TimPositions,
         TimBits, Timer!At, Timer!Writes, Timer!JumpsAfterMark, Timer!interrupt, Timer!counter,
         Timer!rest
  <1>7. TimInstance'
    BY <1>1 DEF TimInv, TimInstance, TimOp, TimPositions, Timer!At, Timer!Writes,
         Timer!JumpsAfterMark, Timer!interrupt, Timer!counter, Timer!rest
  <1>8. TimEpoch'
    BY <1>1 DEF TimInv, TimEpoch, TimStill, TimAhead, TimCounts, TimInstance, TimOp, TimPositions, Timer!At,
         Timer!Writes, Timer!JumpsAfterMark, Timer!interrupt, Timer!counter, Timer!rest
  <1>9. TimReader'
    BY <1>1 DEF TimInv, TimReader, TimCurrent, TimStill, TimAhead, TimEpoch, TimCounts, TimBits, TimInstance, TimOp, TimPositions,
         Timer!At, Timer!Writes, Timer!JumpsAfterMark, Timer!interrupt, Timer!counter, Timer!rest
  <1> QED BY <1>2, <1>3, <1>4, <1>5, <1>6, <1>7, <1>8, <1>9 DEF TimInv

\* The destructor: nothing is awaited any more.
LEMMA TimDestroyStops ==
    ASSUME TimInv, Timer!DestroyStops
    PROVE  TimInv'
  <1>1. /\ tim_op'.does = tim_op.does /\ tim_op'.at = "unregisters" /\ tim_op'.enabled = tim_op.enabled
       /\ tim_op' \in TimOps
    BY TimGoes DEF TimInv, TimPlaces, Timer!DestroyStops
  <1>2. TimOp'
    BY <1>1 DEF TimInv, TimOp, TimPositions, Timer!At, Timer!DestroyStops, Timer!JumpsBeforeMark,
         Timer!interrupt, Timer!counter, Timer!rest
  <1>3. TimBits'
    BY <1>1 DEF TimInv, TimBits, TimOp, TimOps, Timer!DestroyStops, Timer!JumpsBeforeMark,
         Timer!interrupt, Timer!counter, Timer!rest
  <1>4. TimCounts'
    BY <1>1 DEF TimInv, TimCounts, Timer!DestroyStops, Timer!JumpsBeforeMark, Timer!interrupt,
         Timer!counter, Timer!rest
  <1>5. TimMasks'
    BY <1>1 DEF TimInv, TimMasks, TimMasked, TimWanted, TimStarts, TimOp, TimPositions, TimBits,
         Timer!At, Timer!DestroyStops, Timer!JumpsBeforeMark, Timer!interrupt, Timer!counter,
         Timer!rest
  <1>6. TimFlags'
    BY <1>1 DEF TimInv, TimFlags, TimClears, TimMasks, TimMasked, TimWanted, TimStarts, TimOp, TimPositions,
         TimBits, Timer!At, Timer!DestroyStops, Timer!JumpsBeforeMark, Timer!interrupt,
         Timer!counter, Timer!rest
  <1>7. TimInstance'
    BY <1>1 DEF TimInv, TimInstance, TimOp, TimPositions, Timer!At, Timer!DestroyStops,
         Timer!JumpsBeforeMark, Timer!interrupt, Timer!counter, Timer!rest
  <1>8. TimEpoch'
    BY <1>1 DEF TimInv, TimEpoch, TimStill, TimAhead, TimCounts, TimInstance, TimOp, TimPositions, Timer!At,
         Timer!DestroyStops, Timer!JumpsBeforeMark, Timer!interrupt, Timer!counter, Timer!rest
  <1>9. TimReader'
    BY <1>1 DEF TimInv, TimReader, TimCurrent, TimStill, TimAhead, TimEpoch, TimCounts, TimBits, TimInstance, TimOp, TimPositions,
         Timer!At, Timer!DestroyStops, Timer!JumpsBeforeMark, Timer!interrupt, Timer!counter,
         Timer!rest
  <1> QED BY <1>2, <1>3, <1>4, <1>5, <1>6, <1>7, <1>8, <1>9 DEF TimInv

\* An overflow sets the flag, and is due if interrupts are on.
LEMMA TimOverflow ==
    ASSUME TimInv, Timer!Overflow
    PROVE  TimInv'
  <1>1. CASE tim_awaited = "on" /\ tim_op.at \notin {"loads", "latches"}
    <2>1. UNCHANGED tim_op
      BY <1>1 DEF Timer!Overflow
    <2>2. TimOp'
      BY <1>1, <2>1 DEF TimInv, TimOp, TimPositions, Timer!At, Timer!Overflow, Timer!interrupt,
           Timer!counter, Timer!rest
    <2>3. TimBits'
      BY <1>1, <2>1
           DEF TimInv, TimBits, TimOp, TimOps, Timer!Overflow, Timer!interrupt, Timer!counter,
           Timer!rest
    <2>4. TimCounts'
      BY <1>1, <2>1
           DEF TimInv, TimCounts, Timer!Overflow, Timer!interrupt, Timer!counter, Timer!rest
    <2>5. TimMasks'
      BY <1>1, <2>1
           DEF TimInv, TimMasks, TimMasked, TimWanted, TimStarts, TimOp, TimPositions, TimBits,
           Timer!At, Timer!Overflow, Timer!interrupt, Timer!counter, Timer!rest
    <2>6. TimFlags'
      BY <1>1, <2>1
           DEF TimInv, TimFlags, TimClears, TimMasks, TimMasked, TimWanted, TimStarts, TimOp, TimPositions,
           TimBits, Timer!At, Timer!Overflow, Timer!interrupt, Timer!counter, Timer!rest
    <2>7. TimInstance'
      BY <1>1, <2>1 DEF TimInv, TimInstance, TimOp, TimPositions, Timer!At, Timer!Overflow,
           Timer!interrupt, Timer!counter, Timer!rest
    <2>8. TimEpoch'
      BY <1>1, <2>1 DEF TimInv, TimEpoch, TimStill, TimAhead, TimCounts, TimInstance, TimOp, TimPositions, Timer!At,
           Timer!Overflow, Timer!interrupt, Timer!counter, Timer!rest
    <2>9. TimReader'
      BY <1>1, <2>1
           DEF TimInv, TimReader, TimCurrent, TimStill, TimAhead, TimEpoch, TimCounts, TimBits, TimInstance, TimOp, TimPositions,
           Timer!At, Timer!Overflow, Timer!interrupt, Timer!counter, Timer!rest
    <2> QED BY <2>2, <2>3, <2>4, <2>5, <2>6, <2>7, <2>8, <2>9 DEF TimInv
  <1>2. CASE ~(tim_awaited = "on" /\ tim_op.at \notin {"loads", "latches"})
    <2>1. UNCHANGED tim_op
      BY <1>2 DEF Timer!Overflow
    <2>2. TimOp'
      BY <1>2, <2>1 DEF TimInv, TimOp, TimPositions, Timer!At, Timer!Overflow, Timer!interrupt,
           Timer!counter, Timer!rest
    <2>3. TimBits'
      BY <1>2, <2>1
           DEF TimInv, TimBits, TimOp, TimOps, Timer!Overflow, Timer!interrupt, Timer!counter,
           Timer!rest
    <2>4. TimCounts'
      BY <1>2, <2>1
           DEF TimInv, TimCounts, Timer!Overflow, Timer!interrupt, Timer!counter, Timer!rest
    <2>5. TimMasks'
      BY <1>2, <2>1
           DEF TimInv, TimMasks, TimMasked, TimWanted, TimStarts, TimOp, TimPositions, TimBits,
           Timer!At, Timer!Overflow, Timer!interrupt, Timer!counter, Timer!rest
    <2>6. TimFlags'
      BY <1>2, <2>1
           DEF TimInv, TimFlags, TimClears, TimMasks, TimMasked, TimWanted, TimStarts, TimOp, TimPositions,
           TimBits, Timer!At, Timer!Overflow, Timer!interrupt, Timer!counter, Timer!rest
    <2>7. TimInstance'
      BY <1>2, <2>1 DEF TimInv, TimInstance, TimOp, TimPositions, Timer!At, Timer!Overflow,
           Timer!interrupt, Timer!counter, Timer!rest
    <2>8. TimEpoch'
      BY <1>2, <2>1 DEF TimInv, TimEpoch, TimStill, TimAhead, TimCounts, TimInstance, TimOp, TimPositions, Timer!At,
           Timer!Overflow, Timer!interrupt, Timer!counter, Timer!rest
    <2>9. TimReader'
      BY <1>2, <2>1
           DEF TimInv, TimReader, TimCurrent, TimStill, TimAhead, TimEpoch, TimCounts, TimBits, TimInstance, TimOp, TimPositions,
           Timer!At, Timer!Overflow, Timer!interrupt, Timer!counter, Timer!rest
    <2> QED BY <2>2, <2>3, <2>4, <2>5, <2>6, <2>7, <2>8, <2>9 DEF TimInv
  <1> QED BY <1>1, <1>2 DEF Timer!Overflow

\* The interrupt has reported what was due.
LEMMA TimDispatchPeriodElapsed ==
    ASSUME TimInv, Timer!dispatchPeriodElapsed
    PROVE  TimInv'
  <1>1. UNCHANGED tim_op
    BY DEF Timer!dispatchPeriodElapsed
  <1>2. TimOp'
    BY <1>1 DEF TimInv, TimOp, TimPositions, Timer!At, Timer!dispatchPeriodElapsed,
         Timer!Interrupts, Timer!interrupt, Timer!counter, Timer!rest
  <1>3. TimBits'
    BY <1>1 DEF TimInv, TimBits, TimOp, TimOps, Timer!dispatchPeriodElapsed, Timer!Interrupts,
         Timer!interrupt, Timer!counter, Timer!rest
  <1>4. TimCounts'
    BY <1>1 DEF TimInv, TimCounts, Timer!dispatchPeriodElapsed, Timer!Interrupts, Timer!interrupt,
         Timer!counter, Timer!rest
  <1>5. TimMasks'
    BY <1>1 DEF TimInv, TimMasks, TimMasked, TimWanted, TimStarts, TimOp, TimPositions, TimBits,
         Timer!At, Timer!dispatchPeriodElapsed, Timer!Interrupts, Timer!interrupt, Timer!counter,
         Timer!rest
  <1>6. TimFlags'
    BY <1>1 DEF TimInv, TimFlags, TimClears, TimMasks, TimMasked, TimWanted, TimStarts, TimOp, TimPositions,
         TimBits, Timer!At, Timer!dispatchPeriodElapsed, Timer!Interrupts, Timer!interrupt,
         Timer!counter, Timer!rest
  <1>7. TimInstance'
    BY <1>1 DEF TimInv, TimInstance, TimOp, TimPositions, Timer!At, Timer!dispatchPeriodElapsed,
         Timer!Interrupts, Timer!interrupt, Timer!counter, Timer!rest
  <1>8. TimEpoch'
    BY <1>1 DEF TimInv, TimEpoch, TimStill, TimAhead, TimCounts, TimInstance, TimOp, TimPositions, Timer!At,
         Timer!dispatchPeriodElapsed, Timer!Interrupts, Timer!interrupt, Timer!counter,
         Timer!rest
  <1>9. TimReader'
    BY <1>1 DEF TimInv, TimReader, TimCurrent, TimStill, TimAhead, TimEpoch, TimCounts, TimBits, TimInstance, TimOp, TimPositions,
         Timer!At, Timer!dispatchPeriodElapsed, Timer!Interrupts, Timer!interrupt, Timer!counter,
         Timer!rest
  <1> QED BY <1>2, <1>3, <1>4, <1>5, <1>6, <1>7, <1>8, <1>9 DEF TimInv

\* A step of the reader leaves the timer alone.
LEMMA TimReaderOnly ==
    ASSUME TimInv,
           UNCHANGED <<tim_op, Timer!interrupt, Timer!counter, tim_registered, tim_callback>>
    PROVE  TimOp' /\ TimBits' /\ TimCounts' /\ TimMasks' /\ TimFlags' /\ TimInstance' /\ TimEpoch'
  <1>1. TimOp' /\ TimBits' /\ TimCounts' /\ TimInstance' /\ TimEpoch'
    BY DEF TimInv, TimOp, TimBits, TimCounts, TimInstance, TimEpoch, TimStill, TimAhead, Timer!At,
         Timer!interrupt, Timer!counter
  <1>2. TimMasks' /\ TimFlags'
    BY DEF TimInv, TimMasks, TimFlags, TimClears, TimMasked, TimWanted, TimStarts, Timer!At,
         Timer!interrupt, Timer!counter
  <1> QED BY <1>1, <1>2

\* The reader takes the counter as it is, where no change is under way.
LEMMA TimReadCounter ==
    ASSUME TimInv, Timer!ReadCounter
    PROVE  TimInv'
  <1>1. /\ UNCHANGED <<tim_op, Timer!interrupt, Timer!counter, tim_registered, tim_callback>>
        /\ tim_reader' = [tim_reader EXCEPT !.epoch = tim_epoch, !.at = "rate",
                                            !.between = @ \/ Timer!Between]
    BY DEF Timer!ReadCounter, Timer!Sees
  <1>2. tim_reader \in TimReads /\ tim_epoch \in Nat
    BY DEF TimInv, TimReader, TimCounts
  <1>3. Timer!Between \in BOOLEAN
    BY DEF Timer!Between
  <1>4. /\ tim_reader' \in TimReads
        /\ tim_reader'.at = "rate" /\ tim_reader'.epoch = tim_epoch
        /\ tim_reader'.version = tim_reader.version
        /\ tim_reader'.between = (tim_reader.between \/ Timer!Between)
    BY <1>1, <1>2, <1>3 DEF TimReads
  <1>5. ~Timer!Between => tim_op.at # "writes"
    BY DEF Timer!Between
  <1>6. TimReader'
    BY <1>1, <1>4, <1>5
         DEF TimInv, TimReader, TimCurrent, TimStill, TimAhead, Timer!At, Timer!counter
  <1> QED BY <1>1, <1>6, TimReaderOnly DEF TimInv

\* It takes the rate: the one of its counter, if no change is under way.
LEMMA TimReadRate ==
    ASSUME TimInv, Timer!ReadRate
    PROVE  TimInv'
  <1> DEFINE rate == IF Timer!At("setPrescaler", "latches") THEN tim_m_stateVersion + 1 ELSE tim_epoch
  <1>1. /\ UNCHANGED <<tim_op, Timer!interrupt, Timer!counter, tim_registered, tim_callback>>
        /\ tim_reader' = [tim_reader EXCEPT !.rate = rate, !.at = "verify",
                                            !.between = @ \/ Timer!Between]
        /\ tim_reader.at = "rate"
    BY DEF Timer!ReadRate, Timer!Sees
  <1>2. tim_reader \in TimReads /\ rate \in Nat
    BY DEF TimInv, TimReader, TimCounts
  <1>3. Timer!Between \in BOOLEAN
    BY DEF Timer!Between
  <1>4. ~Timer!Between => rate = tim_epoch /\ ~TimAhead
    BY DEF Timer!Between, Timer!At, TimAhead
  <1> HIDE DEF rate
  <1>5. /\ tim_reader' \in TimReads
        /\ tim_reader'.at = "verify" /\ tim_reader'.epoch = tim_reader.epoch
        /\ tim_reader'.rate = rate /\ tim_reader'.version = tim_reader.version
        /\ tim_reader'.between = (tim_reader.between \/ Timer!Between)
    BY <1>1, <1>2, <1>3 DEF TimReads
  <1>6. TimReader'
    BY <1>1, <1>4, <1>5
         DEF TimInv, TimReader, TimCurrent, TimStill, TimAhead, Timer!At, Timer!counter
  <1> QED BY <1>1, <1>6, TimReaderOnly DEF TimInv

\* stop: the version catches up with the counter.
LEMMA TimStopMarks ==
    ASSUME TimInv, Timer!StopMarks
    PROVE  TimInv'
  <1>1. /\ tim_op'.does = "nothing" /\ tim_op'.at = "idle" /\ ~tim_op'.enabled
       /\ tim_op' \in TimOps
    BY TimReturns DEF Timer!StopMarks
  <1>2. TimOp'
    BY <1>1 DEF TimInv, TimOp, TimPositions, Timer!At, Timer!StopMarks, Timer!markStateChange,
         Timer!interrupt, Timer!counter, Timer!rest
  <1>3. TimBits'
    BY <1>1 DEF TimInv, TimBits, TimOp, TimOps, Timer!StopMarks, Timer!markStateChange,
         Timer!interrupt, Timer!counter, Timer!rest
  <1>4. TimCounts'
    BY <1>1 DEF TimInv, TimCounts, Timer!StopMarks, Timer!markStateChange, Timer!interrupt,
         Timer!counter, Timer!rest
  <1>5. TimMasks'
    BY <1>1 DEF TimInv, TimMasks, TimMasked, TimWanted, TimStarts, TimOp, TimPositions, TimBits,
         Timer!At, Timer!StopMarks, Timer!markStateChange, Timer!interrupt, Timer!counter,
         Timer!rest
  <1>6. TimFlags'
    BY <1>1 DEF TimInv, TimFlags, TimClears, TimMasks, TimMasked, TimWanted, TimStarts, TimOp, TimPositions,
         TimBits, Timer!At, Timer!StopMarks, Timer!markStateChange, Timer!interrupt,
         Timer!counter, Timer!rest
  <1>7. TimInstance'
    BY <1>1 DEF TimInv, TimInstance, TimOp, TimPositions, Timer!At, Timer!StopMarks,
         Timer!markStateChange, Timer!interrupt, Timer!counter, Timer!rest
  <1>8. TimEpoch'
    BY <1>1 DEF TimInv, TimEpoch, TimStill, TimAhead, TimCounts, TimInstance, TimOp, TimPositions, Timer!At,
         Timer!StopMarks, Timer!markStateChange, Timer!interrupt, Timer!counter, Timer!rest
  <1>9. TimReader'
    BY TimNewVersion DEF Timer!StopMarks, Timer!markStateChange, Timer!rest
  <1> QED BY <1>2, <1>3, <1>4, <1>5, <1>6, <1>7, <1>8, <1>9 DEF TimInv

\* startIt: updates are reported from now on.
LEMMA TimStartItEnables ==
    ASSUME TimInv, Timer!StartItEnables
    PROVE  TimInv'
  <1>1. /\ tim_op'.does = "nothing" /\ tim_op'.at = "idle" /\ ~tim_op'.enabled
       /\ tim_op' \in TimOps
    BY TimReturns DEF Timer!StartItEnables
  <1>2. TimOp'
    BY <1>1
         DEF TimInv, TimOp, TimPositions, Timer!At, Timer!StartItEnables, Timer!markStateChange,
         Timer!Unmask, Timer!interrupt, Timer!counter, Timer!rest
  <1>3. TimBits'
    BY <1>1 DEF TimInv, TimBits, TimOp, TimOps, Timer!StartItEnables, Timer!markStateChange,
         Timer!Unmask, Timer!interrupt, Timer!counter, Timer!rest
  <1>4. TimCounts'
    BY <1>1 DEF TimInv, TimCounts, Timer!StartItEnables, Timer!markStateChange, Timer!Unmask,
         Timer!interrupt, Timer!counter, Timer!rest
  <1>5. TimMasks'
    BY <1>1 DEF TimInv, TimMasks, TimMasked, TimWanted, TimStarts, TimOp, TimPositions, TimBits,
         Timer!At, Timer!StartItEnables, Timer!markStateChange, Timer!Unmask, Timer!interrupt,
         Timer!counter, Timer!rest
  <1>6. TimFlags'
    BY <1>1 DEF TimInv, TimFlags, TimClears, TimMasks, TimMasked, TimWanted, TimStarts, TimOp, TimPositions,
         TimBits, Timer!At, Timer!StartItEnables, Timer!markStateChange, Timer!Unmask,
         Timer!interrupt, Timer!counter, Timer!rest
  <1>7. TimInstance'
    BY <1>1 DEF TimInv, TimInstance, TimOp, TimPositions, Timer!At, Timer!StartItEnables,
         Timer!markStateChange, Timer!Unmask, Timer!interrupt, Timer!counter, Timer!rest
  <1>8. TimEpoch'
    BY <1>1 DEF TimInv, TimEpoch, TimStill, TimAhead, TimCounts, TimInstance, TimOp, TimPositions, Timer!At,
         Timer!StartItEnables, Timer!markStateChange, Timer!Unmask, Timer!interrupt,
         Timer!counter, Timer!rest
  <1>9. TimReader'
    BY TimNewVersion DEF Timer!StartItEnables, Timer!markStateChange, Timer!Unmask, Timer!rest
  <1> QED BY <1>2, <1>3, <1>4, <1>5, <1>6, <1>7, <1>8, <1>9 DEF TimInv

\* setPrescaler: a new version, and the mask as it was.
LEMMA TimPrescalerEnables ==
    ASSUME TimInv, Timer!PrescalerEnables
    PROVE  TimInv'
  <1>1. /\ tim_op'.does = "nothing" /\ tim_op'.at = "idle" /\ ~tim_op'.enabled
       /\ tim_op' \in TimOps
    BY TimReturns DEF Timer!PrescalerEnables
  <1>2. TimOp'
    BY <1>1 DEF TimInv, TimOp, TimPositions, Timer!At, Timer!PrescalerEnables,
         Timer!markStateChange, Timer!Unmask, Timer!interrupt,
         Timer!counter, Timer!rest
  <1>3. TimBits'
    BY <1>1 DEF TimInv, TimBits, TimOp, TimOps, Timer!PrescalerEnables, Timer!markStateChange,
         Timer!Unmask, Timer!interrupt, Timer!counter, Timer!rest
  <1>4. TimCounts'
    BY <1>1 DEF TimInv, TimCounts, Timer!PrescalerEnables, Timer!markStateChange, Timer!Unmask,
         Timer!interrupt, Timer!counter, Timer!rest
  <1>5. TimMasks'
    BY <1>1 DEF TimInv, TimMasks, TimMasked, TimWanted, TimStarts, TimOp, TimPositions, TimBits,
         Timer!At, Timer!PrescalerEnables, Timer!markStateChange, Timer!Unmask,
         Timer!interrupt, Timer!counter, Timer!rest
  <1>6. TimFlags'
    BY <1>1 DEF TimInv, TimFlags, TimClears, TimMasks, TimMasked, TimWanted, TimStarts, TimOp, TimPositions,
         TimBits, Timer!At, Timer!PrescalerEnables, Timer!markStateChange, Timer!Unmask,
         Timer!interrupt, Timer!counter, Timer!rest
  <1>7. TimInstance'
    BY <1>1 DEF TimInv, TimInstance, TimOp, TimPositions, Timer!At, Timer!PrescalerEnables,
         Timer!markStateChange, Timer!Unmask, Timer!interrupt,
         Timer!counter, Timer!rest
  <1>8. TimEpoch'
    BY <1>1 DEF TimInv, TimEpoch, TimStill, TimAhead, TimCounts, TimInstance, TimOp, TimPositions, Timer!At,
         Timer!PrescalerEnables, Timer!markStateChange, Timer!Unmask, Timer!interrupt, Timer!counter, Timer!rest
  <1>9. TimReader'
    BY TimNewVersion DEF Timer!PrescalerEnables, Timer!markStateChange, Timer!Unmask, Timer!rest
  <1> QED BY <1>2, <1>3, <1>4, <1>5, <1>6, <1>7, <1>8, <1>9 DEF TimInv

\* setCounter and forceUpdateEvent: the version goes first.
LEMMA TimMarks ==
    ASSUME TimInv, Timer!Marks
    PROVE  TimInv'
  <1>1. /\ tim_op'.does = tim_op.does /\ tim_op'.at = "writes" /\ tim_op'.enabled = tim_op.enabled
       /\ tim_op' \in TimOps
    BY TimGoes DEF TimInv, TimPlaces, Timer!Marks
  <1>2. TimOp'
    BY <1>1 DEF TimInv, TimOp, TimPositions, Timer!At, Timer!Marks, Timer!markStateChange,
         Timer!interrupt, Timer!counter, Timer!rest
  <1>3. TimBits'
    BY <1>1
         DEF TimInv, TimBits, TimOp, TimOps, Timer!Marks, Timer!markStateChange, Timer!interrupt,
         Timer!counter, Timer!rest
  <1>4. TimCounts'
    BY <1>1 DEF TimInv, TimCounts, Timer!Marks, Timer!markStateChange, Timer!interrupt,
         Timer!counter, Timer!rest
  <1>5. TimMasks'
    BY <1>1 DEF TimInv, TimMasks, TimMasked, TimWanted, TimStarts, TimOp, TimPositions, TimBits,
         Timer!At, Timer!Marks, Timer!markStateChange, Timer!interrupt, Timer!counter, Timer!rest
  <1>6. TimFlags'
    BY <1>1 DEF TimInv, TimFlags, TimClears, TimMasks, TimMasked, TimWanted, TimStarts, TimOp, TimPositions,
         TimBits, Timer!At, Timer!Marks, Timer!markStateChange, Timer!interrupt, Timer!counter,
         Timer!rest
  <1>7. TimInstance'
    BY <1>1 DEF TimInv, TimInstance, TimOp, TimPositions, Timer!At, Timer!Marks,
         Timer!markStateChange, Timer!interrupt, Timer!counter, Timer!rest
  <1>8. TimEpoch'
    BY <1>1 DEF TimInv, TimEpoch, TimStill, TimAhead, TimCounts, TimInstance, TimOp, TimPositions, Timer!At,
         Timer!Marks, Timer!markStateChange, Timer!interrupt, Timer!counter, Timer!rest
  <1>9. TimReader'
    BY TimNewVersion DEF Timer!Marks, Timer!markStateChange, Timer!rest
  <1> QED BY <1>2, <1>3, <1>4, <1>5, <1>6, <1>7, <1>8, <1>9 DEF TimInv

\* A sample is accepted while the counter runs and its version is still the timer's.
LEMMA TimVerifyVersion ==
    ASSUME TimInv, Timer!VerifyVersion
    PROVE  TimInv'
  <1> DEFINE at == IF tim_running /\ Timer!Unchanged(tim_reader.version) THEN "accepted" ELSE "idle"
  <1>1. /\ UNCHANGED <<tim_op, Timer!interrupt, Timer!counter, tim_registered, tim_callback>>
        /\ tim_reader' = [tim_reader EXCEPT !.at = at]
        /\ tim_reader.at = "verify"
    BY DEF Timer!VerifyVersion
  <1>2. at \in {"idle", "accepted"}
    OBVIOUS
  <1>3. at = "accepted" => ~TimStill /\ tim_reader.version = tim_m_stateVersion
    BY DEF Timer!Unchanged, TimInv, TimEpoch
  <1> HIDE DEF at
  <1>4. /\ tim_reader' \in TimReads
        /\ tim_reader'.at = at /\ tim_reader'.epoch = tim_reader.epoch
        /\ tim_reader'.rate = tim_reader.rate /\ tim_reader'.version = tim_reader.version
        /\ tim_reader'.between = tim_reader.between
    BY <1>1, <1>2 DEF TimInv, TimReader, TimReads
  <1>5. TimReader'
    BY <1>1, <1>2, <1>3, <1>4
         DEF TimInv, TimReader, TimCurrent, TimStill, TimAhead, Timer!At, Timer!counter
  <1> QED BY <1>1, <1>5, TimReaderOnly DEF TimInv

\* An operation begins: it finds the mask as it is.
LEMMA TimBegin ==
    ASSUME TimInv, NEW does \in Timer!Operations, Timer!Begin(does)
    PROVE  TimInv'
  <1>1. /\ tim_op = [does |-> "nothing", at |-> "idle", enabled |-> FALSE, pending |-> FALSE]
        /\ tim_op' = [does |-> does, at |-> "entered", enabled |-> tim_enabled, pending |-> FALSE]
        /\ UNCHANGED <<Timer!interrupt, Timer!counter, tim_registered, tim_callback, tim_reader>>
        /\ tim_registered
    BY DEF Timer!Begin, Timer!Idle
  <1>2. does # "nothing"
    BY DEF Timer!Operations
  <1>3. /\ tim_op.does = "nothing" /\ tim_op.at = "idle"
        /\ tim_op'.does = does /\ tim_op'.at = "entered" /\ tim_op'.enabled = tim_enabled
    BY <1>1
  <1>4. tim_op' \in TimOps
    BY <1>1 DEF TimOps, TimPlaces, TimInv, TimBits
  <1>5. TimOp' /\ TimBits' /\ TimCounts'
    BY <1>1, <1>2, <1>3, <1>4
         DEF TimInv, TimOp, TimPositions, TimBits, TimCounts, Timer!interrupt, Timer!counter
  <1>6. TimMasks'
    BY <1>1, <1>2, <1>3
         DEF TimInv, TimMasks, TimMasked, TimWanted, TimStarts, Timer!At, Timer!interrupt,
         Timer!counter
  <1>7. TimFlags'
    BY <1>1, <1>2, <1>3
         DEF TimInv, TimFlags, TimClears, TimMasked, TimWanted, TimStarts, Timer!At,
         Timer!interrupt, Timer!counter
  <1>8. TimInstance' /\ TimEpoch'
    BY <1>1, <1>2, <1>3
         DEF TimInv, TimInstance, TimEpoch, TimStill, TimAhead, Timer!At, Timer!interrupt,
         Timer!counter
  <1>9. TimReader'
    BY <1>1, <1>3, TimSameVersion DEF TimStill, TimAhead, Timer!At, Timer!counter
  <1> QED BY <1>5, <1>6, <1>7, <1>8, <1>9 DEF TimInv

\* setPrescaler: the update applies PSC, zeroes the counter and sets the flag.
LEMMA TimPrescalerLatches ==
    ASSUME TimInv, Timer!PrescalerLatches
    PROVE  TimInv'
  <1>1. /\ tim_op'.does = tim_op.does /\ tim_op'.at = "restores" /\ tim_op'.enabled = tim_op.enabled
        /\ tim_op'.pending = tim_op.pending /\ tim_op' \in TimOps
    BY TimGoes DEF TimInv, TimPlaces, Timer!PrescalerLatches
  <1>2. TimOp' /\ TimCounts' /\ TimInstance'
    BY <1>1 DEF TimInv, TimOp, TimPositions, TimCounts, TimInstance, Timer!At,
         Timer!PrescalerLatches, Timer!JumpsBeforeMark, Timer!rest
  <1>3. TimBits'
    BY <1>1 DEF TimInv, TimBits, TimOp, TimOps, Timer!PrescalerLatches, Timer!rest
  <1>4. TimMasks'
    BY <1>1 DEF TimInv, TimMasks, TimMasked, TimWanted, TimStarts, Timer!At, Timer!PrescalerLatches,
         Timer!rest
  <1>5. TimFlags'
    BY <1>1 DEF TimInv, TimFlags, TimClears, TimMasked, TimWanted, TimStarts, TimBits, Timer!At,
         Timer!PrescalerLatches, Timer!rest
  <1>6. TimAhead' /\ (TimStill' <=> TimStill)
    BY <1>1 DEF TimAhead, TimStill, Timer!At, Timer!PrescalerLatches, Timer!rest
  <1>7. TimEpoch'
    BY <1>6 DEF TimInv, TimEpoch, TimCounts, Timer!PrescalerLatches, Timer!JumpsBeforeMark
  <1>8. TimReader'
    BY <1>6, TimSameVersion DEF Timer!PrescalerLatches, Timer!rest
  <1> QED BY <1>2, <1>3, <1>4, <1>5, <1>7, <1>8 DEF TimInv

\* setPrescaler: the counter goes back, and the flag unless it was set before.
LEMMA TimPrescalerRestores ==
    ASSUME TimInv, Timer!PrescalerRestores
    PROVE  TimInv'
  <1>1. /\ tim_op'.does = tim_op.does /\ tim_op'.at = "marks" /\ tim_op'.enabled = tim_op.enabled
        /\ tim_op'.pending = tim_op.pending /\ tim_op' \in TimOps
    BY TimGoes DEF TimInv, TimPlaces, Timer!PrescalerRestores
  <1>2. TimOp' /\ TimCounts' /\ TimInstance'
    BY <1>1 DEF TimInv, TimOp, TimPositions, TimCounts, TimInstance, Timer!At,
         Timer!PrescalerRestores, Timer!JumpsBeforeMark, Timer!rest
  <1>3. TimBits'
    BY <1>1 DEF TimInv, TimBits, TimOp, TimOps, Timer!PrescalerRestores, Timer!rest
  <1>4. TimMasks'
    BY <1>1 DEF TimInv, TimMasks, TimMasked, TimWanted, TimStarts, Timer!At, Timer!PrescalerRestores,
         Timer!rest
  <1>5. TimFlags'
    BY <1>1 DEF TimInv, TimFlags, TimClears, TimMasked, TimWanted, TimStarts, TimBits, Timer!At,
         Timer!PrescalerRestores, Timer!rest
  <1>6. TimAhead' /\ (TimStill' <=> TimStill)
    BY <1>1 DEF TimAhead, TimStill, Timer!At, Timer!PrescalerRestores, Timer!rest
  <1>7. TimEpoch'
    BY <1>6 DEF TimInv, TimEpoch, TimCounts, Timer!PrescalerRestores, Timer!JumpsBeforeMark
  <1>8. TimReader'
    BY <1>6, TimSameVersion DEF Timer!PrescalerRestores, Timer!rest
  <1> QED BY <1>2, <1>3, <1>4, <1>5, <1>7, <1>8 DEF TimInv

\* The reader starts: its sample has no counter and no rate yet.
LEMMA TimReadVersion ==
    ASSUME TimInv, Timer!ReadVersion
    PROVE  TimInv'
  <1>1. /\ UNCHANGED <<tim_op, Timer!interrupt, Timer!counter, tim_registered, tim_callback>>
        /\ tim_reader' = [at |-> "counter", version |-> tim_m_stateVersion, epoch |-> 0,
                          rate |-> 0, between |-> FALSE]
    BY DEF Timer!ReadVersion, Timer!NoSample
  <1>2. /\ tim_reader' \in TimReads
        /\ tim_reader'.at = "counter" /\ tim_reader'.version = tim_m_stateVersion
    BY <1>1 DEF TimReads, TimInv, TimCounts
  <1>3. TimReader'
    BY <1>1, <1>2 DEF TimInv, TimReader, TimCounts, Timer!counter
  <1> QED BY <1>1, <1>3, TimReaderOnly DEF TimInv

\* The remaining steps, each on at most three variables besides op.
LEMMA TimOthers ==
    ASSUME TimInv,
           \/ Timer!StopMasks \/ Timer!StartItMasks \/ Timer!PrescalerMasks
           \/ Timer!PrescalerLoads \/ Timer!SwapBegins \/ Timer!SwapEnds
           \/ Timer!DestroyEnds \/ Timer!Construct
    PROVE  TimInv'
  <1> USE DEF TimOps, Timer!Idle, Timer!NoSample, Timer!At, Timer!Operations, TimPlaces,
       TimPositions, TimInv, TimOp, TimBits, TimCounts, TimMasked, TimWanted, TimStarts, TimMasks, TimClears,
             TimFlags, TimInstance, TimStill, TimAhead, TimEpoch, TimReads, TimCurrent, TimReader,
             Timer!Goes, Timer!Return, Timer!markStateChange, Timer!JumpsBeforeMark,
             Timer!JumpsAfterMark, Timer!Mask, Timer!Unmask, Timer!Forget, Timer!interrupt,
             Timer!counter, Timer!rest
  <1>1. CASE Timer!StopMasks
    BY <1>1 DEF Timer!StopMasks
  <1>2. CASE Timer!StartItMasks
    BY ZenonT(30), <1>2 DEF Timer!StartItMasks
  <1>3. CASE Timer!PrescalerMasks
    BY <1>3 DEF Timer!PrescalerMasks
  <1>4. CASE Timer!PrescalerLoads
    BY <1>4 DEF Timer!PrescalerLoads
  <1>5. CASE Timer!SwapBegins
    BY <1>5 DEF Timer!SwapBegins
  <1>6. CASE Timer!SwapEnds
    BY ZenonT(30), <1>6 DEF Timer!SwapEnds
  <1>7. CASE Timer!DestroyEnds
    BY <1>7 DEF Timer!DestroyEnds
  <1>8. CASE Timer!Construct
    BY <1>8 DEF Timer!Construct
  <1> QED BY <1>1, <1>2, <1>3, <1>4, <1>5, <1>6, <1>7, <1>8

LEMMA TimStep == TimInv /\ [Timer!Next]_tim_vars => TimInv'
  <1> SUFFICES ASSUME TimInv, [Timer!Next]_tim_vars PROVE TimInv'
    OBVIOUS
  <1>1. CASE UNCHANGED tim_vars
    <2> USE <1>1 DEF tim_vars
    <2>1. TimOp' /\ TimBits' /\ TimCounts' BY DEF TimInv, TimOp, TimBits, TimCounts
    <2>2. TimMasks' BY DEF TimInv, TimMasks, TimMasked, TimWanted, TimStarts, Timer!At
    <2>3. TimFlags' BY DEF TimInv, TimFlags, TimClears, TimMasked, TimWanted, TimStarts, Timer!At
    <2>4. TimInstance' /\ TimEpoch' /\ TimReader'
      BY DEF TimInv, TimInstance, TimEpoch, TimStill, TimAhead, TimReader, TimCurrent, Timer!At
    <2> QED BY <2>1, <2>2, <2>3, <2>4 DEF TimInv
  <1>2. CASE Timer!Next
    BY <1>2, TimBegin, TimOthers, TimStartRuns, TimStartMasks, TimStopHalts, TimStartItRuns, TimWrites, TimDestroyStops,
           TimOverflow, TimDispatchPeriodElapsed, TimReadCounter, TimReadRate, TimStopMarks, TimStartItEnables,
           TimPrescalerLatches, TimPrescalerRestores, TimPrescalerEnables, TimMarks, TimReadVersion,
           TimVerifyVersion
        DEF Timer!Next
  <1> QED BY <1>1, <1>2

LEMMA TimSafe == TimInv => UpdatesAreSeen
  <1> SUFFICES ASSUME TimInv PROVE UpdatesAreSeen
    OBVIOUS
  <1>1. Timer!Interrupts => tim_awaited = "due" /\ tim_registered /\ tim_callback # "torn"
    BY DEF Timer!Interrupts, Timer!At, TimInv, TimMasks, TimMasked, TimWanted, TimStarts,
         TimFlags, TimClears, TimInstance
  <1>2. tim_awaited = "due" => tim_flag
    BY DEF TimInv, TimFlags
  <1>3. tim_awaited # "off" /\ tim_op = Timer!Idle => tim_enabled /\ tim_running
    BY DEF Timer!Idle, Timer!At, TimInv, TimMasks, TimMasked, TimWanted, TimStarts
  <1>4. Timer!SamplesShowJumps
    <2>1. tim_running /\ ~Timer!Between => ~TimStill /\ ~TimAhead
      BY DEF Timer!Between, TimAhead, TimInv, TimEpoch
    <2> QED BY <2>1 DEF TimInv, TimReader, TimCurrent, Timer!SamplesShowJumps
  <1> QED BY <1>1, <1>2, <1>3, <1>4 DEF UpdatesAreSeen, Timer!UpdatesReportedOnce

\* stm32/Timer.cpp: an interrupt always has an update of this start to report, to
\* a registered timer with a whole callback, an update that is due keeps its flag,
\* and a sample of the counter that saw no step of setPrescaler's change or of
\* setCounter's is of one rate and one origin until the version says otherwise,
\* for any number and order of operations.
THEOREM UpdatesAreSeenHolds == Spec => []UpdatesAreSeen
  <1>1. Init => TimInv
    BY TimInitial DEF Init
  <1>2. TimInv /\ [Next]_vars => TimInv'
    BY TimStep DEF Next, vars, tim_vars
  <1>3. TimInv => UpdatesAreSeen
    BY TimSafe
  <1> QED BY <1>1, <1>2, <1>3, PTL DEF Spec, vars

-----------------------------------------------------------------------------
(* linux/console.cpp.                                                       *)

OutTypes ==
    /\ out_mode \in {"pass_through", "buffering", "interactive", "plain"}
    /\ out_queue \in [0 .. Capacity - 1 -> Nat]
    /\ out_head \in 0 .. Capacity - 1 /\ out_count \in 0 .. Capacity
    /\ out_dropped \in Nat /\ out_published \in Nat /\ out_shown \in Nat
OutInv == OutTypes /\ NothingVanishes

LEMMA DivMod ==
    ASSUME NEW p \in Nat \ {0}, NEW a \in Int
    PROVE  a % p \in 0 .. p - 1 /\ a \div p \in Int /\ a = p * (a \div p) + (a % p)
  BY SMT

LEMMA ModUnique ==
    ASSUME NEW p \in Nat \ {0}, NEW q \in Int, NEW r \in 0 .. p - 1
    PROVE  (p * q + r) % p = r
  BY SMT

\* An index of the ring, and one less than a turn below.
LEMMA ModNear ==
    ASSUME NEW p \in Nat \ {0}, NEW a \in -p .. p - 1
    PROVE  a % p = IF a < 0 THEN a + p ELSE a
  <1>1. CASE a < 0
    <2>1. a = p * (-1) + (a + p) /\ a + p \in 0 .. p - 1 BY <1>1
    <2>2. (p * (-1) + (a + p)) % p = a + p
      <3> DEFINE r == a + p
      <3>1. r \in 0 .. p - 1 BY <2>1
      <3> HIDE DEF r
      <3>2. (p * (-1) + r) % p = r BY <3>1, ModUnique
      <3> QED BY <3>2 DEF r
    <2> QED BY <1>1, <2>1, <2>2
  <1>2. CASE ~(a < 0)
    <2>1. a = p * 0 + a /\ a \in 0 .. p - 1 BY <1>2
    <2>2. (p * 0 + a) % p = a BY <2>1, ModUnique
    <2> QED BY <1>2, <2>1, <2>2
  <1> QED BY <1>1, <1>2

\* Wrapping a summand first makes no difference.
LEMMA ModSummand ==
    ASSUME NEW p \in Nat \ {0}, NEW a \in Int, NEW b \in Int
    PROVE  (a + (b % p)) % p = (a + b) % p
  <1> DEFINE k == b \div p
             r == b % p
             l == (a + r) \div p
             s == (a + r) % p
  <1>1. k \in Int /\ r \in 0 .. p - 1 /\ b = p * k + r
    BY DivMod
  <1>2. l \in Int /\ s \in 0 .. p - 1 /\ a + r = p * l + s
    <2> HIDE DEF r
    <2>1. a + r \in Int BY <1>1
    <2> QED BY <2>1, DivMod
  <1> HIDE DEF k, r, l, s
  <1>3. a + b = p * (k + l) + s /\ k + l \in Int
    BY <1>1, <1>2
  <1>4. (p * (k + l) + s) % p = s
    BY <1>2, <1>3, ModUnique
  <1> QED BY <1>3, <1>4 DEF s, r

LEMMA OutInitial == Output!Init => OutInv
  BY ConstantsAssumption
  DEF ConstantsAssumption, Output!Init, OutInv, OutTypes, NothingVanishes, Output!NothingVanishes

\* Taking the n oldest chunks leaves the others, in order.
LEMMA OutTake ==
    ASSUME OutInv, NEW n \in 0 .. out_count, NEW k \in 1 .. (out_count - n)
    PROVE  out_queue[(((out_head + n) % Capacity) + k - 1) % Capacity] = out_shown + out_dropped + n + k
  <1>1. /\ Capacity \in Nat \ {0} /\ out_head \in Int /\ out_count \in Nat
    BY ConstantsAssumption DEF ConstantsAssumption, OutInv, OutTypes
  <1>2. (((out_head + n) % Capacity) + k - 1) % Capacity = (out_head + (n + k) - 1) % Capacity
    <2> DEFINE b == out_head + n
               a == k - 1
    <2>1. b \in Int /\ a \in Int BY <1>1
    <2>2. b % Capacity \in Int BY <2>1, <1>1, DivMod
    <2>3. (a + (b % Capacity)) % Capacity = (a + b) % Capacity
      <3> HIDE DEF a, b
      <3> QED BY <2>1, <1>1, ModSummand
    <2>4. (b % Capacity) + k - 1 = a + (b % Capacity)
      <3> HIDE DEF b
      <3> QED BY <2>2
    <2>5. a + b = out_head + (n + k) - 1 BY <1>1
    <2> QED BY <2>3, <2>4, <2>5
  <1>3. n + k \in 1 .. out_count
    BY <1>1
  <1>4. out_queue[(out_head + (n + k) - 1) % Capacity] = out_shown + out_dropped + (n + k)
    BY <1>3 DEF OutInv, NothingVanishes, Output!NothingVanishes
  <1> QED BY <1>1, <1>2, <1>4 DEF OutInv, OutTypes

LEMMA OutFlushStep == ASSUME OutInv, Output!activate_plain PROVE OutInv'
  <1>1. /\ out_mode' = "plain" /\ out_count' = 0 /\ out_dropped' = 0
        /\ out_head' = (out_head + out_count) % Capacity
        /\ out_shown' = out_shown + out_dropped + out_count
        /\ UNCHANGED <<out_queue, out_published>>
    BY DEF Output!activate_plain, Output!Flush
  <1>2. out_head' \in 0 .. Capacity - 1
    <2>1. Capacity \in Nat \ {0} /\ out_head + out_count \in Int
      BY ConstantsAssumption DEF ConstantsAssumption, OutInv, OutTypes
    <2> QED BY <1>1, <2>1, DivMod
  <1>3. OutTypes'
    BY <1>1, <1>2, ConstantsAssumption DEF OutInv, OutTypes, ConstantsAssumption
  <1>4. NothingVanishes'
    BY <1>1 DEF OutInv, OutTypes, NothingVanishes, Output!NothingVanishes
  <1> QED BY <1>3, <1>4 DEF OutInv

LEMMA OutDrainStep == ASSUME OutInv, NEW size \in 1 .. Capacity, Output!drain(size) PROVE OutInv'
  <1> DEFINE notice == IF out_dropped # 0 THEN 1 ELSE 0
             taken == IF out_count < size - notice THEN out_count ELSE size - notice
  <1>1. /\ out_mode = "interactive"
        /\ out_head' = (out_head + taken) % Capacity
        /\ out_count' = out_count - taken /\ out_shown' = out_shown + out_dropped + taken
        /\ out_dropped' = 0
        /\ UNCHANGED <<out_mode, out_queue, out_published>>
    BY DEF Output!drain
  <1>2. Capacity \in Nat \ {0} /\ OutTypes
    BY ConstantsAssumption DEF ConstantsAssumption, OutInv
  <1>3. taken \in 0 .. out_count
    BY <1>2 DEF OutTypes
  <1> HIDE DEF taken
  <1>4. out_head' \in 0 .. Capacity - 1
    <2>1. out_head + taken \in Int BY <1>2, <1>3 DEF OutTypes
    <2> QED BY <1>1, <1>2, <2>1, DivMod
  <1>5. OutTypes'
    BY <1>1, <1>2, <1>3, <1>4 DEF OutTypes
  <1>6. out_published' = out_shown' + out_dropped' + out_count'
    BY <1>1, <1>2, <1>3 DEF OutInv, OutTypes, NothingVanishes, Output!NothingVanishes
  <1>7. ASSUME NEW k \in 1 .. out_count'
        PROVE  out_queue'[(out_head' + k - 1) % Capacity] = out_shown' + out_dropped' + k
    <2>1. k \in 1 .. (out_count - taken) BY <1>1
    <2>2. out_queue[(((out_head + taken) % Capacity) + k - 1) % Capacity] = out_shown + out_dropped + taken + k
      BY <1>3, <2>1, OutTake
    <2>3. out_queue'[(out_head' + k - 1) % Capacity]
              = out_queue[(((out_head + taken) % Capacity) + k - 1) % Capacity]
      BY <1>1, Zenon
    <2>4. out_shown' + out_dropped' + k = out_shown + out_dropped + taken + k
      BY <1>1, <1>2, <1>3, <2>1 DEF OutTypes
    <2> QED BY <2>2, <2>3, <2>4
  <1> QED BY <1>1, <1>5, <1>6, <1>7 DEF OutInv, NothingVanishes, Output!NothingVanishes

LEMMA OutEnqueueStep ==
    ASSUME OutInv, NEW chunks \in 1 .. Capacity, out_mode \notin {"pass_through", "plain"},
           out_published' = out_published + chunks, Output!enqueue(chunks),
           UNCHANGED <<out_mode, out_shown>>
    PROVE  OutInv'
  <1> DEFINE over == Output!Overflowing(chunks)
             after(slot) == (slot - out_head - out_count) % Capacity
  <1>1. /\ Capacity \in Nat \ {0} /\ OutTypes
        /\ out_published = out_shown + out_dropped + out_count
    BY ConstantsAssumption DEF ConstantsAssumption, OutInv, NothingVanishes, Output!NothingVanishes
  <1>2. over \in 0 .. out_count /\ out_count + chunks - over \in 0 .. Capacity
        /\ over <= chunks
        /\ out_count + chunks - over <= Capacity
    BY <1>1 DEF Output!Overflowing, OutTypes
  <1>3. /\ out_head' = (out_head + over) % Capacity
        /\ out_count' = out_count + chunks - over
        /\ out_dropped' = out_dropped + over
        /\ DOMAIN out_queue = 0 .. Capacity - 1
        /\ out_queue' = [slot \in 0 .. Capacity - 1 |->
                            IF after(slot) < chunks THEN out_published + after(slot) + 1 ELSE out_queue[slot]]
    BY <1>1 DEF Output!enqueue, OutTypes
  <1> HIDE DEF over
  <1>4. OutTypes'
    <2>1. out_head' \in 0 .. Capacity - 1
      <3>1. out_head + over \in Int BY <1>1, <1>2 DEF OutTypes
      <3> QED BY <1>1, <1>3, <3>1, DivMod
    <2>2. ASSUME NEW slot \in 0 .. Capacity - 1 PROVE after(slot) \in Nat
      <3>1. slot - out_head - out_count \in Int BY <1>1 DEF OutTypes
      <3> QED BY <1>1, <3>1, DivMod
    <2> HIDE DEF after
    <2>3. out_queue' \in [0 .. Capacity - 1 -> Nat]
      <3>1. ASSUME NEW slot \in 0 .. Capacity - 1
            PROVE  out_published + after(slot) + 1 \in Nat /\ out_queue[slot] \in Nat
        BY <1>1, <2>2 DEF OutTypes
      <3> QED BY <1>3, <3>1, Zenon
    <2> QED BY <1>1, <1>2, <1>3, <2>1, <2>3 DEF OutTypes
  <1>5. out_published' = out_shown' + out_dropped' + out_count'
    BY <1>1, <1>2, <1>3 DEF OutTypes
  <1>6. ASSUME NEW k \in 1 .. out_count'
        PROVE  out_queue'[(out_head' + k - 1) % Capacity] = out_shown' + out_dropped' + k
    <2> DEFINE j == over + k
               slot == (out_head + j - 1) % Capacity
    <2>1. /\ over \in Nat /\ k \in Nat /\ out_head \in Int /\ out_count \in Nat
          /\ j \in (over + 1) .. (out_count + chunks) /\ j \in Nat
      BY <1>1, <1>2, <1>3 DEF OutTypes
    <2>2. (out_head' + k - 1) % Capacity = slot
      <3> DEFINE b == out_head + over
                 a == k - 1
      <3>1. b \in Int /\ a \in Int BY <2>1
      <3>2. b % Capacity \in Int BY <3>1, <1>1, DivMod
      <3>3. (a + (b % Capacity)) % Capacity = (a + b) % Capacity
        <4> HIDE DEF a, b
        <4> QED BY <3>1, <1>1, ModSummand
      <3>4. out_head' + k - 1 = a + (b % Capacity)
        <4>1. out_head' = b % Capacity BY <1>3
        <4> HIDE DEF b
        <4> QED BY <4>1, <3>2, <2>1
      <3>5. a + b = out_head + j - 1 BY <2>1
      <3> QED BY <3>3, <3>4, <3>5
    <2>3. slot \in 0 .. Capacity - 1
      <3>1. out_head + j - 1 \in Int BY <2>1
      <3> QED BY <3>1, <1>1, DivMod
    <2>4. after(slot) = (j - 1 - out_count) % Capacity
      <3> DEFINE b == out_head + j - 1
                 a == -out_head - out_count
      <3>1. b \in Int /\ a \in Int BY <2>1
      <3>2. (a + (b % Capacity)) % Capacity = (a + b) % Capacity
        <4> HIDE DEF a, b
        <4> QED BY <3>1, <1>1, ModSummand
      <3>3. slot - out_head - out_count = a + (b % Capacity)
        <4>1. slot = b % Capacity OBVIOUS
        <4> HIDE DEF slot, b
        <4> QED BY <4>1, <2>1, <2>3
      <3>4. a + b = j - 1 - out_count BY <2>1
      <3> QED BY <3>2, <3>3, <3>4
    <2>5. j - 1 - out_count \in -Capacity .. Capacity - 1
      BY <1>1, <1>2, <2>1 DEF OutTypes
    <2>6. after(slot) = IF j - 1 - out_count < 0 THEN j - 1 - out_count + Capacity
                        ELSE j - 1 - out_count
      <3> DEFINE d == j - 1 - out_count
      <3>1. d \in -Capacity .. Capacity - 1 BY <2>5
      <3>2. after(slot) = d % Capacity BY <2>4
      <3> HIDE DEF d, after, slot
      <3>3. d % Capacity = IF d < 0 THEN d + Capacity ELSE d BY <3>1, <1>1, ModNear
      <3> QED BY <3>2, <3>3 DEF d
    <2>7. out_queue'[slot] = IF after(slot) < chunks THEN out_published + after(slot) + 1
                             ELSE out_queue[slot]
      <3> HIDE DEF slot, after
      <3> QED BY <1>3, <2>3
    <2>8. out_shown' + out_dropped' + k = out_shown + out_dropped + j
      BY <1>1, <1>3, <2>1 DEF OutTypes
    <2>9. CASE j > out_count
      <3>1. after(slot) = j - 1 - out_count /\ after(slot) < chunks
        <4> HIDE DEF slot, after
        <4> QED BY <2>1, <2>6, <2>9
      <3>2. out_published + after(slot) + 1 = out_shown + out_dropped + j
        <4> HIDE DEF slot, after
        <4> QED BY <3>1, <1>1, <2>1 DEF OutTypes
      <3> QED BY <3>1, <3>2, <2>2, <2>7, <2>8
    <2>10. CASE j <= out_count
      <3>1. ~(after(slot) < chunks)
        <4>1. after(slot) = j - 1 - out_count + Capacity
          <5> HIDE DEF slot, after
          <5> QED BY <2>1, <2>6, <2>10
        <4> HIDE DEF slot, after
        <4> QED BY <4>1, <1>1, <1>2, <2>1 DEF OutTypes
      <3>2. out_queue[slot] = out_shown + out_dropped + j
        <4>1. j \in 1 .. out_count BY <2>1, <2>10
        <4> HIDE DEF j
        <4> QED BY <4>1 DEF OutInv, NothingVanishes, Output!NothingVanishes
      <3> QED BY <3>1, <3>2, <2>2, <2>7, <2>8
    <2> QED BY <2>1, <2>9, <2>10
  <1> QED BY <1>4, <1>5, <1>6 DEF OutInv, NothingVanishes, Output!NothingVanishes

LEMMA OutStep == OutInv /\ [Output!Next]_out_vars => OutInv'
  <1> SUFFICES ASSUME OutInv, [Output!Next]_out_vars PROVE OutInv'
    OBVIOUS
  <1>1. CASE UNCHANGED out_vars
    BY <1>1 DEF out_vars, OutInv, OutTypes, NothingVanishes, Output!NothingVanishes
  <1>2. CASE Output!begin_buffering \/ Output!activate_interactive
    BY <1>2 DEF Output!begin_buffering, Output!activate_interactive, OutInv, OutTypes,
                NothingVanishes, Output!NothingVanishes
  <1>3. ASSUME NEW chunks \in 1 .. Capacity, Output!publish(chunks) PROVE OutInv'
    <2>1. CASE out_mode \in {"pass_through", "plain"}
      BY <1>3, <2>1, ConstantsAssumption
      DEF Output!publish, OutInv, OutTypes, NothingVanishes, Output!NothingVanishes, ConstantsAssumption
    <2>2. CASE out_mode \notin {"pass_through", "plain"}
      BY <1>3, <2>2, OutEnqueueStep DEF Output!publish
    <2> QED BY <2>1, <2>2
  <1> QED BY <1>1, <1>2, <1>3, OutFlushStep, OutDrainStep DEF Output!Next

\* linux/console.cpp: what was shown, what will be reported as dropped and what
\* is queued are together what was published, in that order, for any capacity.
THEOREM NothingVanishesHolds == Spec => []NothingVanishes
  <1>1. Init => OutInv
    BY OutInitial DEF Init
  <1>2. OutInv /\ [Next]_vars => OutInv'
    BY OutStep DEF Next, vars, out_vars
  <1>3. OutInv => NothingVanishes
    BY DEF OutInv
  <1> QED BY <1>1, <1>2, <1>3, PTL DEF Spec, vars

-----------------------------------------------------------------------------
(* stm32/hal.cpp: the console.                                              *)

InPlaces == {"idle", "getchar", "putchar", "looks", "waits", "pops", "transmits"}
InText == Seq({"x", "CR", "LF"})
InTypes ==
    /\ in_at \in [Threads -> InPlaces]
    /\ in_reader \in Threads \cup {"nobody"} /\ in_writer \in Threads \cup {"nobody"}
    /\ in_console_input_read \in 0 .. InputSize - 1
    /\ in_console_input_write \in 0 .. InputSize - 1
    /\ in_buffer \in [0 .. InputSize - 1 -> {"x", "CR", "LF", "empty"}]
    /\ in_available \in {0, 1} /\ in_discard_line_feed \in BOOLEAN
    /\ in_accepted \in InText /\ in_returned \in InText
\* The mutexes are with the threads between locking and unlocking.
InTurns == \A t \in Threads :
    /\ in_at[t] \in {"looks", "waits", "pops"} <=> in_reader = t
    /\ in_at[t] = "transmits" <=> in_writer = t
\* The place k after the place i of the ring.
InSlot(i, k) == IF i + k < InputSize THEN i + k ELSE i + k - InputSize
InDropped(text, m) == text[m] = "LF" /\ m > 1 /\ text[m - 1] = "CR"
InKept(text, n) == {m \in 1 .. n : ~InDropped(text, m)}
\* The readers' lines are the first n characters of the text.
InLines(text, n, lines) ==
    /\ Len(lines) = Cardinality(InKept(text, n))
    /\ \A m \in InKept(text, n) : lines[Cardinality(InKept(text, m))] = Input!Ended(text[m])
\* Of what the ring accepted so much was taken out and so much waits in it. Who
\* waits for the semaphore has found the ring empty, and whoever fills it puts.
InHolds(taken, waiting) ==
    /\ Len(in_accepted) = taken + waiting /\ waiting < InputSize
    /\ in_console_input_write = InSlot(in_console_input_read, waiting)
    /\ \A k \in 1 .. waiting :
          in_buffer[InSlot(in_console_input_read, k - 1)] = in_accepted[taken + k]
    /\ in_discard_line_feed <=> taken > 0 /\ in_accepted[taken] = "CR"
    /\ InLines(in_accepted, taken, in_returned)
    /\ \A t \in Threads : /\ in_at[t] = "waits" /\ waiting > 0 => in_available > 0
                          /\ in_at[t] = "pops" => waiting > 0
InInv == InTypes /\ InTurns /\ \E taken, waiting \in Nat : InHolds(taken, waiting)

LEMMA InConstants == InputSize \in Nat \ {0} /\ "nobody" \notin Threads
  BY ConstantsAssumption DEF ConstantsAssumption

\* The driver's module has its own copy of FiniteSets.
LEMMA InCardinality == \A S : Input!Cardinality(S) = Cardinality(S)
  BY Zenon DEF Input!Cardinality, Cardinality

LEMMA InAfter ==
    ASSUME NEW i \in 0 .. InputSize - 1
    PROVE  Input!After(i) = InSlot(i, 1) /\ InSlot(i, 1) \in 0 .. InputSize - 1
  <1>1. CASE i + 1 < InputSize
    <2>1. i + 1 \in -InputSize .. InputSize - 1 /\ ~(i + 1 < 0)
      BY <1>1, InConstants
    <2>2. PICK j : j = i + 1
      OBVIOUS
    <2>3. j % InputSize = j
      BY <2>1, <2>2, ModNear, InConstants
    <2> QED BY <1>1, <2>1, <2>2, <2>3, InConstants DEF Input!After, InSlot
  <1>2. CASE ~(i + 1 < InputSize)
    <2>1. i + 1 = InputSize * 1 + 0 /\ 0 \in 0 .. InputSize - 1
      BY <1>2, InConstants
    <2>2. PICK zero \in 0 .. InputSize - 1, one \in Int : zero = 0 /\ one = 1
      BY <2>1
    <2>3. (InputSize * one + zero) % InputSize = zero
      BY ModUnique, InConstants
    <2>4. (i + 1) % InputSize = 0
      BY <2>1, <2>2, <2>3
    <2> QED BY <1>2, <2>1, <2>4, InConstants DEF Input!After, InSlot
  <1> QED BY <1>1, <1>2

LEMMA InKeptFinite ==
    ASSUME NEW text, NEW n \in Nat
    PROVE  /\ IsFiniteSet(InKept(text, n)) /\ Cardinality(InKept(text, n)) \in Nat
           /\ \A m \in InKept(text, n) : Cardinality(InKept(text, m)) \in 1 .. Cardinality(InKept(text, n))
  <1>1. ASSUME NEW k \in Nat PROVE IsFiniteSet(InKept(text, k)) /\ Cardinality(InKept(text, k)) \in Nat
    <2>1. IsFiniteSet(1 .. k)
      BY FS_Interval
    <2>2. InKept(text, k) \in SUBSET (1 .. k)
      BY DEF InKept
    <2>3. IsFiniteSet(InKept(text, k))
      BY <2>1, <2>2, FS_Subset
    <2> QED BY <2>3, FS_CardinalityType
  <1>2. ASSUME NEW m \in InKept(text, n)
        PROVE  Cardinality(InKept(text, m)) \in 1 .. Cardinality(InKept(text, n))
    <2>1. m \in Nat /\ m \in InKept(text, m) /\ InKept(text, m) \in SUBSET InKept(text, n)
      BY DEF InKept
    <2>2. Cardinality(InKept(text, m)) <= Cardinality(InKept(text, n))
      BY <1>1, <2>1, FS_Subset
    <2>3. Cardinality(InKept(text, m)) # 0
      BY <1>1, <2>1, FS_EmptySet
    <2> QED BY <1>1, <2>1, <2>2, <2>3
  <1> QED BY <1>1, <1>2

\* The LF of a CR LF adds nothing.
LEMMA InLinesDropped ==
    ASSUME NEW text, NEW n \in Nat, NEW lines, InLines(text, n, lines), InDropped(text, n + 1)
    PROVE  InLines(text, n + 1, lines)
  <1>1. InKept(text, n + 1) = InKept(text, n)
    BY DEF InKept
  <1> QED BY <1>1 DEF InLines

\* Every other character is the next one of the lines.
LEMMA InLinesKept ==
    ASSUME NEW text, NEW n \in Nat, NEW lines \in InText, NEW character, character = Input!Ended(text[n + 1]),
           InLines(text, n, lines), ~InDropped(text, n + 1)
    PROVE  InLines(text, n + 1, Append(lines, character))
  <1>1. InKept(text, n + 1) = InKept(text, n) \cup {n + 1} /\ n + 1 \notin InKept(text, n)
    BY DEF InKept
  <1>2. Cardinality(InKept(text, n + 1)) = Cardinality(InKept(text, n)) + 1
    BY <1>1, InKeptFinite, FS_AddElement
  <1>3. PICK last \in Nat : last = Cardinality(InKept(text, n)) /\ last = Len(lines)
    BY InKeptFinite DEF InLines
  <1>4. PICK longer : longer = Append(lines, character)
    OBVIOUS
  <1>5. Len(longer) = last + 1 /\ longer[last + 1] = character /\ \A k \in 1 .. last : longer[k] = lines[k]
    BY <1>3, <1>4 DEF InText
  <1>6. ASSUME NEW m \in InKept(text, n)
        PROVE  longer[Cardinality(InKept(text, m))] = Input!Ended(text[m])
    <2>1. Cardinality(InKept(text, m)) \in 1 .. last
      BY <1>3, InKeptFinite
    <2>2. lines[Cardinality(InKept(text, m))] = Input!Ended(text[m])
      BY DEF InLines
    <2> QED BY <1>5, <2>1, <2>2
  <1>7. longer[Cardinality(InKept(text, n + 1))] = Input!Ended(text[n + 1])
    BY <1>2, <1>3, <1>5
  <1>8. \A m \in InKept(text, n + 1) : longer[Cardinality(InKept(text, m))] = Input!Ended(text[m])
    BY <1>1, <1>6, <1>7
  <1>9. Len(longer) = Cardinality(InKept(text, n + 1))
    BY <1>2, <1>3, <1>5
  <1> QED BY <1>4, <1>8, <1>9 DEF InLines

\* What the ring accepts later changes nothing before.
LEMMA InLinesLater ==
    ASSUME NEW text \in InText, NEW character, NEW n \in 0 .. Len(text), NEW lines, InLines(text, n, lines)
    PROVE  InLines(Append(text, character), n, lines)
  <1>1. PICK later : later = Append(text, character)
    OBVIOUS
  <1>2. \A m \in 1 .. n : later[m] = text[m] /\ (m > 1 => later[m - 1] = text[m - 1])
    BY <1>1 DEF InText
  <1>3. \A m \in 1 .. n : InDropped(later, m) <=> InDropped(text, m)
    BY <1>2 DEF InDropped
  <1>4. \A k \in 0 .. n : InKept(later, k) = InKept(text, k)
    BY <1>3 DEF InKept
  <1>5. \A m \in InKept(text, n) : m \in 0 .. n /\ later[m] = text[m]
    BY <1>2 DEF InKept
  <1>6. n \in 0 .. n
    OBVIOUS
  <1>7. InLines(later, n, lines)
    BY <1>4, <1>5, <1>6 DEF InLines
  <1> QED BY <1>1, <1>7

LEMMA InInitial == Input!Init => InInv
  <1> SUFFICES ASSUME Input!Init PROVE InInv
    OBVIOUS
  <1>1. /\ in_at \in [Threads -> InPlaces] /\ \A t \in Threads : in_at[t] = "idle"
        /\ in_reader = "nobody" /\ in_writer = "nobody"
        /\ in_buffer \in [0 .. InputSize - 1 -> {"x", "CR", "LF", "empty"}]
        /\ in_console_input_read = 0 /\ in_console_input_write = 0
        /\ in_available = 0 /\ in_discard_line_feed = FALSE
        /\ in_accepted = <<>> /\ in_returned = <<>>
    BY DEF Input!Init, Input!Nobody, InPlaces
  <1>2. InTypes
    <2>1. <<>> \in InText
      BY DEF InText
    <2>2. 0 \in 0 .. InputSize - 1
      BY InConstants
    <2>3. FALSE \in BOOLEAN
      OBVIOUS
    <2> QED BY <1>1, <2>1, <2>2, <2>3 DEF InTypes
  <1>3. InTurns
    BY <1>1, InConstants DEF InTurns
  <1>4. InLines(in_accepted, 0, in_returned)
    <2>1. InKept(in_accepted, 0) = {}
      BY DEF InKept
    <2> QED BY <1>1, <2>1, FS_EmptySet DEF InLines
  <1>5. InHolds(0, 0)
    BY <1>1, <1>4, InConstants DEF InHolds, InSlot
  <1> QED BY <1>2, <1>3, <1>5 DEF InInv

LEMMA InSafe == InInv => ReadersGetLines
  <1> SUFFICES ASSUME InInv PROVE ReadersGetLines
    OBVIOUS
  <1>1. InTypes /\ InTurns
    BY DEF InInv
  <1>2. PICK taken \in Nat, waiting \in Nat : InHolds(taken, waiting)
    BY DEF InInv
  <1>3. Input!Waiting = waiting
    <2>1. PICK d \in -InputSize .. InputSize - 1 : d = in_console_input_write - in_console_input_read
      BY <1>1, InConstants DEF InTypes
    <2>2. d % InputSize = IF d < 0 THEN d + InputSize ELSE d
      BY <2>1, ModNear, InConstants
    <2>3. (IF d < 0 THEN d + InputSize ELSE d) = waiting
      BY <1>1, <1>2, <2>1, InConstants DEF InTypes, InHolds, InSlot
    <2> QED BY <2>1, <2>2, <2>3 DEF Input!Waiting
  <1>4. Input!Taken = taken
    BY <1>2, <1>3 DEF InHolds, Input!Taken
  <1>5. \A n : Input!Kept(n) = InKept(in_accepted, n)
    BY DEF Input!Kept, InKept, InDropped
  <1>6. /\ Len(in_returned) = Input!Cardinality(Input!Kept(Input!Taken))
        /\ \A n \in Input!Kept(Input!Taken) :
              in_returned[Input!Cardinality(Input!Kept(n))] = Input!Ended(in_accepted[n])
    BY <1>2, <1>4, <1>5, InCardinality DEF InHolds, InLines
  <1>7. \A t \in Threads : in_at[t] = "waits" /\ Input!Waiting > 0 => in_available > 0
    BY <1>2, <1>3 DEF InHolds
  <1>8. ASSUME NEW S, NEW owner, S \subseteq {owner}
        PROVE  Input!Cardinality(S) <= 1
    <2>1. S = {} \/ S = {owner}
      BY <1>8
    <2> QED BY <2>1, FS_EmptySet, FS_Singleton, InCardinality
  <1>9. /\ {t \in Threads : in_at[t] \in {"looks", "waits", "pops"}} \subseteq {in_reader}
        /\ {t \in Threads : in_at[t] = "transmits"} \subseteq {in_writer}
    BY <1>1 DEF InTurns
  <1> QED BY <1>6, <1>7, <1>8, <1>9 DEF ReadersGetLines, Input!ReadersGetLines

\* The steps of the threads that leave the ring alone.
LEMMA InThreadStep ==
    ASSUME InInv, NEW t \in Threads,
           \/ \E call \in {"getchar", "putchar"} : Input!Enter(t, call)
           \/ Input!LockInput(t) \/ Input!Look(t) \/ Input!Wait(t) \/ Input!LockOutput(t) \/ Input!Transmitted(t)
    PROVE  InInv'
  <1> USE DEF Input!Enter, Input!LockInput, Input!Look, Input!Wait, Input!LockOutput, Input!Transmitted,
              Input!Goes, Input!Nobody, Input!input, Input!ring
  <1>1. InTypes /\ InTurns
    BY DEF InInv
  <1>2. PICK taken \in Nat, waiting \in Nat : InHolds(taken, waiting)
    BY DEF InInv
  <1>3. InTypes'
    BY <1>1 DEF InTypes, InPlaces
  <1>4. InTurns'
    BY <1>1, InConstants DEF InTypes, InTurns
  <1>5. /\ UNCHANGED <<in_buffer, in_console_input_read, in_console_input_write, in_discard_line_feed,
                       in_accepted, in_returned>>
        /\ \A u \in Threads \ {t} : in_at'[u] = in_at[u]
    BY <1>1 DEF InTypes
  <1>6. waiting > 0 <=> in_console_input_read # in_console_input_write
    BY <1>1, <1>2, InConstants DEF InTypes, InHolds, InSlot
  <1>7. \A u \in Threads : /\ in_at'[u] = "waits" /\ waiting > 0 => in_available' > 0
                           /\ in_at'[u] = "pops" => waiting > 0
    <2>1. CASE in_available' = in_available
      <3>1. in_at'[t] # "waits" \/ waiting = 0
        BY <1>1, <1>2, <1>6 DEF InTypes, InPlaces, InHolds
      <3>2. in_at'[t] = "pops" => waiting > 0
        BY <1>1, <1>2, <1>6 DEF InTypes, InPlaces, InHolds
      <3> QED BY <1>2, <1>5, <2>1, <3>1, <3>2 DEF InHolds
    <2>2. CASE Input!Wait(t)
      <3>1. /\ in_at'[t] = "looks" /\ \A u \in Threads \ {t} : in_at'[u] \notin {"waits", "pops"}
        BY <1>1, <1>5, <2>2 DEF InTypes, InTurns
      <3> QED BY <3>1
    <2> QED BY <2>1, <2>2
  <1>8. InHolds(taken, waiting)'
    BY <1>2, <1>5, <1>7 DEF InHolds
  <1> QED BY <1>3, <1>4, <1>8 DEF InInv

\* A reader takes the oldest character.
LEMMA InPopStep ==
    ASSUME InInv, NEW t \in Threads, Input!Pop(t)
    PROVE  InInv'
  <1>1. InTypes /\ InTurns
    BY DEF InInv
  <1>2. PICK taken \in Nat, waiting \in Nat : InHolds(taken, waiting)
    BY DEF InInv
  <1>3. /\ in_at[t] = "pops" /\ waiting > 0 /\ in_reader = t
        /\ taken + 1 \in Nat /\ waiting - 1 \in Nat
    BY <1>1, <1>2 DEF Input!Pop, InHolds, InTurns
  <1>4. PICK character : character = in_accepted[taken + 1]
    OBVIOUS
  <1>5. in_buffer[in_console_input_read] = character /\ character \in {"x", "CR", "LF"}
    <2>1. InSlot(in_console_input_read, 1 - 1) = in_console_input_read
      BY <1>1, InConstants DEF InTypes, InSlot
    <2>2. in_buffer[InSlot(in_console_input_read, 1 - 1)] = in_accepted[taken + 1]
      BY <1>2, <1>3 DEF InHolds
    <2>3. taken + 1 \in 1 .. Len(in_accepted)
      BY <1>2, <1>3 DEF InHolds
    <2>4. in_accepted[taken + 1] \in {"x", "CR", "LF"}
      BY <1>1, <2>3 DEF InTypes, InText
    <2> QED BY <1>4, <2>1, <2>2, <2>4
  <1>6. /\ in_console_input_read' = InSlot(in_console_input_read, 1)
        /\ in_console_input_read' \in 0 .. InputSize - 1
        /\ UNCHANGED <<in_ready, in_failures, in_writer, in_buffer, in_console_input_write, in_available, in_accepted>>
    BY <1>1, InAfter DEF Input!Pop, InTypes
  <1>7. in_discard_line_feed /\ character = "LF" <=> InDropped(in_accepted, taken + 1)
    BY <1>2, <1>4 DEF InHolds, InDropped
  <1>8. PICK where \in {"looks", "idle"} :
           /\ in_at' = [in_at EXCEPT ![t] = where]
           /\ in_reader' = IF where = "looks" THEN in_reader ELSE "nobody"
           /\ in_discard_line_feed' = (character = "CR")
           /\ in_returned' \in InText
           /\ InLines(in_accepted, taken + 1, in_returned')
    <2>1. CASE InDropped(in_accepted, taken + 1)
      <3>1. /\ in_at' = [in_at EXCEPT ![t] = "looks"] /\ in_reader' = in_reader
            /\ in_discard_line_feed' = FALSE /\ in_returned' = in_returned /\ character = "LF"
        BY <1>5, <1>7, <2>1 DEF Input!Pop, Input!Goes
      <3>2. InLines(in_accepted, taken + 1, in_returned)
        BY <1>2, <2>1, InLinesDropped DEF InHolds
      <3>3. "CR" # "LF" /\ "looks" \in {"looks", "idle"}
        OBVIOUS
      <3> QED BY <1>1, <3>1, <3>2, <3>3 DEF InTypes
    <2>2. CASE ~InDropped(in_accepted, taken + 1)
      <3>1. PICK ended \in {"x", "LF"} : ended = Input!Ended(character)
        BY <1>5 DEF Input!Ended
      <3>2. /\ in_at' = [in_at EXCEPT ![t] = "idle"] /\ in_reader' = "nobody"
            /\ in_discard_line_feed' = (character = "CR") /\ in_returned' = Append(in_returned, ended)
        BY <1>5, <1>7, <2>2, <3>1 DEF Input!Pop, Input!Goes, Input!Nobody, Input!Ended
      <3>3. InLines(in_accepted, taken + 1, Append(in_returned, ended))
        BY <1>1, <1>2, <1>4, <2>2, <3>1, InLinesKept DEF InHolds, InTypes
      <3>4. Append(in_returned, ended) \in InText
        BY <1>1 DEF InTypes, InText
      <3>5. "idle" # "looks" /\ "idle" \in {"looks", "idle"}
        OBVIOUS
      <3> QED BY <3>2, <3>3, <3>4, <3>5
    <2> QED BY <2>1, <2>2
  <1>9. InTypes'
    BY <1>1, <1>6, <1>8 DEF InTypes, InPlaces
  <1>10. in_at'[t] = where /\ \A u \in Threads \ {t} : in_at'[u] = in_at[u]
    BY <1>1, <1>8 DEF InTypes
  <1>11. InTurns'
    BY <1>1, <1>3, <1>6, <1>8, <1>10, InConstants DEF InTurns
  <1>12. /\ Len(in_accepted) = (taken + 1) + (waiting - 1) /\ waiting - 1 < InputSize
         /\ in_console_input_write = InSlot(in_console_input_read', waiting - 1)
    BY <1>1, <1>2, <1>3, <1>6, InConstants DEF InHolds, InTypes, InSlot
  <1>13. ASSUME NEW k \in 1 .. waiting - 1
         PROVE  in_buffer[InSlot(in_console_input_read', k - 1)] = in_accepted[(taken + 1) + k]
    <2>1. PICK j \in 1 .. waiting : j = k + 1
      BY <1>3
    <2>2. InSlot(in_console_input_read', k - 1) = InSlot(in_console_input_read, j - 1)
      BY <1>1, <1>2, <1>6, <2>1, InConstants DEF InHolds, InTypes, InSlot
    <2>3. (taken + 1) + k = taken + j
      BY <2>1
    <2>4. in_buffer[InSlot(in_console_input_read, j - 1)] = in_accepted[taken + j]
      BY <1>2 DEF InHolds
    <2> QED BY <2>2, <2>3, <2>4
  <1>14. in_discard_line_feed' <=> taken + 1 > 0 /\ in_accepted[taken + 1] = "CR"
    <2>1. taken + 1 > 0
      OBVIOUS
    <2>2. in_discard_line_feed' = (in_accepted[taken + 1] = "CR")
      BY <1>4, <1>8
    <2> QED BY <2>1, <2>2, Zenon
  <1>15. \A u \in Threads : in_at'[u] \notin {"waits", "pops"}
    BY <1>1, <1>3, <1>8, <1>10 DEF InTurns
  <1>16. InHolds(taken + 1, waiting - 1)'
    BY <1>6, <1>8, <1>12, <1>13, <1>14, <1>15 DEF InHolds
  <1> QED BY <1>3, <1>9, <1>11, <1>16 DEF InInv

\* The interrupt puts a character into the ring, unless it is full, and tells.
LEMMA InInterruptStep ==
    ASSUME InInv, NEW character \in {"x", "CR", "LF"},
           Input!USART3_IRQHandler(character) \/ Input!Idle_
    PROVE  InInv'
  <1>1. InTypes /\ InTurns
    BY DEF InInv
  <1>2. PICK taken \in Nat, waiting \in Nat : InHolds(taken, waiting)
    BY DEF InInv
  <1>3. /\ in_available' = 1
        /\ UNCHANGED <<in_at, in_reader, in_writer, in_console_input_read, in_discard_line_feed, in_returned>>
    BY DEF Input!USART3_IRQHandler, Input!Idle_, Input!ring
  <1>4. InTurns'
    BY <1>1, <1>3 DEF InTurns
  <1>5. CASE UNCHANGED <<in_buffer, in_console_input_write, in_accepted>>
    <2>1. InTypes'
      BY <1>1, <1>3, <1>5 DEF InTypes
    <2>2. InHolds(taken, waiting)'
      BY <1>2, <1>3, <1>5 DEF InHolds
    <2> QED BY <1>4, <2>1, <2>2 DEF InInv
  <1>6. CASE ~Input!Full /\ Input!USART3_IRQHandler(character)
    <2>1. PICK write \in 0 .. InputSize - 1 : write = in_console_input_write
      BY <1>1 DEF InTypes
    <2>2. /\ in_buffer' = [in_buffer EXCEPT ![write] = character]
          /\ in_console_input_write' = InSlot(write, 1) /\ InSlot(write, 1) \in 0 .. InputSize - 1
          /\ in_accepted' = Append(in_accepted, character)
          /\ InSlot(write, 1) # in_console_input_read
      BY <1>6, <2>1, InAfter DEF Input!USART3_IRQHandler, Input!Full
    <2>3. InTypes'
      <3>1. Append(in_accepted, character) \in InText
        BY <1>1 DEF InTypes, InText
      <3> QED BY <1>1, <1>3, <2>2, <3>1 DEF InTypes
    <2>4. waiting + 1 < InputSize /\ InSlot(write, 1) = InSlot(in_console_input_read, waiting + 1)
      BY <1>1, <1>2, <2>1, <2>2, InConstants DEF InHolds, InTypes, InSlot
    <2>5. /\ Len(in_accepted) = taken + waiting /\ Len(in_accepted') = taken + (waiting + 1)
          /\ in_accepted'[taken + (waiting + 1)] = character
          /\ \A m \in 1 .. taken + waiting : in_accepted'[m] = in_accepted[m]
      BY <1>1, <1>2, <2>2 DEF InHolds, InTypes, InText
    <2>6. ASSUME NEW k \in 1 .. waiting + 1
          PROVE  in_buffer'[InSlot(in_console_input_read, k - 1)] = in_accepted'[taken + k]
      <3>1. PICK slot \in 0 .. InputSize - 1 : slot = InSlot(in_console_input_read, k - 1)
        <4>1. PICK j \in 0 .. InputSize - 1 : j = k - 1
          BY <2>4, InConstants
        <4>2. InSlot(in_console_input_read, j) \in 0 .. InputSize - 1
          BY <1>1, InConstants DEF InTypes, InSlot
        <4> QED BY <4>1, <4>2
      <3>2. CASE k = waiting + 1
        <4>1. slot = write
          BY <1>2, <2>1, <3>1, <3>2 DEF InHolds
        <4> QED BY <1>1, <2>2, <2>5, <3>1, <3>2, <4>1 DEF InTypes
      <3>3. CASE k \in 1 .. waiting
        <4>1. slot # write
          BY <1>1, <1>2, <2>1, <2>4, <3>1, <3>3, InConstants DEF InHolds, InTypes, InSlot
        <4>2. in_buffer[slot] = in_accepted[taken + k]
          BY <1>2, <3>1, <3>3 DEF InHolds
        <4>3. in_accepted'[taken + k] = in_accepted[taken + k]
          BY <2>5, <3>3
        <4>4. in_buffer'[slot] = in_buffer[slot]
          BY <1>1, <2>2, <4>1 DEF InTypes
        <4> QED BY <3>1, <4>2, <4>3, <4>4
      <3> QED BY <3>2, <3>3
    <2>7. taken > 0 => in_accepted'[taken] = in_accepted[taken]
      BY <2>5
    <2>8. InLines(in_accepted', taken, in_returned)
      <3>1. taken \in 0 .. Len(in_accepted) /\ in_accepted \in InText /\ InLines(in_accepted, taken, in_returned)
        BY <1>1, <1>2, <2>5 DEF InHolds, InTypes
      <3> QED BY <2>2, <3>1, InLinesLater
    <2>9. in_discard_line_feed <=> taken > 0 /\ in_accepted'[taken] = "CR"
      BY <1>2, <2>7 DEF InHolds
    <2>10. InHolds(taken, waiting + 1)'
      <3>1. \A t \in Threads : /\ in_at'[t] = "waits" /\ waiting + 1 > 0 => in_available' > 0
                               /\ in_at'[t] = "pops" => waiting + 1 > 0
        BY <1>3
      <3>2. in_console_input_write' = InSlot(in_console_input_read', waiting + 1)
        BY <1>3, <2>2, <2>4
      <3>3. \A k \in 1 .. waiting + 1 : in_buffer'[InSlot(in_console_input_read', k - 1)] = in_accepted'[taken + k]
        BY <1>3, <2>6
      <3>4. InLines(in_accepted', taken, in_returned')
        BY <1>3, <2>8
      <3>5. in_discard_line_feed' <=> taken > 0 /\ in_accepted'[taken] = "CR"
        BY <1>3, <2>9, Zenon
      <3> QED BY <2>4, <2>5, <3>1, <3>2, <3>3, <3>4, <3>5 DEF InHolds
    <2>11. waiting + 1 \in Nat
      OBVIOUS
    <2> QED BY <1>4, <2>3, <2>10, <2>11 DEF InInv
  <1> QED BY <1>5, <1>6 DEF Input!USART3_IRQHandler, Input!Idle_, Input!ring

LEMMA InStep == InInv /\ [Input!Next]_in_vars => InInv'
  <1> SUFFICES ASSUME InInv, [Input!Next]_in_vars PROVE InInv'
    OBVIOUS
  <1>1. CASE UNCHANGED in_vars
    <2>1. InTypes' /\ InTurns'
      BY <1>1 DEF in_vars, InInv, InTypes, InTurns
    <2>2. PICK taken \in Nat, waiting \in Nat : InHolds(taken, waiting)
      BY DEF InInv
    <2>3. InHolds(taken, waiting)'
      BY <1>1, <2>2 DEF in_vars, InHolds
    <2> QED BY <2>1, <2>3 DEF InInv
  <1>2. "x" \in {"x", "CR", "LF"}
    OBVIOUS
  <1> QED BY <1>1, <1>2, InThreadStep, InPopStep, InInterruptStep DEF Input!Next

\* stm32/hal.cpp: the readers together get what the ring took, in order and with
\* each line ending once, and no reader sleeps while there is something for it:
\* for any number of threads, any size of the ring and any input.
THEOREM ReadersGetLinesHolds == Spec => []ReadersGetLines
  <1>1. Init => InInv
    BY InInitial DEF Init
  <1>2. InInv /\ [Next]_vars => InInv'
    BY InStep DEF Next, vars, in_vars
  <1>3. InInv => ReadersGetLines
    BY InSafe
  <1> QED BY <1>1, <1>2, <1>3, PTL DEF Spec, vars

=============================================================================
