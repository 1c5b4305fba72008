--------------------------- MODULE GpioInterrupts ---------------------------
(***************************************************************************)
(* The digital inputs of the board: stm32/Gpio.cpp and the factory that    *)
(* hands them out. Threads create and destroy inputs under the factory's   *)
(* mutex and exchange edge callbacks without it, while pins see edges and  *)
(* the interrupt of a group of EXTI lines comes between any two register   *)
(* accesses. The interrupt itself is not interrupted by threads: one step. *)
(***************************************************************************)
EXTENDS Integers, FiniteSets

CONSTANTS
    Threads,
    Pins        \* records with a port and a number; the number is the EXTI line

VARIABLES
    jobs,       \* per thread: what it does, to which pin, and where it is
    factory,    \* who holds owners_mutex
    claimed,    \* pins with an owner
    edge,       \* of those, inputs with an interrupt
    registry,   \* s_interruptRegistry: per line the pin of its input
    detecting,  \* per line, whether the EXTI block detects edges
    flags,      \* lines whose EXTI flag is set
    enabled,    \* interrupt groups enabled in the NVIC
    callback,   \* per pin: "none", "set", or "torn" while a swap is under way
    masked      \* who holds an InterruptGuard

vars == <<jobs, factory, claimed, edge, registry, detecting, flags, enabled, callback, masked>>

Nobody == "nobody"
NoPin == [port |-> "none", number |-> -1]
Lines == {p.number : p \in Pins}
interrupt_for(line) == IF line <= 4 THEN line ELSE IF line <= 9 THEN 9 ELSE 15
Groups == {interrupt_for(line) : line \in Lines}
Idle == [does |-> "nothing", pin |-> NoPin, edge |-> FALSE]

Init ==
    /\ jobs = [t \in Threads |-> Idle]
    /\ factory = Nobody /\ masked = Nobody
    /\ claimed = {} /\ edge = {}
    /\ registry = [l \in Lines |-> NoPin]
    /\ detecting = {} /\ flags = {} /\ enabled = {}
    /\ callback = [p \in Pins |-> "none"]

exti == <<registry, detecting, flags, enabled>>
Line(t) == jobs[t].pin.number
Group(t) == interrupt_for(Line(t))
Does(t, what) == jobs[t].does = what /\ masked \in {t, Nobody}
Becomes(t, what) == jobs' = [jobs EXCEPT ![t].does = what]
Begins(t, what, p, e) == jobs[t] = Idle /\ masked = Nobody
                         /\ jobs' = [jobs EXCEPT ![t] = [does |-> what, pin |-> p, edge |-> e]]
Ends(t) == jobs' = [jobs EXCEPT ![t] = Idle]
InUse(p) == \E t \in Threads : jobs[t].pin = p /\ jobs[t].does # "asks"
interruptLineAvailable(line) == registry[line] = NoPin

\* createInput and createOutput, up to the factory's mutex and its refusals.
Create(t, p, e) == Begins(t, "asks", p, e) /\ UNCHANGED <<factory, claimed, edge, exti, callback, masked>>
Refused(p, e) == p \in claimed \/ (e /\ ~interruptLineAvailable(p.number))
EnterFactory(t) ==
    /\ Does(t, "asks") /\ factory = Nobody
    /\ IF Refused(jobs[t].pin, jobs[t].edge) THEN Ends(t) /\ UNCHANGED factory
       ELSE Becomes(t, IF jobs[t].edge THEN "silences" ELSE "claims") /\ factory' = t
    /\ UNCHANGED <<claimed, edge, exti, callback, masked>>

\* The constructor: silence the group, register, initialise the pin, clear its flag, enable.
Silence(t) ==
    /\ Does(t, "silences")
    /\ enabled' = enabled \ {Group(t)}
    /\ Becomes(t, "registers")
    /\ UNCHANGED <<factory, claimed, edge, registry, detecting, flags, callback, masked>>
Register(t) ==
    /\ Does(t, "registers")
    /\ registry' = [registry EXCEPT ![Line(t)] = jobs[t].pin]
    /\ Becomes(t, "inits")
    /\ UNCHANGED <<factory, claimed, edge, detecting, flags, enabled, callback, masked>>
InitPin(t) ==
    /\ Does(t, "inits")
    /\ detecting' = detecting \cup {Line(t)}
    /\ Becomes(t, "clears")
    /\ UNCHANGED <<factory, claimed, edge, registry, flags, enabled, callback, masked>>
ClearFlag(t) ==
    /\ Does(t, "clears")
    /\ flags' = flags \ {Line(t)}
    /\ Becomes(t, "enables")
    /\ UNCHANGED <<factory, claimed, edge, registry, detecting, enabled, callback, masked>>
Enable(t) ==
    /\ Does(t, "enables")
    /\ enabled' = enabled \cup {Group(t)}
    /\ Becomes(t, "claims")
    /\ UNCHANGED <<factory, claimed, edge, registry, detecting, flags, callback, masked>>
Claim(t) ==
    /\ Does(t, "claims")
    /\ claimed' = claimed \cup {jobs[t].pin}
    /\ edge' = IF jobs[t].edge THEN edge \cup {jobs[t].pin} ELSE edge
    /\ factory' = Nobody
    /\ Ends(t)
    /\ UNCHANGED <<exti, callback, masked>>

\* The last reference goes: the deleter locks the factory and destroys the pin.
Drop(t, p) == p \in claimed /\ ~InUse(p) /\ Begins(t, "drops", p, p \in edge)
              /\ UNCHANGED <<factory, claimed, edge, exti, callback, masked>>
LockToDelete(t) ==
    /\ Does(t, "drops") /\ factory = Nobody
    /\ factory' = t
    /\ Becomes(t, IF jobs[t].edge THEN "disables" ELSE "releases")
    /\ UNCHANGED <<claimed, edge, exti, callback, masked>>
Disable(t) ==
    /\ Does(t, "disables")
    /\ enabled' = enabled \ {Group(t)}
    /\ Becomes(t, "deinits")
    /\ UNCHANGED <<factory, claimed, edge, registry, detecting, flags, callback, masked>>
DeInit(t) ==
    /\ Does(t, "deinits")
    /\ detecting' = detecting \ {Line(t)}
    /\ Becomes(t, "forgets")
    /\ UNCHANGED <<factory, claimed, edge, registry, flags, enabled, callback, masked>>
Forget(t) ==
    /\ Does(t, "forgets")
    /\ flags' = flags \ {Line(t)}
    /\ registry' = [registry EXCEPT ![Line(t)] = NoPin]
    /\ Becomes(t, "restores")
    /\ UNCHANGED <<factory, claimed, edge, detecting, enabled, callback, masked>>
group_still_used_SameLine(g) == \E l \in Lines : registry[l] # NoPin /\ l = g
group_still_used(g) == \E l \in Lines : registry[l] # NoPin /\ interrupt_for(l) = g
Restore(t) ==
    /\ Does(t, "restores")
    /\ enabled' = IF group_still_used(Group(t)) THEN enabled \cup {Group(t)} ELSE enabled
    /\ Becomes(t, "releases")
    /\ UNCHANGED <<factory, claimed, edge, registry, detecting, flags, callback, masked>>
Release(t) ==
    /\ Does(t, "releases")
    /\ claimed' = claimed \ {jobs[t].pin} /\ edge' = edge \ {jobs[t].pin}
    /\ callback' = [callback EXCEPT ![jobs[t].pin] = "none"]
    /\ factory' = Nobody
    /\ Ends(t)
    /\ UNCHANGED <<exti, masked>>

\* setEdgeCallback: the swap takes several writes, under an InterruptGuard.
SwapBegins(t, p) ==
    /\ p \in edge /\ ~\E u \in Threads : jobs[u].pin = p /\ jobs[u].does \notin {"asks", "swaps"}
    /\ Begins(t, "swaps", p, TRUE)
    /\ callback' = [callback EXCEPT ![p] = "torn"]
    /\ masked' = t
    /\ UNCHANGED <<factory, claimed, edge, exti>>
SwapEnds(t) ==
    /\ Does(t, "swaps")
    /\ \E new \in {"none", "set"} : callback' = [callback EXCEPT ![jobs[t].pin] = new]
    /\ masked' = Nobody
    /\ Ends(t)
    /\ UNCHANGED <<factory, claimed, edge, exti>>

\* The hardware: an edge on a line, and the interrupt of a group, which clears the
\* flags it finds and calls what dispatchEdge finds in the registry.
Edge(l) == /\ l \in detecting \ flags
           /\ flags' = flags \cup {l}
           /\ UNCHANGED <<jobs, factory, claimed, edge, registry, detecting, enabled, callback, masked>>
Taken(g) == {l \in flags : interrupt_for(l) = g}
dispatchEdge(g) ==
    /\ masked = Nobody /\ g \in enabled /\ Taken(g) # {}
    /\ flags' = flags \ Taken(g)
    /\ UNCHANGED <<jobs, factory, claimed, edge, registry, detecting, enabled, callback, masked>>

Next ==
    \/ \E t \in Threads :
        \/ \E p \in Pins : (\E e \in BOOLEAN : Create(t, p, e)) \/ Drop(t, p) \/ SwapBegins(t, p)
        \/ EnterFactory(t) \/ Silence(t) \/ Register(t) \/ InitPin(t) \/ ClearFlag(t) \/ Enable(t)
        \/ Claim(t) \/ LockToDelete(t) \/ Disable(t) \/ DeInit(t) \/ Forget(t) \/ Restore(t)
        \/ Release(t) \/ SwapEnds(t)
    \/ \E l \in Lines : Edge(l)
    \/ \E g \in Groups : dispatchEdge(g)

-----------------------------------------------------------------------------
(* An interrupt that may come now finds for each of its flags a registered *)
(* input that is alive and whose callback is whole.                         *)
InterruptFindsInput ==
    \A g \in enabled : masked = Nobody => \A l \in Taken(g) :
        /\ registry[l] # NoPin
        /\ callback[registry[l]] # "torn"
        /\ registry[l] \in edge \/ \E t \in Threads : jobs[t].pin = registry[l] /\ jobs[t].does = "claims"

(* While nobody works under the factory's mutex, the group of every edge    *)
(* input is enabled and no other group, and a line has one input.           *)
GroupsFollowInputs ==
    factory = Nobody =>
        /\ enabled = {interrupt_for(p.number) : p \in edge}
        /\ \A p \in edge : registry[p.number] = p

(* Creating or destroying one input never discards an edge of another.     *)
OthersEdgesKept ==
    [][\A l \in flags \ flags' :
        \/ interrupt_for(l) \in enabled
        \/ \E t \in Threads : jobs[t] # jobs'[t] /\ Line(t) = l]_vars

EdgesReachTheirInput == [](InterruptFindsInput /\ GroupsFollowInputs) /\ OthersEdgesKept
=============================================================================
