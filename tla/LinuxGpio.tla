------------------------------ MODULE LinuxGpio -----------------------------
(***************************************************************************)
(* One pin of the Linux build, an input with an edge callback and the      *)
(* latch of an output: linux/Gpio.cpp and its factory. Levels and latches  *)
(* are atomics, the callback is shared and called outside the mutex.       *)
(***************************************************************************)
EXTENDS Integers, FiniteSets

CONSTANTS
    Threads,
    Callbacks,
    MaxEdges    \* bound: level changes and toggles of one instance

VARIABLES
    jobs,       \* per thread: what it does and what it read
    holders,    \* threads with a reference to the input; none: the weak owner has expired
    edge,       \* the configured edge
    m_level, m_edgeCallback,
    alive,      \* callback objects not destroyed yet
    seen,       \* ghost: the edges the setters of the level found, rising and falling
    latch,      \* the output's level
    toggled     \* ghost: toggles since the last write, and what was written

vars == <<jobs, holders, edge, m_level, m_edgeCallback, alive, seen, latch, toggled>>
input == <<holders, edge, m_level, m_edgeCallback, alive, seen>>
output == <<latch, toggled>>

None == "none"
Idle == [does |-> "nothing", level |-> FALSE, callback |-> None]
NoEdges == [rising |-> 0, falling |-> 0]

Init ==
    /\ jobs = [t \in Threads |-> Idle]
    /\ holders = {} /\ edge = "none" /\ m_level = FALSE
    /\ m_edgeCallback = None /\ alive = {} /\ seen = NoEdges
    /\ latch = FALSE /\ toggled = [times |-> 0, from |-> FALSE]

Goes(t, what, level, callback) ==
    jobs' = [jobs EXCEPT ![t] = [does |-> what, level |-> level, callback |-> callback]]
Ends(t) == jobs' = [jobs EXCEPT ![t] = Idle]

\* create_pin: refused while the last instance has a reference.
Create(t, e) ==
    /\ jobs[t] = Idle /\ holders = {}
    /\ holders' = {t} /\ edge' = e
    /\ m_level' \in BOOLEAN \* the configured pull
    /\ m_edgeCallback' = None /\ seen' = NoEdges
    /\ UNCHANGED <<jobs, alive, output>>
Share(t, u) == /\ t \in holders /\ u \notin holders
               /\ holders' = holders \cup {u}
               /\ UNCHANGED <<jobs, edge, m_level, m_edgeCallback, alive, seen, output>>
Drop(t) == /\ t \in holders /\ jobs[t] = Idle
           /\ holders' = holders \ {t}
           /\ m_edgeCallback' = IF holders' = {} THEN None ELSE m_edgeCallback
           /\ alive' = IF holders' = {} THEN {} ELSE alive
           /\ UNCHANGED <<jobs, edge, m_level, seen, output>>

\* The objects somebody refers to: the member and the copies callers took.
InCalls_NotCounted(t) == {}
InCalls(t) == {jobs[u].callback : u \in Threads \ {t}}
Kept(member, t) == ((alive \cup {member}) \cap ({member} \cup InCalls(t))) \ {None}

\* setEdgeCallback: the old one is destroyed when nobody refers to it.
SetEdgeCallback(t, new) ==
    /\ t \in holders /\ jobs[t].does \in {"nothing", "calls"}
    /\ new = None \/ new \notin alive
    /\ m_edgeCallback' = new
    /\ alive' = Kept(new, t) \cup ({jobs[t].callback} \ {None})
    /\ UNCHANGED <<jobs, holders, edge, m_level, seen, output>>

edgeMatches(previous, current) ==
    previous # current /\ \/ edge = "both"
                          \/ edge = "rising" /\ current
                          \/ edge = "falling" /\ ~current

\* setSimulatedLevel: exchange, copy the callback under the mutex, call it, forget the copy.
SetSimulatedLevel(t, level) ==
    /\ t \in holders /\ jobs[t] = Idle
    /\ seen.rising + seen.falling < MaxEdges
    /\ m_level' = level
    /\ seen' = IF m_level = level THEN seen
               ELSE IF level THEN [seen EXCEPT !.rising = @ + 1] ELSE [seen EXCEPT !.falling = @ + 1]
    /\ IF edgeMatches(m_level, level) THEN Goes(t, "copies", level, None) ELSE UNCHANGED jobs
    /\ UNCHANGED <<holders, edge, m_edgeCallback, alive, output>>
CopyCallback(t) ==
    /\ jobs[t].does = "copies"
    /\ IF m_edgeCallback = None THEN Ends(t) ELSE Goes(t, "calls", jobs[t].level, m_edgeCallback)
    /\ UNCHANGED <<input, output>>
CallReturns(t) ==
    /\ jobs[t].does = "calls"
    /\ Ends(t)
    /\ alive' = Kept(m_edgeCallback, t)
    /\ UNCHANGED <<holders, edge, m_level, m_edgeCallback, seen, output>>

\* The output: write, and toggle as a compare-and-swap that retries.
Write(t, level) ==
    /\ jobs[t] = Idle
    /\ latch' = level /\ toggled' = [times |-> 0, from |-> level]
    /\ UNCHANGED <<jobs, input>>
ReadLatch(t) ==
    /\ jobs[t] = Idle /\ toggled.times < MaxEdges
    /\ Goes(t, "toggles", latch, None)
    /\ UNCHANGED <<input, output>>
CompareExchange(t) ==
    /\ jobs[t].does = "toggles"
    /\ \/ /\ latch = jobs[t].level
          /\ latch' = ~latch /\ toggled' = [toggled EXCEPT !.times = @ + 1]
          /\ Ends(t)
       \/ Goes(t, "toggles", latch, None) /\ UNCHANGED output
    /\ UNCHANGED input

Next == \E t \in Threads :
    \/ \E e \in {"none", "rising", "falling", "both"} : Create(t, e)
    \/ (\E u \in Threads : Share(t, u)) \/ Drop(t)
    \/ \E new \in Callbacks \cup {None} : SetEdgeCallback(t, new)
    \/ \E level \in BOOLEAN : SetSimulatedLevel(t, level) \/ Write(t, level)
    \/ CopyCallback(t) \/ CallReturns(t) \/ ReadLatch(t) \/ CompareExchange(t)

-----------------------------------------------------------------------------
(* A callback that runs exists, although it may have been replaced, by the *)
(* callback itself or by another thread; none outlives its last reference,  *)
(* and no edge or toggle is lost between concurrent callers.                *)
CallsLiveCallbacks ==
    /\ \A t \in Threads : jobs[t].does = "calls" => jobs[t].callback \in alive
    /\ alive = ({m_edgeCallback} \cup {jobs[t].callback : t \in Threads}) \ {None}
    /\ latch = (toggled.from # (toggled.times % 2 = 1))
    /\ seen.rising - seen.falling \in {-1, 0, 1}
=============================================================================
