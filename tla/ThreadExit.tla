------------------------------- MODULE ThreadExit ---------------------------
(***************************************************************************)
(* Callbacks at thread exit: thread_exit.cpp. They form a list per thread, *)
(* the value of a thread key, whose destructor runs them after the         *)
(* thread_local objects are gone; exit() runs those of its own thread. A   *)
(* notifier keeps a mutex until then, unlocks it and notifies the waiters. *)
(* Any other callback may register a further one.                          *)
(***************************************************************************)
EXTENDS Integers, Sequences

CONSTANTS
    Threads,
    MaxElements     \* bound: registrations, fewer than the destructor passes of a key

VARIABLES
    state,          \* per thread: where it is on its way out
    value,          \* per thread: the key's value, the first element
    elements,       \* every element: its callback, next, and whether it is still allocated
    element, next,  \* per thread: run_thread_exit_callbacks's locals
    owner,          \* of the mutex
    promised,       \* the thread whose end a notifier announces
    waiters,        \* threads that wait for the condition
    exiting,        \* the thread that has called exit()
    told,           \* ghost: threads that have seen the announcement
    runs            \* ghost: per element, how often its callback was called

vars == <<state, value, elements, element, next, owner, promised, waiters, exiting, told, runs>>
mutex == <<owner, promised, waiters, exiting, told>>

Nobody == "nobody"
Ids == 1 .. MaxElements
Live(t) == state[t] = "runs" /\ t \notin waiters
InCallback(t) == state[t] \in {"unlocks", "notifies", "deletes"}

Init ==
    /\ state = [t \in Threads |-> "runs"]
    /\ value = [t \in Threads |-> 0]
    /\ elements = <<>>
    /\ element = [t \in Threads |-> 0] /\ next = [t \in Threads |-> 0]
    /\ owner = Nobody /\ promised = Nobody /\ waiters = {} /\ exiting = Nobody /\ told = {}
    /\ runs = [e \in Ids |-> 0]

Goes(t, where) == state' = [state EXCEPT ![t] = where]

\* __at_thread_exit
Push(t, callback) ==
    /\ Len(elements) < MaxElements
    /\ elements' = Append(elements, [callback |-> callback, next |-> value[t], allocated |-> TRUE])
    /\ value' = [value EXCEPT ![t] = Len(elements) + 1]
__at_thread_exit(t) ==
    /\ Live(t) \/ (state[t] = "deletes" /\ elements[element[t]].callback = "other")
    /\ Push(t, "other")
    /\ UNCHANGED <<state, element, next, mutex, runs>>

Lock(t) ==
    /\ Live(t) /\ owner = Nobody /\ t \notin told
    /\ owner' = t
    /\ UNCHANGED <<state, value, elements, element, next, promised, waiters, exiting, told, runs>>
\* notify_all_at_thread_exit takes the lock over.
notify_all_at_thread_exit(t) ==
    /\ Live(t) /\ owner = t /\ promised = Nobody
    /\ Push(t, "notifier")
    /\ promised' = t
    /\ UNCHANGED <<state, element, next, owner, waiters, exiting, told, runs>>
\* A waiter of the condition: it sees the promise, or waits.
Look(t) ==
    /\ Live(t) /\ owner = t /\ promised # t
    /\ owner' = Nobody
    /\ IF promised = Nobody THEN waiters' = waiters \cup {t} /\ UNCHANGED told
       ELSE told' = told \cup {t} /\ UNCHANGED waiters
    /\ UNCHANGED <<state, value, elements, element, next, promised, exiting, runs>>

\* cleanup_thread_runtime: thread_local objects first, then the keys' destructors.
Leave(t) ==
    /\ Live(t) /\ (owner = t => promised = t)
    /\ Goes(t, "destroys")
    /\ UNCHANGED <<value, elements, element, next, mutex, runs>>
DestroyLocals(t) ==
    /\ state[t] = "destroys"
    /\ Goes(t, "destroyed")
    /\ UNCHANGED <<value, elements, element, next, mutex, runs>>
\* exit() runs its own thread's callbacks once; the others run on while the process ends.
Exit(t) ==
    /\ Live(t) /\ exiting = Nobody /\ (owner = t => promised = t)
    /\ exiting' = t
    /\ Goes(t, "exits")
    /\ UNCHANGED <<value, elements, element, next, owner, promised, waiters, told, runs>>
Finish(t) ==
    /\ state[t] = "exits" /\ value[t] = 0
    /\ Goes(t, "gone")
    /\ UNCHANGED <<value, elements, element, next, mutex, runs>>
\* A pass over the key: its value is cleared and the destructor called with it.
TakeValue(t, from) ==
    /\ state[t] = from /\ value[t] # 0
    /\ element' = [element EXCEPT ![t] = value[t]]
    /\ value' = [value EXCEPT ![t] = 0]
    /\ Goes(t, "walks")
    /\ UNCHANGED <<elements, next, mutex, runs>>

\* run_thread_exit_callbacks: a callback may delete its element.
Call(t) ==
    /\ state[t] = "walks" /\ element[t] # 0
    /\ next' = [next EXCEPT ![t] = elements[element[t]].next]
    /\ runs' = [runs EXCEPT ![element[t]] = @ + 1]
    /\ Goes(t, IF elements[element[t]].callback = "notifier" THEN "unlocks" ELSE "deletes")
    /\ UNCHANGED <<value, elements, element, mutex>>
\* ~notifier
Unlock(t) ==
    /\ state[t] = "unlocks"
    /\ owner' = Nobody
    /\ Goes(t, "notifies")
    /\ UNCHANGED <<value, elements, element, next, promised, waiters, exiting, told, runs>>
notify_all(t) ==
    /\ state[t] = "notifies"
    /\ waiters' = {}
    /\ Goes(t, "deletes")
    /\ UNCHANGED <<value, elements, element, next, owner, promised, exiting, told, runs>>
Delete(t) ==
    /\ state[t] = "deletes"
    /\ elements' = [elements EXCEPT ![element[t]] = [callback |-> "garbage", next |-> 0, allocated |-> FALSE]]
    /\ Goes(t, "returns")
    /\ UNCHANGED <<value, element, next, mutex, runs>>
Following_Read(t) == elements[element[t]].next
Following(t) == next[t]
Advance(t) ==
    /\ state[t] = "returns"
    /\ element' = [element EXCEPT ![t] = Following(t)]
    /\ next' = [next EXCEPT ![t] = 0]
    /\ Goes(t, IF Following(t) # 0 THEN "walks" ELSE IF exiting = t THEN "gone" ELSE "destroyed")
    /\ UNCHANGED <<value, elements, mutex, runs>>
End(t) ==
    /\ state[t] = "destroyed" /\ value[t] = 0
    /\ Goes(t, "ended")
    /\ UNCHANGED <<value, elements, element, next, mutex, runs>>

Next == \E t \in Threads :
    \/ __at_thread_exit(t) \/ Lock(t) \/ notify_all_at_thread_exit(t) \/ Look(t) \/ Leave(t)
    \/ DestroyLocals(t) \/ TakeValue(t, "destroyed") \/ TakeValue(t, "exits") \/ Exit(t) \/ Finish(t) \/ Call(t) \/ Unlock(t) \/ notify_all(t)
    \/ Delete(t) \/ Advance(t) \/ End(t)

-----------------------------------------------------------------------------
(* Each callback runs once, before its thread has ended, and its element is *)
(* not touched after it; the notifier unlocks a mutex its thread has; who   *)
(* was told of a thread's end saw the end of its thread_local objects.      *)
CallbacksRunOnce ==
    /\ \A e \in DOMAIN elements : runs[e] <= 1 /\ (elements[e].allocated \/ runs[e] = 1)
    /\ \A t \in Threads :
        /\ state[t] = "walks" => elements[element[t]].allocated
        /\ state[t] = "unlocks" => owner = t
    /\ (\A t \in Threads : state[t] = "ended") => \A e \in DOMAIN elements : runs[e] = 1
    /\ told # {} => state[promised] \notin {"runs", "destroys"} /\ owner # promised
    /\ promised # Nobody /\ state[promised] = "ended" => waiters = {}
=============================================================================
