----------------------------- MODULE ThreadLocals ---------------------------
(***************************************************************************)
(* thread_local objects on Arm: tls.cpp. A context, which is the start-up  *)
(* code or a thread, has a block for the static image, an array with the   *)
(* emulated objects it has used, and a list of destructors. The            *)
(* application's thread continues with those of the start-up code.         *)
(***************************************************************************)
EXTENDS Integers, Sequences

CONSTANTS
    Threads, Application,   \* the thread that runs main
    Objects,                \* emulated thread_local objects
    Spare,                  \* entries a new array has to spare, 32
    MaxDestructors          \* bound: registrations

VARIABLES
    phase,          \* "startup" or "kernel"
    state,          \* per thread
    block,          \* per context: which memory the static image is in
    destructors,    \* per context: the list
    emutls,         \* per context: the array; <<>> for none
    location,       \* per object: its offset
    emutls_object_count,
    pending,        \* per context: an object whose offset it found to be zero
    running,        \* per context: the destructor it runs
    used,           \* ghost, per context: the addresses it knows of
    registered      \* ghost: every destructor's object and fate

vars == <<phase, state, block, destructors, emutls, location, emutls_object_count, pending,
          running, used, registered>>
context == <<state, block, destructors, running, registered>>

None == "none"
Null == <<>>            \* no address
StartUp == "startup"
Gone == [object |-> Null, fate |-> "gone"]
Contexts == Threads \cup {StartUp}
Unknown == [o \in Objects \cup {"static"} |-> Null]
Active(c) == IF c = StartUp THEN phase = "startup" ELSE phase = "kernel" /\ state[c] \in {"runs", "drains"}

Init ==
    /\ phase = "startup"
    /\ state = [t \in Threads |-> "none"]
    /\ block = [c \in Contexts |-> IF c = StartUp THEN <<"image">> ELSE Null]
    /\ destructors = [c \in Contexts |-> <<>>]
    /\ emutls = [c \in Contexts |-> <<>>]
    /\ location = [o \in Objects |-> 0] /\ emutls_object_count = 0
    /\ pending = [c \in Contexts |-> None]
    /\ running = [c \in Contexts |-> 0]
    /\ used = [c \in Contexts |-> Unknown]
    /\ registered = <<>>

\* grow_emutls_array and the array's allocation: old entries stay, new ones are null.
Capacity(old, offset) == IF old = 0 \/ 2 * old < offset THEN offset + Spare ELSE 2 * old
Grown(array, offset) ==
    IF Len(array) >= offset THEN array
    ELSE [i \in 1 .. Capacity(Len(array), offset) |-> IF i <= Len(array) THEN array[i] ELSE Null]

\* __emutls_get_address: the object's entry, which is allocated when it is null.
Reach(c, o, offset) ==
    LET array == Grown(emutls[c], offset)
        address == IF array[offset] = Null THEN <<c, o>> ELSE array[offset]
    IN  /\ emutls' = [emutls EXCEPT ![c] = [array EXCEPT ![offset] = address]]
        /\ used' = [used EXCEPT ![c][o] = address]
__emutls_get_address(c, o) ==
    /\ Active(c) /\ pending[c] = None
    /\ IF location[o] = 0 THEN pending' = [pending EXCEPT ![c] = o] /\ UNCHANGED <<emutls, used>>
       ELSE Reach(c, o, location[o]) /\ UNCHANGED pending
    /\ UNCHANGED <<phase, context, location, emutls_object_count>>

\* emutls_offset with interrupts disabled: somebody else may have been faster.
Assigned_Not(o) == FALSE
Assigned(o) == location[o] # 0
emutls_offset(c) ==
    /\ Active(c) /\ pending[c] # None
    /\ LET o == pending[c]
           offset == IF Assigned(o) THEN location[o] ELSE emutls_object_count + 1
       IN  /\ location' = [location EXCEPT ![o] = offset]
           /\ emutls_object_count' = IF Assigned(o) THEN emutls_object_count ELSE offset
           /\ Reach(c, o, offset)
    /\ pending' = [pending EXCEPT ![c] = None]
    /\ UNCHANGED <<phase, context>>

runtime_tls_read_thread_pointer(c) ==
    /\ Active(c)
    /\ used' = [used EXCEPT ![c]["static"] = block[c]]
    /\ UNCHANGED <<phase, context, emutls, location, emutls_object_count, pending>>

__cxa_thread_atexit(c, o) ==
    /\ Active(c) /\ pending[c] = None /\ used[c][o] # Null
    /\ Len(registered) < MaxDestructors
    /\ registered' = Append(registered, [object |-> used[c][o], fate |-> "listed"])
    /\ destructors' = [destructors EXCEPT ![c] = <<Len(registered) + 1>> \o @]
    /\ UNCHANGED <<phase, state, block, emutls, location, emutls_object_count, pending, running, used>>

\* runtime_tls_thread_create, from a context that runs; also the second half of a reset.
Fresh(t) ==
    /\ state' = [state EXCEPT ![t] = "runs"]
    /\ block' = [block EXCEPT ![t] = <<"own">>]
    /\ destructors' = [destructors EXCEPT ![t] = <<>>]
    /\ emutls' = [emutls EXCEPT ![t] = <<>>]
    /\ pending' = [pending EXCEPT ![t] = None]
    /\ running' = [running EXCEPT ![t] = 0]
    /\ used' = [used EXCEPT ![t] = Unknown]
runtime_tls_thread_create(t) ==
    /\ state[t] = "none"
    /\ Fresh(t)
    /\ UNCHANGED <<phase, location, emutls_object_count, registered>>

\* runtime_tls_adopt_startup, the last thing before the scheduler starts.
runtime_tls_adopt_startup ==
    /\ phase = "startup" /\ state[Application] # "none" /\ pending[StartUp] = None
    /\ phase' = "kernel"
    /\ block' = [block EXCEPT ![Application] = <<"image">>]
    /\ destructors' = [destructors EXCEPT ![Application] = destructors[StartUp], ![StartUp] = <<>>]
    /\ emutls' = [emutls EXCEPT ![Application] = emutls[StartUp], ![StartUp] = <<>>]
    /\ used' = [used EXCEPT ![Application] = used[StartUp], ![StartUp] = Unknown]
    /\ UNCHANGED <<state, location, emutls_object_count, pending, running, registered>>

\* runtime_tls_thread_exit: a destructor leaves the list before it runs, and may add to it.
Leave(t) ==
    /\ Active(t) /\ state[t] = "runs" /\ pending[t] = None
    /\ state' = [state EXCEPT ![t] = "drains"]
    /\ UNCHANGED <<phase, block, destructors, emutls, location, emutls_object_count, pending, running, used, registered>>
RunDestructor(t) ==
    /\ state[t] = "drains" /\ running[t] = 0 /\ destructors[t] # <<>>
    /\ running' = [running EXCEPT ![t] = Head(destructors[t])]
    /\ destructors' = [destructors EXCEPT ![t] = Tail(@)]
    /\ registered' = [registered EXCEPT ![Head(destructors[t])].fate = "running"]
    /\ UNCHANGED <<phase, state, block, emutls, location, emutls_object_count, pending, used>>
DestructorReturns(t) ==
    /\ state[t] = "drains" /\ running[t] # 0 /\ pending[t] = None
    /\ running' = [running EXCEPT ![t] = 0]
    /\ registered' = [registered EXCEPT ![running[t]] = Gone]
    /\ UNCHANGED <<phase, state, block, destructors, emutls, location, emutls_object_count, pending, used>>
End(t) ==
    /\ state[t] = "drains" /\ running[t] = 0 /\ pending[t] = None /\ destructors[t] = <<>>
    /\ state' = [state EXCEPT ![t] = "ended"]
    /\ UNCHANGED <<phase, block, destructors, emutls, location, emutls_object_count, pending, running, used, registered>>
Terminate(t) ==
    /\ Active(t)
    /\ state' = [state EXCEPT ![t] = "ended"]
    /\ UNCHANGED <<phase, block, destructors, emutls, location, emutls_object_count, pending, running, used, registered>>

\* runtime_tls_thread_delete: what has not run by now is discarded.
Discarded(t) ==
    [d \in DOMAIN registered |->
        IF running[t] = d \/ \E i \in DOMAIN destructors[t] : destructors[t][i] = d THEN Gone ELSE registered[d]]
runtime_tls_thread_delete(t) ==
    /\ state[t] = "ended"
    /\ registered' = Discarded(t)
    /\ state' = [state EXCEPT ![t] = "none"]
    /\ block' = [block EXCEPT ![t] = Null]
    /\ destructors' = [destructors EXCEPT ![t] = <<>>]
    /\ emutls' = [emutls EXCEPT ![t] = <<>>]
    /\ running' = [running EXCEPT ![t] = 0]
    /\ used' = [used EXCEPT ![t] = Unknown]
    /\ pending' = [pending EXCEPT ![t] = None]
    /\ UNCHANGED <<phase, location, emutls_object_count>>
Reset(t) ==
    /\ state[t] = "ended"
    /\ registered' = Discarded(t)
    /\ Fresh(t)
    /\ UNCHANGED <<phase, location, emutls_object_count>>

Next ==
    \/ \E c \in Contexts :
        \/ \E o \in Objects : __emutls_get_address(c, o) \/ __cxa_thread_atexit(c, o)
        \/ emutls_offset(c) \/ runtime_tls_read_thread_pointer(c)
    \/ \E t \in Threads :
        \/ runtime_tls_thread_create(t) \/ Leave(t) \/ RunDestructor(t) \/ DestructorReturns(t)
        \/ End(t) \/ Terminate(t) \/ runtime_tls_thread_delete(t) \/ Reset(t)
    \/ runtime_tls_adopt_startup

-----------------------------------------------------------------------------
(* An address a context has got stays the object's: through growth, through *)
(* other contexts' first uses, and through the hand-over to main. Each      *)
(* destructor is in one list, the latest first, until it runs or is         *)
(* discarded, and what it destroys is there while it runs.                  *)
Has(c, address) == \E i \in DOMAIN emutls[c] : emutls[c][i] = address
Listed(c) == {destructors[c][i] : i \in DOMAIN destructors[c]}
LocalsKeepTheirIdentity ==
    /\ \A c \in Contexts :
        /\ used[c]["static"] \in {Null, block[c]}
        /\ \A o \in Objects : used[c][o] # Null =>
            location[o] \in DOMAIN emutls[c] /\ emutls[c][location[o]] = used[c][o]
        /\ \A i, j \in DOMAIN destructors[c] : i < j => destructors[c][i] > destructors[c][j]
        /\ \A d \in Listed(c) : Has(c, registered[d].object)
        /\ running[c] # 0 => Has(c, registered[running[c]].object)
    /\ \A d \in DOMAIN registered :
        (registered[d].fate = "listed") <=> (\E c \in Contexts : d \in Listed(c))
=============================================================================
