--------------------------- MODULE ThreadAttributes -------------------------
(***************************************************************************)
(* How the attributes of a new thread get past std::thread's interface: a  *)
(* thread publishes them, and the next standard thread that it creates     *)
(* takes them (thread.hpp, backend.cpp, std::thread in thread.cpp). The    *)
(* factories publish for one creation and put back what was published.     *)
(***************************************************************************)
EXTENDS Naturals

CONSTANTS
    Threads,
    Attributes      \* other than the default ones

VARIABLES
    pending_attributes,     \* per thread: a thread_local optional
    at,                     \* per thread: "user", or where it is in a factory
    m_previous_attributes,  \* per thread: of its PendingAttributesScope
    published,              \* ghost: what the application published and is not used yet
    created                 \* ghost: per thread, its last creation: what it wanted and got

vars == <<pending_attributes, at, m_previous_attributes, published, created>>

None == "none"
Default == "default"
ValueOr(optional) == IF optional = None THEN Default ELSE optional

Init ==
    /\ pending_attributes = [t \in Threads |-> None]
    /\ at = [t \in Threads |-> "user"]
    /\ m_previous_attributes = [t \in Threads |-> None]
    /\ published = [t \in Threads |-> None]
    /\ created = [t \in Threads |-> [wanted |-> Default, got |-> Default]]

\* thread_local: each thread has its own.
Own_Shared(t) == CHOOSE u \in Threads : TRUE
Own(t) == t
Pending(t) == pending_attributes[Own(t)]
SetPending(t, optional) == pending_attributes' = [pending_attributes EXCEPT ![Own(t)] = optional]

\* The application publishes for a library that creates a thread.
publish_attributes(t, a) ==
    /\ at[t] = "user"
    /\ SetPending(t, a)
    /\ published' = [published EXCEPT ![t] = a]
    /\ UNCHANGED <<at, m_previous_attributes, created>>

\* runtime::thread::create and create_jthread: the callable and its arguments have
\* been copied, which may throw, or create threads, as any user code.
PendingAttributesScope(t, a) ==
    /\ at[t] = "user"
    /\ m_previous_attributes' = [m_previous_attributes EXCEPT ![t] = Pending(t)]
    /\ SetPending(t, a)
    /\ at' = [at EXCEPT ![t] = a]
    /\ UNCHANGED <<published, created>>

\* The memory for the thread's or the stop token's state is not there.
AllocationThrows(t) ==
    /\ at[t] \in Attributes
    /\ at' = [at EXCEPT ![t] = "leaves"]
    /\ UNCHANGED <<pending_attributes, m_previous_attributes, published, created>>

\* thread_create refuses some, or has no memory; the attributes are used up.
Consumed_Kept(t) == SetPending(t, Pending(t))
Consumed(t) == SetPending(t, None)
_M_start_thread(t) ==
    /\ at[t] # "leaves"
    /\ Consumed(t)
    /\ created' = [created EXCEPT ![t].got = ValueOr(Pending(t)),
                      ![t].wanted = IF at[t] = "user" THEN ValueOr(published[t]) ELSE at[t]]
    /\ IF at[t] = "user"
       THEN published' = [published EXCEPT ![t] = None] /\ UNCHANGED at
       ELSE at' = [at EXCEPT ![t] = "leaves"] /\ UNCHANGED published
    /\ UNCHANGED m_previous_attributes

\* ~PendingAttributesScope, also when an exception leaves it.
LeaveScope(t) ==
    /\ at[t] = "leaves"
    /\ SetPending(t, m_previous_attributes[t])
    /\ at' = [at EXCEPT ![t] = "user"]
    /\ UNCHANGED <<m_previous_attributes, published, created>>

Next == \E t \in Threads :
    \/ \E a \in Attributes : publish_attributes(t, a) \/ PendingAttributesScope(t, a)
    \/ AllocationThrows(t) \/ _M_start_thread(t) \/ LeaveScope(t)

-----------------------------------------------------------------------------
(* backend.hpp: "The attributes apply once to the next standard thread      *)
(* created by the calling thread". A factory neither uses up nor changes what *)
(* is published, even if it fails, and no thread gets another's attributes.  *)
AttributesReachTheirThread ==
    \A t \in Threads :
        /\ created[t].got = created[t].wanted
        /\ at[t] = "user" => Pending(t) = published[t]
=============================================================================
