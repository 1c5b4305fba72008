----------------------------- MODULE ThreadKeys -----------------------------
(***************************************************************************)
(* Thread-specific data (key_create, key_delete, key_get, key_set and      *)
(* run_thread_specific_destructors in                                      *)
(* platform/runtime/libstdcxx/backend.cpp).                                *)
(*                                                                         *)
(* A key is a slot of a table and the slot's generation.  Values stay in   *)
(* the control block of each thread, tagged with a generation; nobody      *)
(* visits the other threads when a key is deleted and its slot reused.     *)
(* The table is guarded by initialization_mutex in sections that do not    *)
(* block, so each is one step; what was read there is used after it.       *)
(*                                                                         *)
(* The application may use a key that has been deleted: the code has       *)
(* checks for that.  A value is represented by the key under which and the *)
(* execution of the thread in which it was set.                            *)
(***************************************************************************)
EXTENDS Integers, FiniteSets

CONSTANTS
    Threads, None,
    KeyCount,           \* RUNTIME_THREAD_KEY_COUNT
    GenerationMask,     \* KEY_GENERATION_MASK >> KEY_INDEX_BITS
    FirstGenerations,   \* of each slot when the history modelled starts
    Iterations,         \* destructor_iterations
    MaxCreates,         \* bound: keys created
    MaxExecutions       \* bound: executions of a thread

Slots == 0..KeyCount - 1
Handles == [index : Slots, generation : 0..GenerationMask, number : 1..MaxCreates]

ASSUME ConstantsAssumption ==
    /\ KeyCount \in Nat \ {0} /\ Iterations \in Nat \ {0}
    /\ GenerationMask \in Nat \ {0}
    /\ FirstGenerations \subseteq 0..GenerationMask
    /\ MaxCreates \in Nat /\ MaxExecutions \in Nat \ {0}

ASSUME NoneAssumption == None \notin Handles

VARIABLES
    allocated, generation, destructor,   \* fields of the table `keys`
    handles,      \* keys that the application has, also deleted ones
    live,         \* history: those that are not deleted
    creates,      \* history: number of keys created
    pc, stage,    \* stage: is the thread's code its entry function or a destructor?
    key,          \* argument of the call in progress
    tls_values, tls_generations,   \* in the control block of each thread
    result,       \* what key_get has returned
    pass, index, invoked,          \* locals of run_thread_specific_destructors
    found,        \* its locals destructor and generation: the key found, or None
    execution     \* history: how often the thread was started

tableVars == <<allocated, generation, destructor, handles, live, creates>>
valueVars == <<tls_values, tls_generations>>
exitVars == <<pass, index, invoked, found>>
callVars == <<key, result>>
vars == <<tableVars, valueVars, exitVars, callVars, pc, stage, execution>>

Init ==
    /\ allocated = [s \in Slots |-> FALSE]
    /\ generation \in [Slots -> FirstGenerations]
    /\ destructor = [s \in Slots |-> None]
    /\ handles = {} /\ live = {} /\ creates = 0
    /\ pc = [t \in Threads |-> "user"]
    /\ stage = [t \in Threads |-> "entry"]
    /\ key = [t \in Threads |-> None]
    /\ tls_values = [t \in Threads |-> [s \in Slots |-> None]]
    /\ tls_generations = [t \in Threads |-> [s \in Slots |-> 0]]
    /\ result = [t \in Threads |-> None]
    /\ pass = [t \in Threads |-> 0]
    /\ index = [t \in Threads |-> 0]
    /\ invoked = [t \in Threads |-> FALSE]
    /\ found = [t \in Threads |-> None]
    /\ execution = [t \in Threads |-> 1]

-----------------------------------------------------------------------------

Go(t, label) == pc' = [pc EXCEPT ![t] = label]
Return(t) == Go(t, "user") /\ key' = [key EXCEPT ![t] = None]

\* Mutant: the generation is not masked.
NextGeneration_Unmasked(s) == generation[s] + 1

NextGeneration(s) ==
    LET next == (generation[s] + 1) % (GenerationMask + 1)
    IN  IF next = 0 THEN 1 ELSE next

\* The key is refused, or it is the one that its slot was allocated for.
IsCurrent(k) ==
    /\ k.generation # 0
    /\ allocated[k.index] /\ generation[k.index] = k.generation

\* Bound: nobody keeps a deleted key, or a value set under it, while its slot is
\* reused GenerationMask (2^24 - 1) times.
GenerationIsFresh(s) ==
    \A t \in Threads :
        /\ tls_generations[t][s] # NextGeneration(s)
        /\ key[t] # None => ~(key[t].index = s /\ key[t].generation = NextGeneration(s))

-----------------------------------------------------------------------------
(* Calls of the application.                                                *)

\* The first free slot; with no free slot key_create returns EAGAIN.
KeyCreate(t) ==
    /\ pc[t] = "user" /\ creates < MaxCreates
    /\ \E s \in Slots, d \in BOOLEAN :
          LET g == NextGeneration(s)
              k == [index |-> s, generation |-> g, number |-> creates + 1] IN
          /\ ~allocated[s] /\ \A r \in 0..s - 1 : allocated[r]
          /\ GenerationIsFresh(s)
          /\ allocated' = [allocated EXCEPT ![s] = TRUE]
          /\ generation' = [generation EXCEPT ![s] = g]
          /\ destructor' = [destructor EXCEPT ![s] = IF d THEN k ELSE None]
          /\ handles' = {h \in handles : h.index # s \/ h.generation # g} \union {k}
          /\ live' = live \union {k}
    /\ creates' = creates + 1
    /\ UNCHANGED <<valueVars, exitVars, callVars, pc, stage, execution>>

\* Mutant: key_delete does not look at the generation.
KeyDelete_AnyGeneration(t) ==
    /\ pc[t] = "user"
    /\ \E k \in handles :
          /\ allocated[k.index]
          /\ allocated' = [allocated EXCEPT ![k.index] = FALSE]
          /\ destructor' = [destructor EXCEPT ![k.index] = None]
          /\ live' = live \ {k}
    /\ UNCHANGED <<generation, handles, creates, valueVars, exitVars, callVars, pc,
                   stage, execution>>

\* A key that is not current is refused with EINVAL.
KeyDelete(t) ==
    /\ pc[t] = "user"
    /\ \E k \in handles :
          /\ IsCurrent(k)
          /\ allocated' = [allocated EXCEPT ![k.index] = FALSE]
          /\ destructor' = [destructor EXCEPT ![k.index] = None]
          /\ live' = live \ {k}
    /\ UNCHANGED <<generation, handles, creates, valueVars, exitVars, callVars, pc,
                   stage, execution>>

\* key_get and key_set check the key under the mutex ...
KeyGet(t) ==
    /\ pc[t] = "user"
    /\ \E k \in handles :
          /\ IsCurrent(k)
          /\ key' = [key EXCEPT ![t] = k]
    /\ Go(t, "get")
    /\ UNCHANGED <<tableVars, valueVars, exitVars, result, stage, execution>>

KeySet(t) ==
    /\ pc[t] = "user"
    /\ \E k \in handles :
          /\ IsCurrent(k)
          /\ key' = [key EXCEPT ![t] = k]
    /\ Go(t, "set")
    /\ UNCHANGED <<tableVars, valueVars, exitVars, result, stage, execution>>

\* Mutant: the tag of the value is not compared.
KeyGetReads_Untagged(t) ==
    /\ pc[t] = "get"
    /\ result' = [result EXCEPT ![t] = tls_values[t][key[t].index]]
    /\ Go(t, "got")
    /\ UNCHANGED <<tableVars, valueVars, exitVars, key, stage, execution>>

\* ... and go on with the thread's own control block after it.
KeyGetReads(t) ==
    /\ pc[t] = "get"
    /\ result' = [result EXCEPT ![t] =
                    IF tls_generations[t][key[t].index] # key[t].generation THEN None
                    ELSE tls_values[t][key[t].index]]
    /\ Go(t, "got")
    /\ UNCHANGED <<tableVars, valueVars, exitVars, key, stage, execution>>

KeyGetReturns(t) ==
    /\ pc[t] = "got"
    /\ result' = [result EXCEPT ![t] = None]
    /\ Return(t)
    /\ UNCHANGED <<tableVars, valueVars, exitVars, stage, execution>>

KeySetWrites(t) ==
    /\ pc[t] = "set"
    /\ \E v \in {None, [key |-> key[t], execution |-> execution[t]]} :
          tls_values' = [tls_values EXCEPT ![t][key[t].index] = v]
    /\ tls_generations' = [tls_generations EXCEPT ![t][key[t].index] = key[t].generation]
    /\ Return(t)
    /\ UNCHANGED <<tableVars, exitVars, result, stage, execution>>

-----------------------------------------------------------------------------
(* The end of a thread: run_thread_specific_destructors                     *)

ThreadExits(t) ==
    /\ pc[t] = "user" /\ stage[t] = "entry"
    /\ pass' = [pass EXCEPT ![t] = 0]
    /\ index' = [index EXCEPT ![t] = 0]
    /\ invoked' = [invoked EXCEPT ![t] = FALSE]
    /\ Go(t, "look")
    /\ UNCHANGED <<tableVars, valueVars, found, callVars, stage, execution>>

Look(t) ==
    /\ pc[t] = "look" /\ index[t] < KeyCount
    /\ found' = [found EXCEPT ![t] =
                   IF allocated[index[t]] THEN destructor[index[t]] ELSE None]
    /\ Go(t, "compare")
    /\ UNCHANGED <<tableVars, valueVars, pass, index, invoked, callVars, stage, execution>>

\* Mutant: the tag of the value is not compared.
Matches_Untagged(t) == found[t] # None /\ tls_values[t][index[t]] # None

Matches(t) ==
    /\ found[t] # None
    /\ tls_values[t][index[t]] # None
    /\ tls_generations[t][index[t]] = found[t].generation

\* The destructor starts, with the thread's value already cleared; result stands
\* for its argument.
Destroy(t) ==
    /\ pc[t] = "compare" /\ Matches(t)
    /\ result' = [result EXCEPT ![t] = tls_values[t][index[t]]]
    /\ tls_values' = [tls_values EXCEPT ![t][index[t]] = None]
    /\ invoked' = [invoked EXCEPT ![t] = TRUE]
    /\ stage' = [stage EXCEPT ![t] = "destructor"]
    /\ Go(t, "destroy")
    /\ UNCHANGED <<tableVars, tls_generations, pass, index, found, key, execution>>

\* The destructor is the application's: it may call key_set and the others ...
DestructorRuns(t) ==
    /\ pc[t] = "destroy"
    /\ result' = [result EXCEPT ![t] = None]
    /\ found' = [found EXCEPT ![t] = None]
    /\ Go(t, "user")
    /\ UNCHANGED <<tableVars, valueVars, pass, index, invoked, key, stage, execution>>

\* ... and returns.
DestructorReturns(t) ==
    /\ pc[t] = "user" /\ stage[t] = "destructor"
    /\ stage' = [stage EXCEPT ![t] = "entry"]
    /\ index' = [index EXCEPT ![t] = @ + 1]
    /\ Go(t, "look")
    /\ UNCHANGED <<tableVars, valueVars, pass, invoked, found, callVars, execution>>

Skip(t) ==
    /\ pc[t] = "compare" /\ ~Matches(t)
    /\ found' = [found EXCEPT ![t] = None]
    /\ index' = [index EXCEPT ![t] = @ + 1]
    /\ Go(t, "look")
    /\ UNCHANGED <<tableVars, valueVars, pass, invoked, callVars, stage, execution>>

\* Mutant: there is only one pass.
PassEnds_Once(t) ==
    /\ pc[t] = "look" /\ index[t] = KeyCount
    /\ Go(t, "ended")
    /\ UNCHANGED <<tableVars, valueVars, exitVars, callVars, stage, execution>>

PassEnds(t) ==
    /\ pc[t] = "look" /\ index[t] = KeyCount
    /\ IF invoked[t] /\ pass[t] + 1 < Iterations
       THEN /\ pass' = [pass EXCEPT ![t] = @ + 1]
            /\ index' = [index EXCEPT ![t] = 0]
            /\ invoked' = [invoked EXCEPT ![t] = FALSE]
            /\ UNCHANGED pc
       ELSE /\ Go(t, "ended")
            /\ UNCHANGED <<pass, index, invoked>>
    /\ UNCHANGED <<tableVars, valueVars, found, callVars, stage, execution>>

\* tx_thread_reset and tx_thread_resume: runtime_libstdcxx_thread_started.
Restart(t) ==
    /\ pc[t] = "ended"
    /\ execution[t] < MaxExecutions
    /\ execution' = [execution EXCEPT ![t] = @ + 1]
    /\ tls_values' = [tls_values EXCEPT ![t] = [s \in Slots |-> None]]
    /\ tls_generations' = [tls_generations EXCEPT ![t] = [s \in Slots |-> 0]]
    /\ Go(t, "user")
    /\ UNCHANGED <<tableVars, exitVars, callVars, stage>>

-----------------------------------------------------------------------------

CallSteps(t) == KeyGetReads(t) \/ KeyGetReturns(t) \/ KeySetWrites(t)
ExitSteps(t) == Look(t) \/ Destroy(t) \/ DestructorRuns(t) \/ DestructorReturns(t)
                   \/ Skip(t) \/ PassEnds(t)

Next ==
    \E t \in Threads :
        \/ KeyCreate(t) \/ KeyDelete(t) \/ KeyGet(t) \/ KeySet(t) \/ CallSteps(t)
        \/ ThreadExits(t) \/ ExitSteps(t) \/ Restart(t)

Spec == Init /\ [][Next]_vars

-----------------------------------------------------------------------------
(* Properties.                                                              *)

\* Types; the loop over the table stays in it.
TypeOK ==
    LET Maybe(S) == S \union {None}
        Values == [key : Handles, execution : 1..MaxExecutions] IN
    /\ allocated \in [Slots -> BOOLEAN]
    /\ generation \in [Slots -> 0..GenerationMask]
    /\ destructor \in [Slots -> Maybe(Handles)]
    /\ handles \subseteq Handles /\ live \subseteq handles
    /\ creates \in 0..MaxCreates
    /\ pc \in [Threads -> {"user", "get", "got", "set", "look", "compare", "destroy", "ended"}]
    /\ stage \in [Threads -> {"entry", "destructor"}]
    /\ key \in [Threads -> Maybe(Handles)]
    /\ tls_values \in [Threads -> [Slots -> Maybe(Values)]]
    /\ tls_generations \in [Threads -> [Slots -> 0..GenerationMask]]
    /\ result \in [Threads -> Maybe(Values)]
    /\ pass \in [Threads -> 0..Iterations - 1]
    /\ index \in [Threads -> 0..KeyCount]
    /\ invoked \in [Threads -> BOOLEAN]
    /\ found \in [Threads -> Maybe(Handles)]
    /\ execution \in [Threads -> 1..MaxExecutions]

\* Keys that are not deleted work: whatever happens to other keys, also with old
\* handles of the same slot, key_get and key_set find the slot allocated for them.
LiveKeysWork == \A k \in live : IsCurrent(k)

\* key_get returns null or what this execution of the thread has set under this
\* very key, although slots are reused and restarted threads keep their block.
NoStaleValue ==
    \A t \in Threads : pc[t] = "got" /\ result[t] # None =>
        result[t].key = key[t] /\ result[t].execution = execution[t]

\* A destructor gets a value that was set under its own key, by this execution.
OwnDestructor ==
    \A t \in Threads : pc[t] = "destroy" =>
        result[t].key = found[t] /\ result[t].execution = execution[t]

\* Whatever is deleted, reused or restarted, no value is seen under a key or in
\* an execution of the thread other than its own, and no live key is disturbed.
OwnValues == TypeOK /\ LiveKeysWork /\ NoStaleValue /\ OwnDestructor

\* A thread has ended only when no value of a live key with a destructor is left,
\* unless destructors have set values again in all passes.
ValuesDestroyed ==
    \A t \in Threads, s \in Slots :
        pc[t] = "ended" /\ allocated[s] /\ destructor[s] # None
            /\ tls_values[t][s] # None /\ tls_generations[t][s] = generation[s]
        => pass[t] = Iterations - 1 /\ invoked[t]

=============================================================================
