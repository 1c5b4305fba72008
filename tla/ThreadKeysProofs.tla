-------------------------- MODULE ThreadKeysProofs --------------------------
(***************************************************************************)
(* What thread-specific data promises, for every number of threads and     *)
(* slots, every width of the generation counter and any number of keys:    *)
(* no value leaks from one key or execution into another, and a thread     *)
(* ends with no value left over.                                           *)
(***************************************************************************)
EXTENDS ThreadKeys, TLAPS

-----------------------------------------------------------------------------
(* The inductive invariant.                                                 *)

\* Slot and generation identify a key among those that anybody still holds,
\* generation 0 is nobody's, and a destructor belongs to a live key.
TableInv ==
    /\ \A h, k \in handles : h.index = k.index /\ h.generation = k.generation => h = k
    /\ \A k \in handles : k.generation # 0
    /\ \A s \in Slots : destructor[s] # None => destructor[s] \in live /\ destructor[s].index = s

\* A call has the key that it has checked.
CallAt(t) == IF pc[t] \in {"get", "got", "set"} THEN key[t] \in handles ELSE key[t] = None
CallInv == \A t \in Threads : CallAt(t)

\* A value carries the slot and the generation of the key under which this
\* execution has set it.
ValueAt(t) ==
    \A s \in Slots : tls_values[t][s] # None =>
        /\ tls_values[t][s].key \in handles
        /\ tls_values[t][s].key.index = s
        /\ tls_values[t][s].key.generation = tls_generations[t][s]
        /\ tls_values[t][s].execution = execution[t]
ValueInv == \A t \in Threads : ValueAt(t)

\* The loop stays in the table, also while a destructor of the application runs.
ExitAt(t) ==
    /\ pc[t] \in {"compare", "destroy"} \/ stage[t] = "destructor" => index[t] \in Slots
    /\ pc[t] \in {"look", "compare", "ended"} => stage[t] = "entry"
ExitInv == \A t \in Threads : ExitAt(t)

\* The key that was found is used after the mutex was put.  It may be gone, and
\* its slot allocated again, but not with the generation of the thread's value.
FoundAt(t) ==
    pc[t] = "compare" /\ found[t] # None =>
        /\ found[t].index = index[t]
        /\ tls_generations[t][index[t]] = found[t].generation => found[t] \in handles
FoundInv == \A t \in Threads : FoundAt(t)

IInv == /\ TypeOK /\ TableInv /\ CallInv /\ ValueInv /\ ExitInv /\ FoundInv
        /\ LiveKeysWork /\ NoStaleValue /\ OwnDestructor

\* A value for which the key has a destructor.
Left(t, s) ==
    /\ allocated[s] /\ destructor[s] # None
    /\ tls_values[t][s] # None /\ tls_generations[t][s] = generation[s]

\* Behind the loop, values are left only if a destructor has run in this pass;
\* and if there is a value at the slot looked at, its destructor was found.
PassAt(t) ==
    /\ pc[t] \in {"look", "compare", "destroy", "ended"} \/ stage[t] = "destructor" =>
          \A s \in 0..index[t] - 1 : Left(t, s) => invoked[t]
    /\ pc[t] = "destroy" \/ stage[t] = "destructor" => invoked[t]
    /\ \A s \in Slots : pc[t] = "compare" /\ s = index[t] /\ Left(t, s) =>
          found[t] = destructor[s]
    /\ pc[t] = "ended" => index[t] = KeyCount /\ (invoked[t] => pass[t] = Iterations - 1)
PassInv == \A t \in Threads : PassAt(t)

-----------------------------------------------------------------------------
(* Facts about single states.                                               *)

\* key_create never hands out generation 0.
LEMMA NextGenerationType ==
    ASSUME TypeOK, NEW s \in Slots
    PROVE  NextGeneration(s) \in 1..GenerationMask
  <1>1. generation[s] \in 0..GenerationMask /\ GenerationMask \in Nat \ {0}
    BY ConstantsAssumption DEF TypeOK
  <1>2. (generation[s] + 1) % (GenerationMask + 1) \in 0..GenerationMask
    BY <1>1
  <1> QED
    BY <1>1, <1>2 DEF NextGeneration

\* The fields of a key.
LEMMA HandleFields ==
    ASSUME NEW k \in Handles
    PROVE  k.index \in Slots /\ k.generation \in 0..GenerationMask
  BY DEF Handles

\* None is no key and no value: TypeOK says what a variable is otherwise.
LEMMA ValueOfKey ==
    ASSUME IInv, NEW t \in Threads, NEW k \in handles, tls_values[t][k.index] # None,
           tls_generations[t][k.index] = k.generation
    PROVE  /\ tls_values[t][k.index].key = k
           /\ tls_values[t][k.index].execution = execution[t]
  <1>1. k.index \in Slots
    BY HandleFields DEF IInv, TypeOK
  <1> QED
    BY <1>1 DEF IInv, ValueInv, ValueAt, TableInv

\* key_set and the destructors of a thread leave the other threads alone.
OthersStay(t) ==
    \A u \in Threads \ {t} :
        /\ pc'[u] = pc[u] /\ stage'[u] = stage[u] /\ key'[u] = key[u]
        /\ tls_values'[u] = tls_values[u] /\ tls_generations'[u] = tls_generations[u]
        /\ result'[u] = result[u] /\ execution'[u] = execution[u]
        /\ pass'[u] = pass[u] /\ index'[u] = index[u]
        /\ invoked'[u] = invoked[u] /\ found'[u] = found[u]

\* The steps of a thread that do not change the table.
ThreadStep(t) ==
    \/ KeyGet(t) \/ KeySet(t) \/ CallSteps(t) \/ ThreadExits(t) \/ ExitSteps(t) \/ Restart(t)

LEMMA ThreadStepFrame ==
    ASSUME TypeOK, NEW t \in Threads, ThreadStep(t)
    PROVE  OthersStay(t) /\ UNCHANGED tableVars
  <1> USE DEF OthersStay, TypeOK, Go, Return, valueVars, exitVars, callVars, tableVars
  <1>1. CASE KeyGet(t) \/ KeySet(t)
    BY <1>1 DEF KeyGet, KeySet
  <1>2. CASE KeyGetReads(t)
    BY <1>2 DEF KeyGetReads
  <1>3. CASE KeyGetReturns(t)
    BY <1>3 DEF KeyGetReturns
  <1>4. CASE KeySetWrites(t)
    BY <1>4 DEF KeySetWrites
  <1>5. CASE ThreadExits(t)
    BY <1>5 DEF ThreadExits
  <1>6. CASE Look(t)
    BY <1>6 DEF Look
  <1>7. CASE Destroy(t)
    BY <1>7 DEF Destroy
  <1>8. CASE DestructorRuns(t) \/ DestructorReturns(t)
    BY <1>8 DEF DestructorRuns, DestructorReturns
  <1>9. CASE Skip(t)
    BY <1>9 DEF Skip
  <1>10. CASE PassEnds(t)
    BY <1>10 DEF PassEnds
  <1>11. CASE Restart(t)
    BY <1>11 DEF Restart
  <1> QED
    BY <1>1, <1>2, <1>3, <1>4, <1>5, <1>6, <1>7, <1>8, <1>9, <1>10, <1>11
       DEF ThreadStep, CallSteps, ExitSteps

-----------------------------------------------------------------------------
(* The initial state.                                                       *)

LEMMA InitIInv == Init => IInv /\ PassInv
  <1> SUFFICES ASSUME Init PROVE IInv /\ PassInv
    OBVIOUS
  <1>1. TypeOK
    <2>1. generation \in [Slots -> 0..GenerationMask]
      <3>1. generation \in [Slots -> FirstGenerations]
        BY DEF Init
      <3>2. FirstGenerations \subseteq 0..GenerationMask
        BY ConstantsAssumption
      <3> QED
        BY <3>1, <3>2
    <2>2. /\ 0 \in 0..GenerationMask /\ 0 \in 0..Iterations - 1 /\ 0 \in 0..KeyCount
          /\ 0 \in 0..MaxCreates /\ 1 \in 1..MaxExecutions
      BY ConstantsAssumption
    <2> QED
      BY <2>1, <2>2 DEF Init, TypeOK
  <1>2. /\ TableInv /\ CallInv /\ ValueInv /\ ExitInv /\ FoundInv
        /\ LiveKeysWork /\ NoStaleValue /\ OwnDestructor
    BY DEF Init, TableInv, CallInv, CallAt, ValueInv, ValueAt, ExitInv, ExitAt, FoundInv,
           FoundAt, LiveKeysWork, NoStaleValue, OwnDestructor
  <1>3. PassInv
    BY DEF Init, PassInv, PassAt
  <1> QED
    BY <1>1, <1>2, <1>3 DEF IInv

-----------------------------------------------------------------------------
(* The table changes: key_create and key_delete.                            *)

\* The state of all threads.
threadVars == <<valueVars, exitVars, callVars, pc, stage, execution>>

\* key_create makes k of a slot that was free, with a generation that nobody
\* holds.
CreateEffect(k, d) ==
    LET s == k.index IN
    /\ k \in Handles /\ k.generation # 0 /\ d \in {k, None}
    /\ ~allocated[s]
    /\ \A t \in Threads :
          /\ tls_generations[t][s] # k.generation
          /\ key[t] # None => ~(key[t].index = s /\ key[t].generation = k.generation)
    /\ allocated' = [allocated EXCEPT ![s] = TRUE]
    /\ generation' = [generation EXCEPT ![s] = k.generation]
    /\ destructor' = [destructor EXCEPT ![s] = d]
    /\ handles' = {h \in handles : h.index # s \/ h.generation # k.generation} \union {k}
    /\ live' = live \union {k}
    /\ creates' \in 0..MaxCreates
    /\ UNCHANGED threadVars

LEMMA KeyCreateEffect ==
    ASSUME TypeOK, NEW t \in Threads, KeyCreate(t)
    PROVE  \E k, d : CreateEffect(k, d)
  <1>1. PICK s \in Slots, d \in BOOLEAN :
          LET g == NextGeneration(s)
              k == [index |-> s, generation |-> g, number |-> creates + 1] IN
          /\ ~allocated[s]
          /\ GenerationIsFresh(s)
          /\ allocated' = [allocated EXCEPT ![s] = TRUE]
          /\ generation' = [generation EXCEPT ![s] = g]
          /\ destructor' = [destructor EXCEPT ![s] = IF d THEN k ELSE None]
          /\ handles' = {h \in handles : h.index # s \/ h.generation # g} \union {k}
          /\ live' = live \union {k}
    BY DEF KeyCreate
  <1> DEFINE g == NextGeneration(s)
             k == [index |-> s, generation |-> g, number |-> creates + 1]
             x == IF d THEN k ELSE None
  <1>2. creates + 1 \in 1..MaxCreates /\ creates' = creates + 1
    BY ConstantsAssumption DEF KeyCreate, TypeOK
  <1>3. g \in 1..GenerationMask
    BY NextGenerationType
  <1>4. k \in Handles /\ k.generation # 0 /\ k.index = s /\ k.generation = g
    BY <1>2, <1>3, ConstantsAssumption DEF Handles
  <1>5. UNCHANGED threadVars
    BY DEF KeyCreate, threadVars
  <1>6. \A u \in Threads :
          /\ tls_generations[u][s] # g
          /\ key[u] # None => ~(key[u].index = s /\ key[u].generation = g)
    BY <1>1 DEF GenerationIsFresh
  <1>7. x \in {k, None}
    OBVIOUS
  <1>8. CreateEffect(k, x)
    BY <1>1, <1>2, <1>4, <1>5, <1>6, <1>7 DEF CreateEffect
  <1> QED
    BY <1>8

LEMMA KeyCreateStep ==
    ASSUME IInv, NEW t \in Threads, KeyCreate(t)
    PROVE  IInv'
  <1>1. PICK k, d : CreateEffect(k, d)
    BY KeyCreateEffect DEF IInv
  <1> DEFINE s == k.index
             g == k.generation
  <1>2. s \in Slots /\ g \in 0..GenerationMask /\ g # 0
    BY <1>1, HandleFields DEF CreateEffect
  <1>3. /\ handles' = {h \in handles : h.index # s \/ h.generation # g} \union {k}
        /\ live' = live \union {k} /\ live \subseteq handles /\ handles \subseteq Handles
    BY <1>1 DEF CreateEffect, IInv, TypeOK
  <1>4. \A r \in Slots : /\ allocated'[r] = (r = s \/ allocated[r])
                         /\ generation'[r] = IF r = s THEN g ELSE generation[r]
                         /\ destructor'[r] = IF r = s THEN d ELSE destructor[r]
    BY <1>1, <1>2 DEF CreateEffect, IInv, TypeOK
  <1>5. \A h \in live : h.index \in Slots /\ h.index # s
    BY <1>1, <1>3, HandleFields DEF CreateEffect, IInv, LiveKeysWork, IsCurrent
  <1>6. live' \subseteq handles'
    BY <1>3, <1>5
  <1>7. TypeOK'
    BY <1>1, <1>2, <1>3, <1>6
       DEF CreateEffect, IInv, TypeOK, threadVars, valueVars, exitVars, callVars
  <1>8. TableInv'
    <2>1. \A h \in handles' : h = k \/ (h \in handles /\ (h.index # s \/ h.generation # g))
      BY <1>3
    <2>2. \A r \in Slots : destructor'[r] # None =>
             destructor'[r] \in live' /\ destructor'[r].index = r
      BY <1>1, <1>3, <1>4 DEF CreateEffect, IInv, TableInv
    <2> QED
      BY <1>2, <2>1, <2>2 DEF IInv, TableInv
  <1>9. LiveKeysWork'
    BY <1>2, <1>3, <1>4, <1>5 DEF IInv, LiveKeysWork, IsCurrent
  <1>10. \A h \in handles : (h.index # s \/ h.generation # g) => h \in handles'
    BY <1>3
  <1>11. CallInv'
    BY <1>1, <1>10, NoneAssumption
       DEF CreateEffect, threadVars, callVars, IInv, TypeOK, CallInv, CallAt
  <1>12. ValueInv'
    <2>1. UNCHANGED <<tls_values, tls_generations, execution>>
      BY <1>1 DEF CreateEffect, threadVars, valueVars
    <2>2. ASSUME NEW u \in Threads, NEW r \in Slots, tls_values[u][r] # None
          PROVE  tls_values[u][r].key \in handles'
      <3>1. tls_values[u][r].key \in handles /\ tls_values[u][r].key.index = r
            /\ tls_values[u][r].key.generation = tls_generations[u][r]
        BY <2>2 DEF IInv, ValueInv, ValueAt
      <3>2. tls_generations[u][s] # g
        BY <1>1 DEF CreateEffect
      <3> QED
        BY <1>10, <3>1, <3>2
    <2> QED
      BY <2>1, <2>2 DEF IInv, ValueInv, ValueAt
  <1>13. FoundInv'
    BY <1>1, <1>10
       DEF CreateEffect, threadVars, valueVars, exitVars, IInv, FoundInv, FoundAt
  <1>14. ExitInv' /\ NoStaleValue' /\ OwnDestructor'
    BY <1>1
       DEF CreateEffect, threadVars, exitVars, callVars, IInv, ExitInv, ExitAt,
           NoStaleValue, OwnDestructor
  <1> QED
    BY <1>7, <1>8, <1>9, <1>11, <1>12, <1>13, <1>14 DEF IInv

\* key_delete takes back the key that it was given and no other.
LEMMA KeyDeleteStep ==
    ASSUME IInv, NEW t \in Threads, KeyDelete(t)
    PROVE  IInv'
  <1>1. PICK k \in handles :
          /\ IsCurrent(k)
          /\ allocated' = [allocated EXCEPT ![k.index] = FALSE]
          /\ destructor' = [destructor EXCEPT ![k.index] = None]
          /\ live' = live \ {k}
    BY DEF KeyDelete
  <1>2. UNCHANGED <<generation, handles, creates>> /\ UNCHANGED threadVars
    BY DEF KeyDelete, threadVars
  <1>3. k.index \in Slots /\ live' \subseteq live
    BY <1>1, HandleFields DEF IInv, TypeOK
  <1>4. TypeOK'
    BY <1>1, <1>2, <1>3 DEF IInv, TypeOK, threadVars, valueVars, exitVars, callVars
  <1>5. \A h \in live' : h.index # k.index
    BY <1>1 DEF IInv, TypeOK, LiveKeysWork, IsCurrent, TableInv
  <1>6. TableInv'
    BY <1>1, <1>2, <1>3 DEF IInv, TypeOK, TableInv
  <1>7. LiveKeysWork'
    BY <1>1, <1>2, <1>3, <1>5, HandleFields DEF IInv, TypeOK, LiveKeysWork, IsCurrent
  <1>8. /\ CallInv' /\ ValueInv' /\ ExitInv' /\ FoundInv'
        /\ NoStaleValue' /\ OwnDestructor'
    BY <1>2
       DEF threadVars, valueVars, exitVars, callVars, IInv, CallInv, CallAt, ValueInv,
           ValueAt, ExitInv, ExitAt, FoundInv, FoundAt, NoStaleValue, OwnDestructor
  <1> QED
    BY <1>4, <1>6, <1>7, <1>8 DEF IInv

-----------------------------------------------------------------------------
(* The steps of one thread.                                                 *)

LEMMA ThreadTypes ==
    ASSUME IInv, NEW t \in Threads, ThreadStep(t)
    PROVE  TypeOK'
  <1> USE DEF IInv, TypeOK, tableVars, valueVars, exitVars, callVars, Go, Return
  <1>1. CASE KeyGet(t) \/ KeySet(t)
    BY ZenonT(30), <1>1 DEF KeyGet, KeySet
  <1>2. CASE KeyGetReads(t)
    <2>1. key[t] \in Handles /\ key[t].index \in Slots
      BY <1>2, HandleFields DEF KeyGetReads, CallInv, CallAt
    <2> QED
      BY <1>2, <2>1 DEF KeyGetReads
  <1>3. CASE KeyGetReturns(t)
    BY <1>3 DEF KeyGetReturns
  <1>4. CASE KeySetWrites(t)
    <2>1. /\ key[t] \in Handles /\ key[t].index \in Slots
          /\ key[t].generation \in 0..GenerationMask
      BY <1>4, HandleFields DEF KeySetWrites, CallInv, CallAt
    <2>2. [key |-> key[t], execution |-> execution[t]]
             \in [key : Handles, execution : 1..MaxExecutions]
      BY <2>1
    <2>3. tls_values' \in [Threads -> [Slots ->
             [key : Handles, execution : 1..MaxExecutions] \union {None}]]
      BY <1>4, <2>1, <2>2 DEF KeySetWrites
    <2> QED
      BY <1>4, <2>1, <2>3 DEF KeySetWrites
  <1>5. CASE ThreadExits(t)
    <2>1. 0 \in 0..Iterations - 1 /\ 0 \in 0..KeyCount
      BY ConstantsAssumption
    <2> QED
      BY <1>5, <2>1 DEF ThreadExits
  <1>6. CASE Look(t)
    <2>1. index[t] \in Slots
      BY <1>6, ConstantsAssumption DEF Look, Slots
    <2> QED
      BY <1>6, <2>1 DEF Look
  <1>7. CASE Destroy(t)
    <2>1. index[t] \in Slots
      BY <1>7 DEF Destroy, ExitInv, ExitAt
    <2> QED
      BY <1>7, <2>1 DEF Destroy
  <1>8. CASE DestructorRuns(t)
    BY <1>8 DEF DestructorRuns
  <1>9. CASE DestructorReturns(t) \/ Skip(t)
    <2>1. index[t] \in Slots
      BY <1>9 DEF DestructorReturns, Skip, ExitInv, ExitAt
    <2>2. index[t] + 1 \in 0..KeyCount
      BY <2>1, ConstantsAssumption DEF Slots
    <2>3. index' = [index EXCEPT ![t] = index[t] + 1]
      BY <1>9 DEF DestructorReturns, Skip
    <2>4. index' \in [Threads -> 0..KeyCount]
      BY <2>2, <2>3
    <2>5. found' \in [Threads -> Handles \union {None}]
      BY <1>9 DEF DestructorReturns, Skip
    <2> QED
      BY <1>9, <2>4, <2>5 DEF DestructorReturns, Skip
  <1>10. CASE PassEnds(t)
    <2>1. 0 \in 0..KeyCount /\ Iterations \in Nat
      BY ConstantsAssumption
    <2>2. pass[t] + 1 < Iterations => pass[t] + 1 \in 0..Iterations - 1
      BY <2>1
    <2> QED
      BY <1>10, <2>1, <2>2 DEF PassEnds
  <1>11. CASE Restart(t)
    <2>1. execution[t] + 1 \in 1..MaxExecutions /\ 0 \in 0..GenerationMask
      BY <1>11, ConstantsAssumption DEF Restart
    <2> QED
      BY <1>11, <2>1 DEF Restart
  <1> QED
    BY <1>1, <1>2, <1>3, <1>4, <1>5, <1>6, <1>7, <1>8, <1>9, <1>10, <1>11
       DEF ThreadStep, CallSteps, ExitSteps

\* What NoStaleValue and OwnDestructor say about one thread.
GotAt(t) == pc[t] = "got" /\ result[t] # None =>
                result[t].key = key[t] /\ result[t].execution = execution[t]
DestroyAt(t) == pc[t] = "destroy" =>
                    result[t].key = found[t] /\ result[t].execution = execution[t]
ThreadAt(t) == CallAt(t) /\ ValueAt(t) /\ ExitAt(t) /\ FoundAt(t) /\ GotAt(t) /\ DestroyAt(t)

LEMMA ThreadAtStep ==
    ASSUME IInv, NEW t \in Threads, ThreadStep(t)
    PROVE  ThreadAt(t)'
  <1>1. ThreadAt(t)
    BY DEF ThreadAt, IInv, CallInv, ValueInv, ExitInv, FoundInv, NoStaleValue, OwnDestructor,
           GotAt, DestroyAt
  <1>2. UNCHANGED <<handles, allocated, destructor, generation, live>>
    BY ThreadStepFrame DEF IInv, tableVars
  <1>3. TypeOK
    BY DEF IInv
  <1> USE <1>1, <1>2, <1>3
      DEF TypeOK, ThreadAt, CallAt, ValueAt, ExitAt, FoundAt, GotAt, DestroyAt, valueVars,
          exitVars, callVars, Go, Return
  <1>4. CASE KeyGet(t) \/ KeySet(t)
    BY <1>4 DEF KeyGet, KeySet
  <1>5. CASE KeyGetReads(t)
    <2>1. key[t] \in handles
      BY <1>5 DEF KeyGetReads
    <2>2. GotAt(t)'
      BY <1>5, <2>1, ValueOfKey DEF KeyGetReads
    <2>3. CallAt(t)' /\ ValueAt(t)' /\ ExitAt(t)' /\ FoundAt(t)' /\ DestroyAt(t)'
      BY <1>5 DEF KeyGetReads
    <2> QED
      BY <2>2, <2>3
  <1>6. CASE KeyGetReturns(t)
    BY <1>6 DEF KeyGetReturns
  <1>7. CASE KeySetWrites(t)
    <2>1. key[t] \in handles /\ key[t].index \in Slots
      BY <1>7, HandleFields DEF KeySetWrites
    <2>2. ValueAt(t)'
      BY <1>7, <2>1 DEF KeySetWrites
    <2>3. CallAt(t)' /\ ExitAt(t)' /\ FoundAt(t)' /\ GotAt(t)' /\ DestroyAt(t)'
      BY <1>7 DEF KeySetWrites
    <2> QED
      BY <2>2, <2>3
  <1>8. CASE ThreadExits(t)
    BY <1>8 DEF ThreadExits
  <1>9. CASE Look(t)
    <2>1. index[t] \in Slots
      BY <1>9, ConstantsAssumption DEF Look, Slots
    <2>2. found'[t] # None => found'[t] \in handles /\ found'[t].index = index[t]
      BY <1>9, <2>1 DEF Look, IInv, TableInv
    <2>3. FoundAt(t)'
      BY <1>9, <2>2 DEF Look
    <2>4. CallAt(t)' /\ ValueAt(t)' /\ ExitAt(t)' /\ GotAt(t)' /\ DestroyAt(t)'
      BY <1>9, <2>1 DEF Look
    <2> QED
      BY <2>3, <2>4
  <1>10. CASE Destroy(t)
    <2>1. /\ index[t] \in Slots /\ found[t] \in handles /\ found[t].index = index[t]
          /\ tls_values[t][index[t]] # None
          /\ tls_generations[t][index[t]] = found[t].generation
      BY <1>10 DEF Destroy, Matches
    <2>2. /\ tls_values[t][index[t]].key = found[t]
          /\ tls_values[t][index[t]].execution = execution[t]
      <3>1. /\ tls_values[t][found[t].index] # None
            /\ tls_generations[t][found[t].index] = found[t].generation
        BY <2>1
      <3>2. /\ tls_values[t][found[t].index].key = found[t]
            /\ tls_values[t][found[t].index].execution = execution[t]
        BY ZenonT(30), <2>1, <3>1, ValueOfKey
      <3> QED
        BY <2>1, <3>2
    <2>3. DestroyAt(t)'
      BY <1>10, <2>2 DEF Destroy
    <2>4. ValueAt(t)'
      BY <1>10, <2>1 DEF Destroy
    <2>5. CallAt(t)' /\ ExitAt(t)' /\ FoundAt(t)' /\ GotAt(t)'
      BY <1>10, <2>1 DEF Destroy
    <2> QED
      BY <2>3, <2>4, <2>5
  <1>11. CASE DestructorRuns(t)
    BY <1>11 DEF DestructorRuns
  <1>12. CASE DestructorReturns(t)
    BY <1>12 DEF DestructorReturns
  <1>13. CASE Skip(t)
    BY <1>13 DEF Skip
  <1>14. CASE PassEnds(t)
    BY <1>14 DEF PassEnds
  <1>15. CASE Restart(t)
    BY <1>15 DEF Restart
  <1> QED
    BY <1>4, <1>5, <1>6, <1>7, <1>8, <1>9, <1>10, <1>11, <1>12, <1>13, <1>14, <1>15
       DEF ThreadStep, CallSteps, ExitSteps

LEMMA ThreadStepKeeps ==
    ASSUME IInv, NEW t \in Threads, ThreadStep(t)
    PROVE  IInv'
  <1>1. OthersStay(t) /\ UNCHANGED tableVars
    BY ThreadStepFrame DEF IInv
  <1>2. TypeOK'
    BY ThreadTypes
  <1>3. TableInv' /\ LiveKeysWork'
    BY <1>1 DEF tableVars, IInv, TableInv, LiveKeysWork, IsCurrent
  <1>4. ASSUME NEW u \in Threads
        PROVE  ThreadAt(u)'
    <2>1. CASE u = t
      BY <2>1, ThreadAtStep
    <2>2. CASE u # t
      <3>1. ThreadAt(u)
        BY DEF ThreadAt, IInv, CallInv, ValueInv, ExitInv, FoundInv, NoStaleValue,
               OwnDestructor, GotAt, DestroyAt
      <3> QED
        BY <1>1, <2>2, <3>1
           DEF OthersStay, tableVars, ThreadAt, CallAt, ValueAt, ExitAt, FoundAt, GotAt,
               DestroyAt
    <2> QED
      BY <2>1, <2>2
  <1>5. CallInv' /\ ValueInv' /\ ExitInv' /\ FoundInv' /\ NoStaleValue' /\ OwnDestructor'
    BY <1>4 DEF ThreadAt, CallInv, ValueInv, ExitInv, FoundInv, NoStaleValue, OwnDestructor,
                GotAt, DestroyAt
  <1> QED
    BY <1>2, <1>3, <1>5 DEF IInv

LEMMA IInvStep == IInv /\ [Next]_vars => IInv'
  <1> SUFFICES ASSUME IInv, [Next]_vars PROVE IInv'
    OBVIOUS
  <1>1. ASSUME NEW t \in Threads, ThreadStep(t)
        PROVE  IInv'
    BY <1>1, ThreadStepKeeps
  <1>2. ASSUME NEW t \in Threads, KeyCreate(t) \/ KeyDelete(t)
        PROVE  IInv'
    BY <1>2, KeyCreateStep, KeyDeleteStep
  <1>3. CASE UNCHANGED vars
    BY <1>3
       DEF vars, tableVars, valueVars, exitVars, callVars, IInv, TypeOK, TableInv, CallInv,
           CallAt, ValueInv, ValueAt, ExitInv, ExitAt, FoundInv, FoundAt, LiveKeysWork,
           IsCurrent, NoStaleValue, OwnDestructor
  <1> QED
    BY <1>1, <1>2, <1>3 DEF Next, ThreadStep

-----------------------------------------------------------------------------
(* No value is left over.                                                   *)

\* Neither a new key nor a deleted one makes a value that was nobody's into one
\* that should have been destroyed.
LEMMA PassTableStep ==
    ASSUME IInv, PassInv, NEW t \in Threads, KeyCreate(t) \/ KeyDelete(t)
    PROVE  PassInv'
  <1>1. UNCHANGED threadVars
    BY DEF KeyCreate, KeyDelete, threadVars
  <1>2. ASSUME NEW u \in Threads, NEW r \in Slots, Left(u, r)'
        PROVE  Left(u, r) /\ destructor'[r] = destructor[r]
    <2>1. CASE KeyCreate(t)
      <3>1. PICK k, d : CreateEffect(k, d)
        BY <2>1, KeyCreateEffect DEF IInv
      <3>2. k.index \in Slots
        BY <3>1, HandleFields DEF CreateEffect
      <3>3. r # k.index
        BY <1>2, <3>1, <3>2
           DEF Left, CreateEffect, threadVars, valueVars, IInv, TypeOK
      <3> QED
        BY <1>2, <3>1, <3>3
           DEF Left, CreateEffect, threadVars, valueVars, IInv, TypeOK
    <2>2. CASE KeyDelete(t)
      <3>1. PICK k \in handles :
              /\ allocated' = [allocated EXCEPT ![k.index] = FALSE]
              /\ destructor' = [destructor EXCEPT ![k.index] = None]
              /\ UNCHANGED <<generation, tls_values, tls_generations>>
        BY <2>2 DEF KeyDelete, valueVars
      <3>2. r # k.index
        BY <1>2, <3>1 DEF Left, IInv, TypeOK
      <3> QED
        BY <1>2, <3>1, <3>2 DEF Left, IInv, TypeOK
    <2> QED
      BY <2>1, <2>2
  <1>3. ASSUME NEW u \in Threads
        PROVE  PassAt(u)'
    <2>1. 0..index[u] - 1 \subseteq Slots
      BY SMTT(30), ConstantsAssumption DEF IInv, TypeOK, Slots
    <2>2. pc[u] = "compare" => index[u] \in Slots
      BY DEF IInv, ExitInv, ExitAt
    <2>3. PassAt(u)
      BY DEF PassInv
    <2>4. /\ pc'[u] = pc[u] /\ stage'[u] = stage[u] /\ index'[u] = index[u]
          /\ invoked'[u] = invoked[u] /\ found'[u] = found[u] /\ pass'[u] = pass[u]
      BY <1>1 DEF threadVars, exitVars
    <2>5. \A r \in 0..index[u] - 1 : Left(u, r)' => Left(u, r)
      BY <1>2, <2>1
    <2> QED
      BY <1>2, <2>2, <2>3, <2>4, <2>5 DEF PassAt
  <1> QED
    BY <1>3 DEF PassInv

\* The loop over the table, and the application's destructors in it.
LEMMA PassThreadStep ==
    ASSUME IInv, PassInv, NEW t \in Threads, ThreadStep(t)
    PROVE  PassAt(t)'
  <1>1. UNCHANGED <<allocated, generation, destructor>> /\ TypeOK /\ PassAt(t)
    BY ThreadStepFrame DEF IInv, PassInv, tableVars
  <1>2. 0..index[t] - 1 \subseteq Slots
    BY ConstantsAssumption DEF IInv, TypeOK, Slots
  <1>3. ExitAt(t)
    BY DEF IInv, ExitInv
  <1> USE DEF PassAt, TypeOK, valueVars, exitVars, callVars, Go, Return
  <1>4. CASE KeyGet(t) \/ KeySet(t)
    BY <1>1, <1>4 DEF KeyGet, KeySet, Left
  <1>5. CASE KeyGetReads(t) \/ KeyGetReturns(t)
    BY <1>1, <1>5 DEF KeyGetReads, KeyGetReturns, Left
  <1>6. CASE KeySetWrites(t)
    BY <1>1, <1>6 DEF KeySetWrites
  <1>7. CASE ThreadExits(t)
    BY <1>1, <1>7 DEF ThreadExits
  <1>8. CASE Look(t)
    BY <1>1, <1>8 DEF Look, Left
  <1>9. CASE Destroy(t)
    BY <1>1, <1>9 DEF Destroy
  <1>10. CASE DestructorRuns(t)
    BY <1>1, <1>10 DEF DestructorRuns
  <1>11. CASE DestructorReturns(t)
    BY <1>1, <1>11 DEF DestructorReturns
  <1>12. CASE Skip(t)
    <2>1. index[t] \in Slots /\ stage[t] = "entry" /\ pc[t] = "compare" /\ ~Matches(t)
      BY <1>3, <1>12 DEF Skip, ExitAt
    <2>2. ~Left(t, index[t])
      <3>1. SUFFICES ASSUME Left(t, index[t]) PROVE Matches(t)
        BY <2>1
      <3>2. found[t] = destructor[index[t]] /\ destructor[index[t]] # None
        BY <1>1, <2>1, <3>1 DEF Left
      <3>3. destructor[index[t]] \in live /\ destructor[index[t]].index = index[t]
        BY <2>1, <3>2 DEF IInv, TableInv
      <3>4. generation[index[t]] = found[t].generation
        BY <3>2, <3>3 DEF IInv, LiveKeysWork, IsCurrent
      <3> QED
        BY <3>1, <3>2, <3>4 DEF Matches, Left
    <2>3. index'[t] = index[t] + 1 /\ invoked'[t] = invoked[t] /\ pc'[t] = "look"
      BY <1>1, <1>12 DEF Skip
    <2>4. \A s \in 0..index'[t] - 1 : s \in 0..index[t] - 1 \/ s = index[t]
      <3>1. index[t] \in Nat
        BY <2>1, ConstantsAssumption DEF Slots
      <3> QED
        BY <2>3, <3>1
    <2>5. \A s \in 0..index[t] - 1 : Left(t, s) => invoked[t]
      BY <1>1, <2>1
    <2>6. \A s \in Slots : Left(t, s)' => Left(t, s)
      BY <1>1, <1>12 DEF Skip, Left
    <2>7. index[t] \in Slots /\ 0..index[t] - 1 \subseteq Slots
      BY <1>2, <2>1
    <2>8. \A s \in 0..index'[t] - 1 : Left(t, s)' => invoked'[t]
      BY <2>2, <2>3, <2>4, <2>5, <2>6, <2>7
    <2>9. stage'[t] = "entry"
      BY <1>12, <2>1 DEF Skip
    <2> QED
      BY <2>3, <2>8, <2>9
  <1>13. CASE PassEnds(t)
    <2>1. CASE invoked[t] /\ pass[t] + 1 < Iterations
      BY <1>1, <1>3, <1>13, <2>1 DEF PassEnds, ExitAt
    <2>2. CASE ~(invoked[t] /\ pass[t] + 1 < Iterations)
      <3>1. invoked[t] => pass[t] = Iterations - 1
        BY <1>1, <2>2, ConstantsAssumption
      <3> QED
        BY <1>1, <1>13, <2>2, <3>1 DEF PassEnds, Left
    <2> QED
      BY <2>1, <2>2
  <1>14. CASE Restart(t)
    BY <1>1, <1>3, <1>14 DEF Restart, ExitAt
  <1> QED
    BY <1>4, <1>5, <1>6, <1>7, <1>8, <1>9, <1>10, <1>11, <1>12, <1>13, <1>14
       DEF ThreadStep, CallSteps, ExitSteps

LEMMA PassStep == IInv /\ PassInv /\ [Next]_vars => PassInv'
  <1> SUFFICES ASSUME IInv, PassInv, [Next]_vars PROVE PassInv'
    OBVIOUS
  <1>1. ASSUME NEW t \in Threads, ThreadStep(t), NEW u \in Threads
        PROVE  PassAt(u)'
    <2>1. CASE u = t
      BY <1>1, <2>1, PassThreadStep
    <2>2. CASE u # t
      BY <1>1, <2>2, ThreadStepFrame
         DEF IInv, PassInv, PassAt, Left, OthersStay, tableVars
    <2> QED
      BY <2>1, <2>2
  <1>2. ASSUME NEW t \in Threads, KeyCreate(t) \/ KeyDelete(t)
        PROVE  PassInv'
    BY <1>2, PassTableStep
  <1>3. CASE UNCHANGED vars
    BY <1>3 DEF vars, tableVars, valueVars, exitVars, callVars, PassInv, PassAt, Left
  <1> QED
    BY <1>1, <1>2, <1>3 DEF Next, ThreadStep, PassInv

-----------------------------------------------------------------------------
(* The theorems.                                                            *)

LEMMA Invariance == Spec => [](IInv /\ PassInv)
  <1>1. Init => IInv /\ PassInv
    BY InitIInv
  <1>2. IInv /\ PassInv /\ [Next]_vars => IInv' /\ PassInv'
    BY IInvStep, PassStep
  <1> QED
    BY <1>1, <1>2, PTL DEF Spec

\* However keys are created, deleted and used after that, and however often the
\* threads end and are started again: key_get and the destructors see only values
\* that this execution set under this very key, and keys that are not deleted work
\* (key_get, key_set, key_delete and run_thread_specific_destructors).
THEOREM OwnValuesHold == Spec => []OwnValues
  <1>1. IInv => OwnValues
    BY DEF IInv, OwnValues
  <1> QED
    BY <1>1, Invariance, PTL

\* When a thread has ended, a value of a live key with a destructor is left only
\* if destructors have set values again in every one of the passes
\* (run_thread_specific_destructors).
THEOREM ValuesDestroyedHolds == Spec => []ValuesDestroyed
  <1>1. IInv /\ PassInv => ValuesDestroyed
    <2> SUFFICES ASSUME IInv, PassInv, NEW t \in Threads, NEW s \in Slots,
                        pc[t] = "ended", Left(t, s)
                 PROVE  pass[t] = Iterations - 1 /\ invoked[t]
      BY DEF ValuesDestroyed, Left
    <2>1. PassAt(t) /\ index[t] = KeyCount
      BY DEF PassInv, PassAt
    <2>2. s \in 0..index[t] - 1
      BY <2>1 DEF Slots
    <2> QED
      BY <2>1, <2>2 DEF PassAt
  <1> QED
    BY <1>1, Invariance, PTL

=============================================================================
