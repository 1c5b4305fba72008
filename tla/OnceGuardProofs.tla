-------------------------- MODULE OnceGuardProofs --------------------------
(***************************************************************************)
(* What once and the static-initialisation guards promise, for every set   *)
(* of threads and objects, every nesting of initialisers and any number of *)
(* exceptions: the safety property of the runs, and that the guards        *)
(* implement OnceContract.                                                 *)
(***************************************************************************)
EXTENDS OnceGuard, SequenceTheorems, TLAPS

Calling == {"lock", "locked", "sleep", "passed"}
Storing == {"finish_lock", "finish_locked", "throw_lock", "throw_locked"}

-----------------------------------------------------------------------------
(* The inductive invariant.                                                 *)

\* A caller has an object for its goal that is larger than all those it is
\* initialising, which are in increasing order: none is twice in the list.
NestingInv ==
    \A t \in Threads :
        /\ pc[t] \in Calling =>
              goal[t] \in Objects /\ \A i \in 1..Len(nesting[t]) : nesting[t][i] < goal[t]
        /\ \A i, j \in 1..Len(nesting[t]) : i < j => nesting[t][i] < nesting[t][j]
        /\ pc[t] \in Storing => Initializing(t)

\* Who has a mutex is in a section of an object of that mutex, and will put it;
\* before the kernel runs nobody has one.
InSection(t, k) ==
    \/ pc[t] = "locked" /\ k = MutexOf(goal[t])
    \/ pc[t] \in {"finish_locked", "throw_locked"} /\ k = MutexOf(Innermost(t))
MutexInv == \A k \in DOMAIN mutex : mutex[k] # None => active /\ InSection(mutex[k], k)

\* What is marked as done, or about to be, has been constructed.
DoneInv ==
    /\ \A o \in Objects : state[o] = "done" => o \in constructed
    /\ \A t \in Threads : pc[t] \in {"finish_lock", "finish_locked"} => Innermost(t) \in constructed

IInv == /\ TypeOK /\ NestingInv /\ MutexInv
        /\ DoneInv /\ OneInitializer /\ PassedIsConstructed

-----------------------------------------------------------------------------
(* The list of initialisers as a data type.                                 *)

\* Entering an initialiser appends its object.
LEMMA Appended ==
    ASSUME NEW s \in Seq(Objects), NEW o \in Objects
    PROVE  /\ Append(s, o) \in Seq(Objects)
           /\ Len(Append(s, o)) = Len(s) + 1
           /\ Append(s, o)[Len(s) + 1] = o
           /\ \A i \in 1..Len(s) : Append(s, o)[i] = s[i]
  BY AppendProperties

\* Leaving one takes the last object away.
LEMMA Shortened ==
    ASSUME NEW s \in Seq(Objects), s # <<>>
    PROVE  /\ SubSeq(s, 1, Len(s) - 1) \in Seq(Objects)
           /\ Len(s) \in Nat \ {0}
           /\ Len(SubSeq(s, 1, Len(s) - 1)) = Len(s) - 1
           /\ \A i \in 1..Len(s) - 1 : SubSeq(s, 1, Len(s) - 1)[i] = s[i]
           /\ s[Len(s)] \in Objects
  <1>1. Len(s) \in Nat \ {0}
    BY EmptySeq
  <1>2. \A i \in 1..Len(s) : s[i] \in Objects
    BY ElementOfSeq
  <1>3. \A i \in 1..Len(s) - 1 : s[i] \in Objects
    BY <1>1, <1>2
  <1>4. Len(s) - 1 \in Int /\ 1 \in Int
    BY <1>1
  <1> DEFINE r == SubSeq(s, 1, Len(s) - 1)
             n == Len(s)
  <1>5. /\ r \in Seq(Objects)
        /\ Len(r) = IF 1 <= n - 1 THEN (n - 1) - 1 + 1 ELSE 0
        /\ \A i \in 1..(n - 1) - 1 + 1 : r[i] = s[1 + i - 1]
    BY <1>3, <1>4, SubSeqProperties
  <1> HIDE DEF r, n
  <1>6. Len(r) = n - 1 /\ \A i \in 1..n - 1 : r[i] = s[i]
    <2>1. n \in Nat \ {0}
      BY <1>1 DEF n
    <2>2. (n - 1) - 1 + 1 = n - 1 /\ \A i \in 1..n - 1 : 1 + i - 1 = i
      BY <2>1
    <2> QED
      BY <2>1, <2>2, <1>5
  <1> QED
    BY <1>1, <1>2, <1>5, <1>6 DEF r, n

\* Before and after an initialiser is entered.
LEMMA Entered ==
    ASSUME IInv, NEW t \in Threads, CallStarts(t)
    PROVE  /\ goal[t] \in Objects /\ ~\E u \in Threads : IsInitializing(u, goal[t])
           /\ \A u \in Threads, o \in Objects :
                IsInitializing(u, o)' <=> IsInitializing(u, o) \/ (u = t /\ o = goal[t])
  <1>1. goal[t] \in Objects /\ state[goal[t]] = "idle"
    BY DEF IInv, NestingInv, Calling, CallStarts
  <1>2. ~\E u \in Threads : IsInitializing(u, goal[t])
    BY <1>1 DEF IInv, OneInitializer
  <1>3. ASSUME NEW u \in Threads, NEW o \in Objects, u # t
        PROVE  IsInitializing(u, o)' <=> IsInitializing(u, o)
    BY <1>3 DEF CallStarts, IsInitializing, IInv, TypeOK
  <1>4. ASSUME NEW o \in Objects
        PROVE  IsInitializing(t, o)' <=> IsInitializing(t, o) \/ o = goal[t]
    <2>1. nesting[t] \in Seq(Objects) /\ nesting'[t] = Append(nesting[t], goal[t])
      BY DEF CallStarts, IInv, TypeOK
    <2>2. Len(nesting[t]) \in Nat
      BY <2>1, LenProperties
    <2>3. /\ Len(nesting'[t]) = Len(nesting[t]) + 1
          /\ nesting'[t][Len(nesting[t]) + 1] = goal[t]
          /\ \A i \in 1..Len(nesting[t]) : nesting'[t][i] = nesting[t][i]
      BY <1>1, <2>1, Appended
    <2> QED
      BY <2>2, <2>3 DEF IsInitializing
  <1> QED
    BY <1>1, <1>2, <1>3, <1>4

\* Before and after one is left, with or without an exception.
LEMMA Departed ==
    ASSUME IInv, NEW t \in Threads, pc[t] \in Storing, Leave(t)
    PROVE  /\ Innermost(t) \in Objects /\ IsInitializing(t, Innermost(t))
           /\ \A u \in Threads, o \in Objects :
                IsInitializing(u, o)' <=> IsInitializing(u, o) /\ ~(u = t /\ o = Innermost(t))
  <1> DEFINE n == Len(nesting[t])
  <1>1. /\ nesting[t] \in Seq(Objects) /\ nesting[t] # <<>>
        /\ nesting'[t] = SubSeq(nesting[t], 1, n - 1)
    BY DEF IInv, TypeOK, NestingInv, Initializing, Leave
  <1>2. /\ n \in Nat \ {0} /\ Len(nesting'[t]) = n - 1
        /\ \A i \in 1..n - 1 : nesting'[t][i] = nesting[t][i]
        /\ Innermost(t) \in Objects
    BY <1>1, Shortened DEF Innermost
  <1>3. IsInitializing(t, Innermost(t))
    BY <1>2 DEF IsInitializing, Innermost
  <1>4. \A i \in 1..n - 1 : nesting[t][i] # Innermost(t)
    <2>1. \A i \in 1..n - 1 : nesting[t][i] < nesting[t][n]
      BY <1>2 DEF IInv, NestingInv
    <2>2. Innermost(t) \in Nat
      BY <1>2, ConstantsAssumption
    <2> QED
      BY <2>1, <2>2 DEF Innermost
  <1>5. ASSUME NEW o \in Objects
        PROVE  IsInitializing(t, o)' <=> IsInitializing(t, o) /\ o # Innermost(t)
    <2>1. IsInitializing(t, o)' <=> \E i \in 1..n - 1 : nesting[t][i] = o
      BY <1>2 DEF IsInitializing
    <2>2. \A i \in 1..n : i \in 1..n - 1 \/ i = n
      BY <1>2
    <2> QED
      BY <1>2, <1>4, <2>1, <2>2 DEF IsInitializing, Innermost
  <1>6. ASSUME NEW u \in Threads, NEW o \in Objects, u # t
        PROVE  IsInitializing(u, o)' <=> IsInitializing(u, o)
    BY <1>6 DEF Leave, IsInitializing, IInv, TypeOK
  <1> QED
    BY <1>2, <1>3, <1>5, <1>6

-----------------------------------------------------------------------------
(* The initial state and the steps.                                         *)

LEMMA InitIInv == Init => IInv
  <1> SUFFICES ASSUME Init PROVE IInv
    OBVIOUS
  <1>1. \A t \in Threads : nesting[t] = <<>> /\ Len(nesting[t]) = 0 /\ pc[t] = "user"
    BY EmptySeq DEF Init
  <1>2. TypeOK
    <2>1. nesting \in [Threads -> Seq(Objects)]
      BY EmptySeq DEF Init
    <2>2. todo \in [Threads -> SUBSET Objects] /\ throws \in 0..MaxThrows
      BY ConstantsAssumption DEF Init
    <2> QED
      BY <2>1, <2>2 DEF Init, TypeOK, PCs
  <1>3. NestingInv /\ PassedIsConstructed
    BY <1>1 DEF NestingInv, PassedIsConstructed, Calling, Storing
  <1>4. MutexInv /\ DoneInv
    BY <1>1 DEF Init, MutexInv, DoneInv
  <1>5. OneInitializer
    BY <1>1 DEF Init, OneInitializer, IsInitializing
  <1> QED
    BY <1>2, <1>3, <1>4, <1>5 DEF IInv

\* What all steps of t leave alone in the other threads.
OthersStay(t) ==
    \A u \in Threads \ {t} : pc'[u] = pc[u] /\ goal'[u] = goal[u] /\ nesting'[u] = nesting[u]

\* A step of t that takes or puts no mutex finds it without one.
LEMMA MutexKept ==
    ASSUME IInv, NEW t \in Threads, OthersStay(t), UNCHANGED <<active, mutex>>,
           pc[t] \notin {"locked", "finish_locked", "throw_locked"}
    PROVE  MutexInv'
  <1>1. ASSUME NEW k \in DOMAIN mutex, mutex[k] # None
        PROVE  active /\ InSection(mutex[k], k) /\ mutex[k] \in Threads \ {t}
    BY <1>1 DEF IInv, TypeOK, MutexInv
  <1>2. ASSUME NEW u \in Threads \ {t}, NEW k, InSection(u, k)
        PROVE  InSection(u, k)'
    BY <1>2 DEF InSection, OthersStay, Innermost
  <1> QED
    BY <1>1, <1>2 DEF MutexInv

\* A step that takes one enters a section of its object.
LEMMA MutexTaken ==
    ASSUME IInv, NEW t \in Threads, NEW o \in Objects, OthersStay(t), Acquire(t, o),
           UNCHANGED <<active, goal, nesting>>,
           pc[t] \notin {"locked", "finish_locked", "throw_locked"},
           \/ pc'[t] = "locked" /\ o = goal[t]
           \/ pc'[t] \in {"finish_locked", "throw_locked"} /\ o = Innermost(t)
    PROVE  MutexInv'
  <1>1. CASE active
    <2>1. mutex' = [mutex EXCEPT ![MutexOf(o)] = t] /\ active'
      BY <1>1 DEF Acquire
    <2>2. InSection(t, MutexOf(o))'
      BY DEF InSection, Innermost
    <2>3. ASSUME NEW k \in DOMAIN mutex, k # MutexOf(o), mutex[k] # None
          PROVE  InSection(mutex[k], k)' /\ mutex'[k] = mutex[k]
      <3>1. InSection(mutex[k], k) /\ mutex[k] \in Threads \ {t}
        BY <2>3 DEF IInv, TypeOK, MutexInv
      <3> DEFINE u == mutex[k]
      <3>2. ASSUME NEW w \in Threads \ {t}, InSection(w, k)
            PROVE  InSection(w, k)'
        BY <3>2 DEF InSection, OthersStay, Innermost
      <3>3. mutex'[k] = mutex[k]
        BY <2>1, <2>3 DEF IInv, TypeOK
      <3> QED
        BY <3>1, <3>2, <3>3
    <2> QED
      BY <2>1, <2>2, <2>3 DEF MutexInv, IInv, TypeOK
  <1>2. CASE ~active
    BY <1>2 DEF Acquire, IInv, MutexInv
  <1> QED
    BY <1>1, <1>2

\* A step that puts one was in a section of its object.
LEMMA MutexPut ==
    ASSUME IInv, NEW t \in Threads, NEW o \in Objects, OthersStay(t), Release(o),
           UNCHANGED active,
           \/ pc[t] = "locked" /\ o = goal[t]
           \/ pc[t] \in {"finish_locked", "throw_locked"} /\ o = Innermost(t)
    PROVE  MutexInv'
  <1>1. CASE active
    <2>1. mutex' = [mutex EXCEPT ![MutexOf(o)] = None] /\ active'
      BY <1>1 DEF Release
    <2>2. ASSUME NEW k \in DOMAIN mutex, mutex'[k] # None
          PROVE  mutex'[k] = mutex[k] /\ mutex[k] \in Threads \ {t} /\ InSection(mutex[k], k)
      <3>1. k # MutexOf(o) /\ mutex'[k] = mutex[k] /\ mutex[k] \in Threads
        BY <2>1, <2>2 DEF IInv, TypeOK
      <3>2. InSection(mutex[k], k)
        BY <3>1, <2>2 DEF IInv, MutexInv
      <3>3. mutex[k] # t
        BY <3>1, <3>2 DEF InSection
      <3> QED
        BY <3>1, <3>2, <3>3
    <2>3. ASSUME NEW u \in Threads \ {t}, NEW k, InSection(u, k)
          PROVE  InSection(u, k)'
      BY <2>3 DEF InSection, OthersStay, Innermost
    <2> QED
      BY <2>1, <2>2, <2>3 DEF MutexInv
  <1>2. CASE ~active
    BY <1>2 DEF Release, IInv, MutexInv
  <1> QED
    BY <1>1, <1>2

\* The object of a section.
LEMMA ObjectOf ==
    ASSUME IInv, NEW t \in Threads
    PROVE  /\ pc[t] \in Calling => goal[t] \in Objects
           /\ nesting[t] # <<>> => Innermost(t) \in Objects
           /\ pc[t] \in Storing => Innermost(t) \in Objects
  BY Shortened DEF IInv, TypeOK, NestingInv, Initializing, Innermost

LEMMA MutexStep == ASSUME IInv, Next PROVE MutexInv'
  <1> USE DEF Calling, Storing
  <1>1. CASE StartKernel
    BY <1>1 DEF StartKernel, IInv, MutexInv, InSection, callVars, Innermost
  <1>2. CASE Ended
    BY <1>2 DEF Ended, vars, callVars, IInv, MutexInv, InSection, Innermost
  <1>3. ASSUME NEW t \in Threads, NEW o \in Objects, Call(t, o)
        PROVE  MutexInv'
    <2>1. OthersStay(t) /\ UNCHANGED <<active, mutex>> /\ pc[t] = "user"
      BY <1>3 DEF Call, OthersStay, Go, IInv, TypeOK
    <2> QED
      BY <2>1, MutexKept
  <1>4. ASSUME NEW t \in Threads, CallLocks(t)
        PROVE  MutexInv'
    <2>1. /\ OthersStay(t) /\ Acquire(t, goal[t]) /\ UNCHANGED <<active, goal, nesting>>
          /\ pc[t] = "lock" /\ pc'[t] = "locked"
      BY <1>4 DEF CallLocks, OthersStay, Go, IInv, TypeOK
    <2> QED
      BY <2>1, ObjectOf, MutexTaken
  <1>5. ASSUME NEW t \in Threads, CallPasses(t) \/ CallStarts(t) \/ CallSleeps(t)
        PROVE  MutexInv'
    <2>1. OthersStay(t) /\ Release(goal[t]) /\ UNCHANGED active /\ pc[t] = "locked"
      BY <1>5 DEF CallPasses, CallStarts, CallSleeps, OthersStay, Go, IInv, TypeOK
    <2> QED
      BY <2>1, ObjectOf, MutexPut
  <1>6. ASSUME NEW t \in Threads, CallWakes(t) \/ CallReturns(t) \/ Finish(t) \/ Throw(t)
        PROVE  MutexInv'
    <2>1. /\ OthersStay(t) /\ UNCHANGED <<active, mutex>>
          /\ pc[t] \in {"sleep", "passed", "user"}
      BY <1>6 DEF CallWakes, CallReturns, Finish, Throw, OthersStay, Go, IInv, TypeOK
    <2> QED
      BY <2>1, MutexKept
  <1>7. ASSUME NEW t \in Threads, FinishLocks(t) \/ ThrowLocks(t)
        PROVE  MutexInv'
    <2>1. /\ OthersStay(t) /\ Acquire(t, Innermost(t)) /\ UNCHANGED <<active, goal, nesting>>
          /\ pc[t] \in {"finish_lock", "throw_lock"}
          /\ pc'[t] \in {"finish_locked", "throw_locked"}
      BY <1>7 DEF FinishLocks, ThrowLocks, OthersStay, Go, IInv, TypeOK
    <2> QED
      BY <2>1, ObjectOf, MutexTaken
  <1>8. ASSUME NEW t \in Threads, FinishStores(t) \/ ThrowStores(t)
        PROVE  MutexInv'
    <2>1. /\ OthersStay(t) /\ Release(Innermost(t)) /\ UNCHANGED active
          /\ pc[t] \in {"finish_locked", "throw_locked"}
      BY <1>8 DEF FinishStores, ThrowStores, OthersStay, Go, Leave, IInv, TypeOK
    <2> QED
      BY <2>1, ObjectOf, MutexPut
  <1>9. ASSUME NEW t \in Threads,
               JoinReturns(t) \/ End(t) \/ \E u \in Threads : Join(t, u)
        PROVE  MutexInv'
    <2>1. OthersStay(t) /\ UNCHANGED <<active, mutex>> /\ pc[t] \in {"join", "user"}
      BY <1>9 DEF JoinReturns, End, Join, OthersStay, Go, IInv, TypeOK
    <2> QED
      BY <2>1, MutexKept
  <1> QED
    BY <1>1, <1>2, <1>3, <1>4, <1>5, <1>6, <1>7, <1>8, <1>9 DEF Next, RuntimeSteps, Locks

\* Types: the last conjunct of TypeOK follows from MutexInv.
LEMMA TypeStep == ASSUME IInv, Next PROVE TypeOK'
  <1> USE DEF IInv, TypeOK, PCs, Go, Acquire, Release, MutexOf
  <1> DEFINE Mutexes == {"initialization_mutex", "cxx_guard_mutex"}
  <1>1. active' \in BOOLEAN
    BY DEF Next, StartKernel, Ended, vars, RuntimeSteps, Locks, Call, CallLocks, CallPasses,
           CallStarts, CallSleeps, CallWakes, CallReturns, Finish, FinishLocks, FinishStores,
           Throw, ThrowLocks, ThrowStores, Join, JoinReturns, End
  <1>2. pc' \in [Threads -> PCs]
    BY DEF Next, StartKernel, Ended, vars, callVars, RuntimeSteps, Locks, Call, CallLocks,
           CallPasses, CallStarts, CallSleeps, CallWakes, CallReturns, Finish, FinishLocks,
           FinishStores, Throw, ThrowLocks, ThrowStores, Join, JoinReturns, End
  <1>3. goal' \in [Threads -> Objects \union Threads \union {None}]
    <2>1. ASSUME NEW t \in Threads,
                 \/ CallStarts(t) \/ CallReturns(t) \/ JoinReturns(t)
                 \/ (\E o \in Objects : Call(t, o)) \/ (\E u \in Threads : Join(t, u))
          PROVE  \E x \in Objects \union Threads \union {None} :
                    goal' = [goal EXCEPT ![t] = x]
      BY <2>1 DEF CallStarts, CallReturns, JoinReturns, Call, Join
    <2>2. CASE UNCHANGED goal
      BY <2>2
    <2> QED
      BY ZenonT(30), <2>1, <2>2
         DEF Next, StartKernel, Ended, vars, callVars, RuntimeSteps, Locks, CallLocks,
             CallPasses, CallSleeps, CallWakes, Finish, FinishLocks, FinishStores, Throw,
             ThrowLocks, ThrowStores, End
  <1>4. nesting' \in [Threads -> Seq(Objects)]
    <2>1. ASSUME NEW t \in Threads, CallStarts(t)
          PROVE  nesting' \in [Threads -> Seq(Objects)]
      <3>1. goal[t] \in Objects /\ nesting[t] \in Seq(Objects)
        BY <2>1, ObjectOf DEF CallStarts, Calling
      <3>2. Append(nesting[t], goal[t]) \in Seq(Objects)
        BY <3>1, Appended
      <3> QED
        BY <2>1, <3>2 DEF CallStarts
    <2>2. ASSUME NEW t \in Threads, FinishStores(t) \/ ThrowStores(t)
          PROVE  nesting' \in [Threads -> Seq(Objects)]
      <3>1. nesting[t] \in Seq(Objects) /\ nesting[t] # <<>>
        BY <2>2 DEF FinishStores, ThrowStores, NestingInv, Storing, Initializing
      <3>2. SubSeq(nesting[t], 1, Len(nesting[t]) - 1) \in Seq(Objects)
        BY <3>1, Shortened
      <3> QED
        BY ZenonT(30), <2>2, <3>2 DEF FinishStores, ThrowStores, Leave
    <2>3. ASSUME NEW t \in Threads,
                 \/ CallLocks(t) \/ CallPasses(t) \/ CallSleeps(t) \/ CallWakes(t)
                 \/ CallReturns(t) \/ Finish(t) \/ FinishLocks(t) \/ Throw(t) \/ ThrowLocks(t)
                 \/ JoinReturns(t) \/ End(t)
                 \/ (\E o \in Objects : Call(t, o)) \/ (\E u \in Threads : Join(t, u))
          PROVE  nesting' \in [Threads -> Seq(Objects)]
      BY <2>3 DEF CallLocks, CallPasses, CallSleeps, CallWakes, CallReturns, Finish,
                  FinishLocks, Throw, ThrowLocks, JoinReturns, End, Call, Join
    <2>4. CASE StartKernel \/ Ended
      BY <2>4 DEF StartKernel, Ended, vars, callVars
    <2> QED
      BY <2>1, <2>2, <2>3, <2>4 DEF Next, RuntimeSteps, Locks
  <1>5. todo' \in [Threads -> SUBSET Objects]
    <2>1. ASSUME NEW t \in Threads, NEW o \in Objects, Call(t, o)
          PROVE  todo' \in [Threads -> SUBSET Objects]
      BY <2>1 DEF Call
    <2>2. CASE UNCHANGED todo
      BY <2>2
    <2> QED
      BY <2>1, <2>2
         DEF Next, StartKernel, Ended, vars, callVars, RuntimeSteps, Locks, CallLocks,
             CallPasses, CallStarts, CallSleeps, CallWakes, CallReturns, Finish, FinishLocks,
             FinishStores, Throw, ThrowLocks, ThrowStores, Join, JoinReturns, End
  <1>6. state' \in [Objects -> {"idle", "running", "done"}]
    BY DEF Next, StartKernel, Ended, vars, callVars, RuntimeSteps, Locks, Call, CallLocks,
           CallPasses, CallStarts, CallSleeps, CallWakes, CallReturns, Finish, FinishLocks,
           FinishStores, Throw, ThrowLocks, ThrowStores, Join, JoinReturns, End
  <1>7. mutex' \in [Mutexes -> Threads \union {None}]
    BY DEF Next, StartKernel, Ended, vars, callVars, RuntimeSteps, Locks, Call, CallLocks,
           CallPasses, CallStarts, CallSleeps, CallWakes, CallReturns, Finish, FinishLocks,
           FinishStores, Throw, ThrowLocks, ThrowStores, Join, JoinReturns, End
  <1>8. constructed' \subseteq Objects
    <2>1. ASSUME NEW t \in Threads, Finish(t)
          PROVE  constructed' \subseteq Objects
      BY <2>1, ObjectOf DEF Finish, Initializing
    <2> QED
      BY <2>1 DEF Next, StartKernel, Ended, vars, callVars, RuntimeSteps, Locks, Call,
           CallLocks, CallPasses, CallStarts, CallSleeps, CallWakes, CallReturns, FinishLocks,
           FinishStores, Throw, ThrowLocks, ThrowStores, Join, JoinReturns, End
  <1>9. throws' \in 0..MaxThrows
    BY ConstantsAssumption
       DEF Next, StartKernel, Ended, vars, callVars, RuntimeSteps, Locks, Call, CallLocks,
           CallPasses, CallStarts, CallSleeps, CallWakes, CallReturns, Finish, FinishLocks,
           FinishStores, Throw, ThrowLocks, ThrowStores, Join, JoinReturns, End
  <1>10. MutexInv'
    BY MutexStep
  <1>11. \A k \in DOMAIN mutex' : mutex'[k] # None =>
            pc'[mutex'[k]] \in {"locked", "finish_locked", "throw_locked"}
    BY <1>10 DEF MutexInv, InSection
  <1> QED
    BY <1>1, <1>2, <1>3, <1>4, <1>5, <1>6, <1>7, <1>8, <1>9, <1>11

\* The lists stay in order, and larger objects come last.
LEMMA NestingStep == ASSUME IInv, Next PROVE NestingInv'
  <1> USE DEF Calling, Storing
  <1> DEFINE At(t) == /\ pc[t] \in Calling =>
                            /\ goal[t] \in Objects
                            /\ \A i \in 1..Len(nesting[t]) : nesting[t][i] < goal[t]
                      /\ \A i, j \in 1..Len(nesting[t]) : i < j => nesting[t][i] < nesting[t][j]
                      /\ pc[t] \in Storing => Initializing(t)
  <1> SUFFICES ASSUME NEW t \in Threads PROVE At(t)'
    BY DEF NestingInv
  <1>1. At(t)
    BY DEF IInv, NestingInv
  <1>2. ASSUME NEW u \in Threads, u # t, OthersStay(u)
        PROVE  At(t)'
    BY <1>1, <1>2 DEF OthersStay, Initializing
  <1>3. CASE StartKernel \/ Ended
    BY <1>1, <1>3 DEF StartKernel, Ended, vars, callVars, Initializing
  <1>4. ASSUME NEW u \in Threads, NEW o \in Objects, Call(u, o)
        PROVE  At(t)'
    <2>1. OthersStay(u)
      BY <1>4 DEF Call, OthersStay, Go, IInv, TypeOK
    <2>2. CASE u = t
      BY <1>1, <1>4, <2>2 DEF Call, MayCall, Go, IInv, TypeOK
    <2> QED
      BY <1>2, <2>1, <2>2
  <1>5. ASSUME NEW u \in Threads,
               \/ CallLocks(u) \/ CallPasses(u) \/ CallSleeps(u) \/ CallWakes(u)
               \/ CallReturns(u) \/ FinishLocks(u) \/ ThrowLocks(u)
        PROVE  At(t)'
    <2>1. OthersStay(u)
      BY <1>5 DEF CallLocks, CallPasses, CallSleeps, CallWakes, CallReturns, FinishLocks,
                  ThrowLocks, OthersStay, Go, IInv, TypeOK
    <2>2. CASE u = t
      BY <1>1, <1>5, <2>2
         DEF CallLocks, CallPasses, CallSleeps, CallWakes, CallReturns, FinishLocks,
             ThrowLocks, Initializing, Go, IInv, TypeOK
    <2> QED
      BY <1>2, <2>1, <2>2
  <1>6. ASSUME NEW u \in Threads, CallStarts(u)
        PROVE  At(t)'
    <2>1. OthersStay(u)
      BY <1>6 DEF CallStarts, OthersStay, Go, IInv, TypeOK
    <2>2. CASE u = t
      <3> DEFINE n == Len(nesting[t])
      <3>1. /\ nesting[t] \in Seq(Objects) /\ goal[t] \in Objects /\ pc'[t] = "user"
            /\ nesting'[t] = Append(nesting[t], goal[t])
        BY <1>1, <1>6, <2>2 DEF CallStarts, Go, IInv, TypeOK
      <3>2. /\ n \in Nat /\ Len(nesting'[t]) = n + 1 /\ nesting'[t][n + 1] = goal[t]
            /\ \A i \in 1..n : nesting'[t][i] = nesting[t][i]
        BY <3>1, Appended, LenProperties
      <3>3. \A i \in 1..n : nesting[t][i] < goal[t]
        BY <1>1, <1>6, <2>2 DEF CallStarts
      <3>4. \A i, j \in 1..n + 1 : i < j => i \in 1..n /\ (j \in 1..n \/ j = n + 1)
        BY <3>2
      <3>5. \A i, j \in 1..n : i < j => nesting[t][i] < nesting[t][j]
        BY <1>1
      <3>6. \A i, j \in 1..Len(nesting'[t]) : i < j => nesting'[t][i] < nesting'[t][j]
        BY <3>2, <3>3, <3>4, <3>5
      <3> QED
        BY <3>1, <3>6
    <2> QED
      BY <1>2, <2>1, <2>2
  <1>7. ASSUME NEW u \in Threads, FinishStores(u) \/ ThrowStores(u)
        PROVE  At(t)'
    <2>1. OthersStay(u)
      BY <1>7 DEF FinishStores, ThrowStores, Leave, OthersStay, Go, IInv, TypeOK
    <2>2. CASE u = t
      <3> DEFINE n == Len(nesting[t])
      <3>1. /\ nesting[t] \in Seq(Objects) /\ nesting[t] # <<>> /\ pc'[t] = "user"
            /\ nesting'[t] = SubSeq(nesting[t], 1, n - 1)
        BY <1>1, <1>7, <2>2
           DEF FinishStores, ThrowStores, Leave, Go, Initializing, IInv, TypeOK
      <3>2. /\ n \in Nat \ {0} /\ Len(nesting'[t]) = n - 1
            /\ \A i \in 1..n - 1 : nesting'[t][i] = nesting[t][i]
        BY <3>1, Shortened
      <3>3. \A i \in 1..n - 1 : i \in 1..n
        BY <3>2
      <3>4. \A i, j \in 1..n : i < j => nesting[t][i] < nesting[t][j]
        BY <1>1
      <3>5. \A i, j \in 1..Len(nesting'[t]) : i < j => nesting'[t][i] < nesting'[t][j]
        BY <3>2, <3>3, <3>4
      <3> QED
        BY <3>1, <3>5
    <2> QED
      BY <1>2, <2>1, <2>2
  <1>8. ASSUME NEW u \in Threads,
               \/ Finish(u) \/ Throw(u) \/ JoinReturns(u) \/ End(u)
               \/ \E w \in Threads : Join(u, w)
        PROVE  At(t)'
    <2>1. OthersStay(u)
      BY <1>8 DEF Finish, Throw, JoinReturns, End, Join, OthersStay, Go, IInv, TypeOK
    <2>2. CASE u = t
      BY <1>1, <1>8, <2>2
         DEF Finish, Throw, JoinReturns, End, Join, Initializing, Go, IInv, TypeOK
    <2> QED
      BY <1>2, <2>1, <2>2
  <1> QED
    BY <1>3, <1>4, <1>5, <1>6, <1>7, <1>8 DEF Next, RuntimeSteps, Locks

\* The other steps: they enter and leave no initialiser, and mark no object.
Quiet == UNCHANGED <<nesting, state>>

LEMMA QuietSteps ==
    ASSUME Next
    PROVE  \/ Quiet
           \/ \E t \in Threads : CallStarts(t) \/ FinishStores(t) \/ ThrowStores(t)
  BY DEF Quiet, Next, StartKernel, Ended, vars, callVars, RuntimeSteps, Locks, Call, CallLocks,
         CallPasses, CallSleeps, CallWakes, CallReturns, Finish, FinishLocks, Throw,
         ThrowLocks, Join, JoinReturns, End

\* What the three do to the marks and the list, in one formula each.
LEMMA StartEffect ==
    ASSUME IInv, NEW t \in Threads, CallStarts(t)
    PROVE  \E p \in Objects :
             /\ state[p] = "idle" /\ state' = [state EXCEPT ![p] = "running"]
             /\ \A u \in Threads : ~IsInitializing(u, p)
             /\ \A u \in Threads, o \in Objects :
                   IsInitializing(u, o)' <=> IsInitializing(u, o) \/ (u = t /\ o = p)
  BY Entered DEF CallStarts

LEMMA StoreEffect ==
    ASSUME IInv, NEW t \in Threads, FinishStores(t) \/ ThrowStores(t)
    PROVE  \E p \in Objects :
             /\ IsInitializing(t, p)
             /\ \/ p \in constructed /\ state' = [state EXCEPT ![p] = "done"]
                \/ state' = [state EXCEPT ![p] = "idle"]
             /\ \A u \in Threads, o \in Objects :
                   IsInitializing(u, o)' <=> IsInitializing(u, o) /\ ~(u = t /\ o = p)
  <1>1. pc[t] \in Storing /\ Leave(t)
    BY DEF FinishStores, ThrowStores, Storing
  <1>2. \/ Innermost(t) \in constructed /\ state' = [state EXCEPT ![Innermost(t)] = "done"]
        \/ state' = [state EXCEPT ![Innermost(t)] = "idle"]
    BY DEF FinishStores, ThrowStores, IInv, DoneInv
  <1> QED
    BY <1>1, <1>2, Departed

LEMMA InitializerStep == ASSUME IInv, Next PROVE OneInitializer'
  <1>1. CASE Quiet
    BY <1>1 DEF Quiet, IInv, OneInitializer, IsInitializing
  <1>2. ASSUME NEW t \in Threads, CallStarts(t)
        PROVE  OneInitializer'
    <2>1. PICK p \in Objects :
             /\ state[p] = "idle" /\ state' = [state EXCEPT ![p] = "running"]
             /\ \A u \in Threads : ~IsInitializing(u, p)
             /\ \A u \in Threads, o \in Objects :
                   IsInitializing(u, o)' <=> IsInitializing(u, o) \/ (u = t /\ o = p)
      BY <1>2, StartEffect
    <2>2. \A o \in Objects : state'[o] = IF o = p THEN "running" ELSE state[o]
      BY <2>1 DEF IInv, TypeOK
    <2> QED
      BY <2>1, <2>2 DEF IInv, OneInitializer
  <1>3. ASSUME NEW t \in Threads, FinishStores(t) \/ ThrowStores(t)
        PROVE  OneInitializer'
    <2>1. PICK p \in Objects :
             /\ IsInitializing(t, p)
             /\ \/ p \in constructed /\ state' = [state EXCEPT ![p] = "done"]
                \/ state' = [state EXCEPT ![p] = "idle"]
             /\ \A u \in Threads, o \in Objects :
                   IsInitializing(u, o)' <=> IsInitializing(u, o) /\ ~(u = t /\ o = p)
      BY <1>3, StoreEffect
    <2>2. state'[p] # "running" /\ \A o \in Objects \ {p} : state'[o] = state[o]
      BY <2>1 DEF IInv, TypeOK
    <2> QED
      BY <2>1, <2>2 DEF IInv, OneInitializer
  <1> QED
    BY <1>1, <1>2, <1>3, QuietSteps

\* An object is constructed before it is marked, and stays so.
LEMMA DoneStep == ASSUME IInv, Next PROVE DoneInv'
  <1>1. constructed \subseteq constructed'
    BY DEF Next, StartKernel, Ended, vars, callVars, RuntimeSteps, Locks, Call, CallLocks,
           CallPasses, CallStarts, CallSleeps, CallWakes, CallReturns, Finish, FinishLocks,
           FinishStores, Throw, ThrowLocks, ThrowStores, Join, JoinReturns, End
  <1>2. ASSUME NEW o \in Objects, state'[o] = "done"
        PROVE  o \in constructed'
    <2>1. CASE state[o] = "done"
      BY <1>1, <2>1 DEF IInv, DoneInv
    <2>2. CASE Quiet
      BY <1>1, <1>2, <2>2 DEF Quiet, IInv, DoneInv
    <2>3. ASSUME NEW t \in Threads, CallStarts(t), state[o] # "done"
          PROVE  FALSE
      BY <1>2, <2>3, StartEffect DEF IInv, TypeOK
    <2>4. ASSUME NEW t \in Threads, FinishStores(t) \/ ThrowStores(t), state[o] # "done"
          PROVE  o \in constructed
      BY <1>2, <2>4, StoreEffect DEF IInv, TypeOK
    <2> QED
      BY <1>1, <2>1, <2>2, <2>3, <2>4, QuietSteps
  <1>3. ASSUME NEW t \in Threads, pc'[t] \in {"finish_lock", "finish_locked"}
        PROVE  Innermost(t)' \in constructed'
    <2>1. CASE pc[t] \in {"finish_lock", "finish_locked"} /\ nesting'[t] = nesting[t]
      BY <1>1, <2>1 DEF IInv, DoneInv, Innermost
    <2>2. CASE Finish(t)
      BY <2>2 DEF Finish, Innermost
    <2>3. \/ Finish(t)
          \/ pc[t] \in {"finish_lock", "finish_locked"} /\ nesting'[t] = nesting[t]
      <3>1. CASE StartKernel \/ Ended
        BY <1>3, <3>1 DEF StartKernel, Ended, vars, callVars
      <3>2. ASSUME NEW u \in Threads, NEW o \in Objects, Call(u, o)
            PROVE  pc[t] \in {"finish_lock", "finish_locked"} /\ nesting'[t] = nesting[t]
        BY <1>3, <3>2 DEF Call, Go, IInv, TypeOK
      <3>3. ASSUME NEW u \in Threads, RuntimeSteps(u)
            PROVE  pc[t] \in {"finish_lock", "finish_locked"} /\ nesting'[t] = nesting[t]
        BY <1>3, <3>3
           DEF RuntimeSteps, Locks, CallLocks, CallPasses, CallStarts, CallSleeps, CallWakes,
               CallReturns, FinishLocks, FinishStores, ThrowLocks, ThrowStores, Leave, Go,
               IInv, TypeOK
      <3>4. ASSUME NEW u \in Threads, Finish(u), u # t
            PROVE  pc[t] \in {"finish_lock", "finish_locked"} /\ nesting'[t] = nesting[t]
        BY <1>3, <3>4 DEF Finish, Go, IInv, TypeOK
      <3>5. ASSUME NEW u \in Threads,
                   Throw(u) \/ JoinReturns(u) \/ End(u) \/ \E w \in Threads : Join(u, w)
            PROVE  pc[t] \in {"finish_lock", "finish_locked"} /\ nesting'[t] = nesting[t]
        BY <1>3, <3>5 DEF Throw, JoinReturns, End, Join, Go, IInv, TypeOK
      <3> QED
        BY <3>1, <3>2, <3>3, <3>4, <3>5 DEF Next
    <2> QED
      BY <2>1, <2>2, <2>3
  <1> QED
    BY <1>2, <1>3 DEF DoneInv

\* Who passes has seen the mark, or had passed before.
LEMMA PassedStep == ASSUME IInv, Next PROVE PassedIsConstructed'
  <1>1. constructed \subseteq constructed'
    BY DEF Next, StartKernel, Ended, vars, callVars, RuntimeSteps, Locks, Call, CallLocks,
           CallPasses, CallStarts, CallSleeps, CallWakes, CallReturns, Finish, FinishLocks,
           FinishStores, Throw, ThrowLocks, ThrowStores, Join, JoinReturns, End
  <1> SUFFICES ASSUME NEW t \in Threads, pc'[t] = "passed"
               PROVE  goal'[t] \in constructed'
    BY DEF PassedIsConstructed
  <1>2. CASE pc[t] = "passed" /\ goal'[t] = goal[t]
    BY <1>1, <1>2 DEF IInv, PassedIsConstructed
  <1>3. ASSUME NEW u \in Threads, NEW o \in Objects, Call(u, o)
        PROVE  goal'[t] \in constructed'
    <2>1. CASE u = t
      BY <1>1, <1>3, <2>1 DEF Call, Go, IInv, TypeOK, DoneInv
    <2>2. CASE u # t
      BY <1>2, <1>3, <2>2 DEF Call, Go, IInv, TypeOK
    <2> QED
      BY <2>1, <2>2
  <1>4. ASSUME NEW u \in Threads, CallPasses(u)
        PROVE  goal'[t] \in constructed'
    <2>1. CASE u = t
      <3>1. goal[t] \in Objects
        BY <1>4, <2>1 DEF CallPasses, IInv, NestingInv, Calling
      <3> QED
        BY <1>1, <1>4, <2>1, <3>1 DEF CallPasses, IInv, DoneInv
    <2>2. CASE u # t
      BY <1>2, <1>4, <2>2 DEF CallPasses, Go, IInv, TypeOK
    <2> QED
      BY <2>1, <2>2
  <1>5. ASSUME NEW u \in Threads,
               \/ Locks(u) \/ CallStarts(u) \/ CallSleeps(u) \/ CallWakes(u) \/ CallReturns(u)
               \/ FinishStores(u) \/ ThrowStores(u) \/ Finish(u) \/ Throw(u)
        PROVE  pc[t] = "passed" /\ goal'[t] = goal[t]
    BY <1>5
       DEF Locks, CallLocks, CallStarts, CallSleeps, CallWakes, CallReturns, Finish,
           FinishLocks, FinishStores, Throw, ThrowLocks, ThrowStores, Go, IInv, TypeOK
  <1>6. ASSUME NEW u \in Threads, JoinReturns(u) \/ End(u) \/ \E w \in Threads : Join(u, w)
        PROVE  pc[t] = "passed" /\ goal'[t] = goal[t]
    BY <1>6 DEF JoinReturns, End, Join, Go, IInv, TypeOK
  <1>7. CASE StartKernel \/ Ended
    BY <1>2, <1>7 DEF StartKernel, Ended, vars, callVars
  <1> QED
    BY <1>2, <1>3, <1>4, <1>5, <1>6, <1>7 DEF Next, RuntimeSteps

LEMMA IInvStep == IInv /\ [Next]_vars => IInv'
  <1> SUFFICES ASSUME IInv, [Next]_vars PROVE IInv'
    OBVIOUS
  <1>1. CASE Next
    BY <1>1, TypeStep, NestingStep, MutexStep, DoneStep, InitializerStep, PassedStep DEF IInv
  <1>2. CASE UNCHANGED vars
    BY <1>2
       DEF vars, callVars, IInv, TypeOK, NestingInv, MutexInv, InSection, DoneInv,
           OneInitializer, PassedIsConstructed, IsInitializing, Initializing, Innermost
  <1> QED
    BY <1>1, <1>2

-----------------------------------------------------------------------------
(* The theorems.                                                            *)

LEMMA Invariance == Spec => []IInv
  <1>1. Init => IInv
    BY InitIInv
  <1>2. IInv /\ [Next]_vars => IInv'
    BY IInvStep
  <1> QED
    BY <1>1, <1>2, PTL DEF Spec

\* Whatever the threads, objects and nestings: one thread at a time initialises
\* an object, a waiter never waits for one that has gone, nobody passes before
\* the object is constructed, and user code runs without the runtime's mutexes
\* (once in backend.cpp, __cxa_guard_acquire, _release and _abort).
THEOREM InitializedOnceHolds == Spec => []InitializedOnce
  <1>1. IInv => InitializedOnce
    BY DEF IInv, InitializedOnce
  <1> QED
    BY <1>1, Invariance, PTL

-----------------------------------------------------------------------------
(* The refinement.                                                          *)

\* The thread that OnceContract sees at an object.
Runner(o) == IF \E t \in Threads : IsInitializing(t, o)
             THEN CHOOSE t \in Threads : IsInitializing(t, o) ELSE None
Runners == [o \in Objects |-> Runner(o)]
Done == {o \in Objects : state[o] = "done"}

\* It is the one that initialises it, before and after a step.
LEMMA RunnerNow ==
    ASSUME OneInitializer, NEW o \in Objects
    PROVE  /\ Runner(o) \in Threads \union {None}
           /\ \A t \in Threads : IsInitializing(t, o) <=> Runner(o) = t
           /\ Runner(o) = None <=> \A t \in Threads : ~IsInitializing(t, o)
  BY ConstantsAssumption DEF OneInitializer, Runner

LEMMA RunnerNext ==
    ASSUME OneInitializer', NEW o \in Objects
    PROVE  /\ Runner(o)' \in Threads \union {None}
           /\ \A t \in Threads : IsInitializing(t, o)' <=> Runner(o)' = t
           /\ Runner(o)' = None <=> \A t \in Threads : ~IsInitializing(t, o)'
  BY ConstantsAssumption DEF OneInitializer, Runner

\* An object that nobody enters or leaves keeps its runner.
LEMMA RunnerSame ==
    ASSUME IInv, IInv', NEW o \in Objects,
           \A u \in Threads : IsInitializing(u, o)' <=> IsInitializing(u, o)
    PROVE  Runner(o)' = Runner(o)
  <1>1. OneInitializer /\ OneInitializer'
    BY DEF IInv
  <1>2. CASE Runner(o) = None
    BY <1>1, <1>2, RunnerNow, RunnerNext
  <1>3. CASE Runner(o) # None
    <2>1. PICK t \in Threads : Runner(o) = t
      BY <1>1, <1>3, RunnerNow
    <2>2. IsInitializing(t, o)'
      BY <1>1, <2>1, RunnerNow
    <2> QED
      BY <1>1, <2>1, <2>2, RunnerNext
  <1> QED
    BY <1>2, <1>3

\* The mapping of ImplementsContract, in the names of this module.
LEMMA Mapping ==
    /\ Contract!Init <=> Runners = [o \in Objects |-> None] /\ Done = {}
    /\ Contract!Next <=>
          \E o \in Objects :
             \/ /\ Runners[o] # None
                /\ Runners' = [Runners EXCEPT ![o] = None]
                /\ Done' = Done \/ Done' = Done \union {o}
             \/ \E t \in Threads :
                   /\ o \notin Done /\ Runners[o] = None
                   /\ Runners' = [Runners EXCEPT ![o] = t]
                   /\ Done' = Done
    /\ UNCHANGED Contract!vars <=> Runners' = Runners /\ Done' = Done
  BY DEF Contract!Init, Contract!Next, Contract!Start, Contract!Throw, Contract!Succeed,
         Contract!vars, Runners, Runner, Done

LEMMA InitContract == Init => Contract!Init
  <1> SUFFICES ASSUME Init PROVE Contract!Init
    OBVIOUS
  <1>1. \A t \in Threads : Len(nesting[t]) = 0
    BY EmptySeq DEF Init
  <1>2. \A t \in Threads, o \in Objects : ~IsInitializing(t, o)
    BY <1>1 DEF IsInitializing
  <1>3. Runners = [o \in Objects |-> None]
    BY <1>2 DEF Runners, Runner
  <1>4. Done = {}
    BY DEF Done, Init
  <1> QED
    BY <1>3, <1>4, Mapping

\* CallStarts is Start, ThrowStores is Throw, FinishStores is Succeed, and the
\* rest of the code is not seen.
LEMMA ContractStep == IInv /\ IInv' /\ [Next]_vars => [Contract!Next]_(Contract!vars)
  <1> SUFFICES ASSUME IInv, IInv', [Next]_vars
               PROVE  Contract!Next \/ UNCHANGED Contract!vars
    OBVIOUS
  <1>1. OneInitializer /\ OneInitializer'
    BY DEF IInv
  <1>2. CASE Quiet \/ UNCHANGED vars
    <2>1. UNCHANGED <<nesting, state>>
      BY <1>2 DEF Quiet, vars, callVars
    <2>2. \A o \in Objects : Runner(o)' = Runner(o)
      BY <2>1, RunnerSame DEF IsInitializing
    <2>3. Runners' = Runners
      BY <2>2 DEF Runners
    <2>4. Done' = Done
      BY <2>1 DEF Done
    <2> QED
      BY <2>3, <2>4, Mapping
  <1>3. ASSUME NEW t \in Threads, CallStarts(t)
        PROVE  Contract!Next
    <2>1. PICK p \in Objects :
             /\ state[p] = "idle" /\ state' = [state EXCEPT ![p] = "running"]
             /\ \A u \in Threads : ~IsInitializing(u, p)
             /\ \A u \in Threads, o \in Objects :
                   IsInitializing(u, o)' <=> IsInitializing(u, o) \/ (u = t /\ o = p)
      BY <1>3, StartEffect
    <2>2. Runner(p) = None /\ Runner(p)' = t
      BY <1>1, <2>1, RunnerNow, RunnerNext
    <2>3. \A o \in Objects \ {p} : Runner(o)' = Runner(o)
      BY <2>1, RunnerSame
    <2>4. Runners' = [Runners EXCEPT ![p] = t] /\ Runners[p] = None
      BY <2>2, <2>3 DEF Runners
    <2>5. p \notin Done /\ Done' = Done
      BY <2>1 DEF Done, IInv, TypeOK
    <2> QED
      BY <2>4, <2>5, Mapping
  <1>4. ASSUME NEW t \in Threads, FinishStores(t) \/ ThrowStores(t)
        PROVE  Contract!Next
    <2>1. PICK p \in Objects :
             /\ IsInitializing(t, p)
             /\ \/ p \in constructed /\ state' = [state EXCEPT ![p] = "done"]
                \/ state' = [state EXCEPT ![p] = "idle"]
             /\ \A u \in Threads, o \in Objects :
                   IsInitializing(u, o)' <=> IsInitializing(u, o) /\ ~(u = t /\ o = p)
      BY <1>4, StoreEffect
    <2>2. Runner(p) = t /\ Runner(p) # None
      BY <1>1, <2>1, RunnerNow
    <2>3. Runner(p)' = None
      <3>1. \A u \in Threads : ~IsInitializing(u, p)'
        BY <1>1, <2>1 DEF OneInitializer
      <3> QED
        BY <1>1, <3>1, RunnerNext
    <2>4. \A o \in Objects \ {p} : Runner(o)' = Runner(o)
      BY <2>1, RunnerSame
    <2>5. Runners' = [Runners EXCEPT ![p] = None] /\ Runners[p] # None
      <3>1. \A o \in Objects : Runner(o)' = IF o = p THEN None ELSE Runner(o)
        BY <2>3, <2>4
      <3>2. Runners' = [o \in Objects |-> IF o = p THEN None ELSE Runner(o)]
        BY <3>1 DEF Runners
      <3> QED
        BY <2>2, <3>2 DEF Runners
    <2>6. state[p] = "running"
      BY <2>1 DEF IInv, OneInitializer
    <2>7. Done' = Done \/ Done' = Done \union {p}
      BY <2>1, <2>6 DEF Done, IInv, TypeOK
    <2> QED
      BY <2>5, <2>7, Mapping
  <1> QED
    BY <1>2, <1>3, <1>4, QuietSteps

\* once and the guards implement the promise of std::call_once: one attempt at
\* a time, another only after one that threw, none after one that succeeded.
THEOREM ImplementsContractHolds == Spec => ImplementsContract
  <1>1. Init => Contract!Init
    BY InitContract
  <1>2. IInv /\ IInv' /\ [Next]_vars => [Contract!Next]_(Contract!vars)
    BY ContractStep
  <1> QED
    BY <1>1, <1>2, Invariance, PTL DEF Spec, ImplementsContract, Contract!Spec

=============================================================================
