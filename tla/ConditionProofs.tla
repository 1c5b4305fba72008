-------------------------- MODULE ConditionProofs ---------------------------
(***************************************************************************)
(* Theorems of Condition for all finite sets of consumers and producers,   *)
(* any number of conditions and any bound on the items: the lists, the     *)
(* semaphores and the results of waits stay consistent, no wake-up is      *)
(* lost, and every step is one of ConditionContract or is hidden from it.  *)
(*                                                                         *)
(* Each part of the invariant relates at most two threads and one          *)
(* condition; a lemma for each part goes through the steps one by one.     *)
(***************************************************************************)
EXTENDS Condition, SequenceTheorems, FiniteSetTheorems, TLAPS

-----------------------------------------------------------------------------
(* Lists.                                                                   *)

\* What is left of a sequence when one position is taken out.
LEMMA RemoveAtResult ==
    ASSUME NEW S, NEW s \in Seq(S), NEW i \in 1..Len(s)
    PROVE  /\ RemoveAt(s, i) \in Seq(S)
           /\ Len(RemoveAt(s, i)) = Len(s) - 1
           /\ \A j \in 1..(Len(s) - 1) :
                 RemoveAt(s, i)[j] = IF j < i THEN s[j] ELSE s[j + 1]
  <1> DEFINE a == SubSeq(s, 1, i - 1)
             b == SubSeq(s, i + 1, Len(s))
  <1>1. /\ a \in Seq(S) /\ Len(a) = i - 1
        /\ \A j \in 1..(i - 1) : a[j] = s[j]
    BY SubSeqProperties
  <1>2. /\ b \in Seq(S) /\ Len(b) = Len(s) - i
        /\ \A j \in 1..(Len(s) - i) : b[j] = s[i + j]
    BY SubSeqProperties
  <1>3. RemoveAt(s, i) = a \o b
    BY DEF RemoveAt
  <1> HIDE DEF a, b
  <1>4. /\ a \o b \in Seq(S) /\ Len(a \o b) = Len(a) + Len(b)
        /\ \A j \in 1..(Len(a) + Len(b)) :
              (a \o b)[j] = IF j <= Len(a) THEN a[j] ELSE b[j - Len(a)]
    BY <1>1, <1>2, ConcatProperties
  <1> QED
    BY <1>1, <1>2, <1>3, <1>4

-----------------------------------------------------------------------------
(* The inductive invariant.                                                 *)

\* Where a thread holds the mutex of its condition.
HoldPCs == {"w_unlock", "w_put", "w_resolve", "n_locked", "n_post", "n_unlock", "d_locked"}
\* Where a consumer is in the list, unless somebody has notified it.
SleepPCs == {"w_unlock", "w_put", "w_get", "w_timeout", "w_resolve"}
In(c, t) == \E i \in 1..Len(waiters[c]) : waiters[c][i] = t

\* The condition's mutex is held by the thread inside the critical section.
MutexAt(c, t) == mutex[c] = t <=> impl[t] = c /\ pc[t] \in HoldPCs

\* Who is inside a call has loaded a condition, and uses it only while it exists.
ImplAt(t) ==
    /\ pc[t] \in WaitPCs \union (NotifyPCs \ {"n_call"}) \union DestroyPCs =>
          impl[t] \in Conditions
    /\ UsesCondition(t) => memory[impl[t]] = "live"
    /\ t \in Producers => pc[t] \notin WaitPCs
    /\ t \in Consumers => pc[t] \notin NotifyPCs \union DestroyPCs

\* One condition exists at a time: the one in the handle.
HandleAt(c) == memory[c] = "live" <=> implementation = c

\* The list holds, once, each consumer that waits and that nobody has notified.
LinkAt(c, t) == In(c, t) <=> impl[t] = c /\ pc[t] \in SleepPCs /\ ~notified[t]
ListAt(c) == \A i, j \in 1..Len(waiters[c]) : waiters[c][i] = waiters[c][j] => i = j

\* What a consumer's own variables say in the course of its wait.
WaitAt(t) ==
    /\ pc[t] \in SleepPCs /\ (~notified[t] \/ timed[t]) => memory[impl[t]] = "live"
    /\ notified[t] => pc[t] \in {"w_get", "w_timeout", "w_resolve", "w_delete", "w_relock"}
    /\ pc[t] \in WaitPCs \ {"w_delete", "w_relock"} /\ ~notified[t] => semaphore[t] = 0
    /\ pc[t] \in {"w_timeout", "w_resolve"} => timed[t] /\ wait_status[t] = "ETIMEDOUT"
    /\ pc[t] \in {"user", "owner", "w_append", "w_unlock", "w_put", "w_get"} =>
          wait_status[t] = "0"
    /\ pc[t] \in {"w_delete", "w_relock"} => (wait_status[t] = "0" <=> notified[t])
    /\ pc[t] \in SleepPCs /\ notified[t] =>
          semaphore[t] = 1 \/ \E p \in Producers : pc[p] = "n_post" /\ waiter[p] = t

\* A notifier posts the semaphore of the waiter that it has unlinked.
PostAt(p) == pc[p] = "n_post" =>
    /\ waiter[p] \in Consumers /\ semaphore[waiter[p]] = 0 /\ notified[waiter[p]]
    /\ impl[waiter[p]] = impl[p] /\ pc[waiter[p]] \in SleepPCs

\* While a condition is being destroyed only waits that were under way go on,
\* and with a deadline only those that nobody has notified.
DestroyAt(p, t) == pc[p] \in DestroyPCs =>
    /\ pc[t] \in NotifyPCs \union DestroyPCs => t = p \/ pc[t] = "n_call"
    /\ pc[t] \notin {"w_append", "w_unlock", "w_put"}
    /\ t \in Consumers /\ pc[t] \in SleepPCs /\ timed[t] => ~notified[t]
EmptyAt(p) == pc[p] = "d_delete" /\ ~busy[p] => \A t \in Consumers : ~In(impl[p], t)

MutexInv == \A c \in Conditions, t \in Threads : MutexAt(c, t)
ImplInv == \A t \in Threads : ImplAt(t)
HandleInv == \A c \in Conditions : HandleAt(c)
LinkInv == \A c \in Conditions, t \in Consumers : LinkAt(c, t)
ListInv == \A c \in Conditions : ListAt(c)
WaitInv == \A t \in Consumers : WaitAt(t)
PostInv == \A p \in Producers : PostAt(p)
DestroyInv == /\ \A p \in Producers, t \in Threads : DestroyAt(p, t)
              /\ \A p \in Producers : EmptyAt(p)

IInv == /\ TypeOK /\ MutexInv /\ ImplInv /\ HandleInv /\ LinkInv /\ ListInv /\ WaitInv
        /\ PostInv /\ DestroyInv

LEMMA InitIInv == Init => IInv
  BY ConstantsAssumption
     DEF Init, IInv, TypeOK, MutexInv, MutexAt, ImplInv, ImplAt, HandleInv, HandleAt,
     LinkInv, LinkAt, In, ListInv, ListAt, WaitInv, WaitAt, PostInv, PostAt, DestroyInv,
     DestroyAt, EmptyAt, UsesCondition, PCs, WaitPCs, NotifyPCs, DestroyPCs, HoldPCs,
     SleepPCs, Threads, Deleted

-----------------------------------------------------------------------------
(* What the operations on the list do.                                      *)

LEMMA AppendEffect ==
    ASSUME TypeOK, NEW t \in Consumers, impl[t] \in Conditions, Append_waiter(t)
    PROVE  /\ waiters' \in [Conditions -> Seq(Consumers)]
           /\ \A c \in Conditions, u \in Consumers :
                 In(c, u)' <=> In(c, u) \/ (c = impl[t] /\ u = t)
           /\ ListInv /\ ~In(impl[t], t) => ListInv'
  <1> DEFINE k == impl[t]
             s == waiters[k]
  <1>1. waiters \in [Conditions -> Seq(Consumers)] /\ k \in Conditions /\ s \in Seq(Consumers)
    BY DEF TypeOK
  <1>2. /\ Append(s, t) \in Seq(Consumers) /\ Len(Append(s, t)) = Len(s) + 1
        /\ Len(s) \in Nat
        /\ \A i \in 1..Len(s) : Append(s, t)[i] = s[i]
        /\ Append(s, t)[Len(s) + 1] = t
    BY <1>1
  <1>3. waiters' = [waiters EXCEPT ![k] = Append(s, t)]
    BY DEF Append_waiter
  <1>4. waiters'[k] = Append(s, t) /\ \A c \in Conditions \ {k} : waiters'[c] = waiters[c]
    BY <1>1, <1>3
  <1>5. \A u \in Consumers : In(k, u) <=> \E i \in 1..Len(s) : s[i] = u
    BY DEF In
  <1> HIDE DEF k, s
  <1>6. ASSUME NEW c \in Conditions, NEW u \in Consumers
        PROVE  In(c, u)' <=> In(c, u) \/ (c = k /\ u = t)
    <2>1. CASE c # k
      BY <2>1, <1>4 DEF In
    <2>2. CASE c = k
      <3>1. In(c, u)' <=> \E i \in 1..(Len(s) + 1) : Append(s, t)[i] = u
        BY <2>2, <1>2, <1>4 DEF In
      <3>2. \A i : i \in 1..(Len(s) + 1) <=> i \in 1..Len(s) \/ i = Len(s) + 1
        BY <1>2
      <3> QED
        BY <2>2, <3>1, <3>2, <1>2, <1>5
    <2> QED
      BY <2>1, <2>2
  <1>7. ASSUME ListInv, ~In(k, t), NEW c \in Conditions
        PROVE  ListAt(c)'
    <2>1. CASE c # k
      BY <2>1, <1>4, <1>7 DEF ListInv, ListAt
    <2>2. CASE c = k
      <3>1. \A i, j \in 1..Len(s) : s[i] = s[j] => i = j
        BY <1>1, <1>7 DEF ListInv, ListAt, s
      <3>2. \A i \in 1..Len(s) : s[i] # t
        BY <1>1, <1>5, <1>7
      <3>3. \A i : i \in 1..(Len(s) + 1) <=> i \in 1..Len(s) \/ i = Len(s) + 1
        BY <1>2
      <3> QED
        BY <2>2, <3>1, <3>2, <3>3, <1>2, <1>4 DEF ListAt
    <2> QED
      BY <2>1, <2>2
  <1>8. waiters' \in [Conditions -> Seq(Consumers)]
    BY <1>1, <1>2, <1>3
  <1> QED
    BY <1>6, <1>7, <1>8 DEF ListInv, k

LEMMA RemoveEffect ==
    ASSUME TypeOK, ListInv, NEW t \in Threads, NEW w \in Consumers, impl[t] \in Conditions,
           Remove_waiter(t, w)
    PROVE  /\ waiters' \in [Conditions -> Seq(Consumers)]
           /\ \A c \in Conditions, u \in Consumers :
                 In(c, u)' <=> In(c, u) /\ ~(c = impl[t] /\ u = w)
           /\ ListInv'
  <1> DEFINE k == impl[t]
             s == waiters[k]
  <1>1. waiters \in [Conditions -> Seq(Consumers)] /\ k \in Conditions /\ s \in Seq(Consumers)
    BY DEF TypeOK
  <1>2. PICK i \in 1..Len(s) : s[i] = w /\ waiters' = [waiters EXCEPT ![k] = RemoveAt(s, i)]
    BY DEF Remove_waiter
  <1>3. \A m, n \in 1..Len(s) : s[m] = s[n] => m = n
    BY <1>1 DEF ListInv, ListAt
  <1>4. \A u \in Consumers : In(k, u) <=> \E m \in 1..Len(s) : s[m] = u
    BY DEF In
  <1> DEFINE r == RemoveAt(s, i)
  <1> HIDE DEF k, s
  <1>5. /\ r \in Seq(Consumers) /\ Len(r) = Len(s) - 1 /\ Len(s) \in Nat
        /\ \A j \in 1..(Len(s) - 1) : r[j] = IF j < i THEN s[j] ELSE s[j + 1]
    BY <1>1, RemoveAtResult
  <1> HIDE DEF r
  <1>6. waiters'[k] = r /\ \A c \in Conditions \ {k} : waiters'[c] = waiters[c]
    BY <1>1, <1>2 DEF r
  <1>7. waiters' \in [Conditions -> Seq(Consumers)]
    BY <1>1, <1>2, <1>5 DEF r
  <1>8. ASSUME NEW j \in 1..(Len(s) - 1)
        PROVE  \E m \in 1..Len(s) : r[j] = s[m] /\ m = (IF j < i THEN j ELSE j + 1)
    BY <1>5, <1>8
  <1>9. ASSUME NEW m \in 1..Len(s), m # i
        PROVE  \E j \in 1..(Len(s) - 1) : r[j] = s[m]
    <2>1. CASE m < i
      BY <2>1, <1>5, <1>9
    <2>2. CASE m > i
      <3>1. m - 1 \in 1..(Len(s) - 1) /\ ~(m - 1 < i) /\ (m - 1) + 1 = m
        BY <2>2, <1>5
      <3> QED
        BY <3>1, <1>5
    <2> QED
      BY <2>1, <2>2, <1>9, <1>5
  <1>10. ASSUME NEW c \in Conditions, NEW u \in Consumers
         PROVE  In(c, u)' <=> In(c, u) /\ ~(c = k /\ u = w)
    <2>1. CASE c # k
      BY <2>1, <1>6 DEF In
    <2>2. CASE c = k
      <3>1. In(c, u)' <=> \E j \in 1..(Len(s) - 1) : r[j] = u
        BY <2>2, <1>5, <1>6 DEF In
      <3>2. u = w => ~ \E j \in 1..(Len(s) - 1) : r[j] = u
        <4> SUFFICES ASSUME NEW j \in 1..(Len(s) - 1), r[j] = w
                     PROVE  FALSE
          OBVIOUS
        <4> QED
          BY <1>2, <1>3, <1>5, <1>8
      <3> QED
        BY ZenonT(30), <2>2, <3>1, <3>2, <1>2, <1>4, <1>8, <1>9
    <2> QED
      BY <2>1, <2>2
  <1>11. ASSUME NEW c \in Conditions
         PROVE  ListAt(c)'
    <2>1. CASE c # k
      BY <2>1, <1>6 DEF ListInv, ListAt
    <2>2. CASE c = k
      <3> SUFFICES ASSUME NEW m \in 1..(Len(s) - 1), NEW n \in 1..(Len(s) - 1), r[m] = r[n]
                   PROVE  m = n
        BY <2>2, <1>5, <1>6 DEF ListAt
      <3>1. PICK p \in 1..Len(s) : r[m] = s[p] /\ p = (IF m < i THEN m ELSE m + 1)
        BY <1>8
      <3>2. PICK q \in 1..Len(s) : r[n] = s[q] /\ q = (IF n < i THEN n ELSE n + 1)
        BY <1>8
      <3>3. p = q
        BY <3>1, <3>2, <1>3
      <3>4. m \in Int /\ n \in Int
        BY <1>5
      <3> QED
        BY <3>1, <3>2, <3>3, <3>4
    <2> QED
      BY <2>1, <2>2
  <1> QED
    BY <1>7, <1>10, <1>11 DEF ListInv, k

\* condition_signal and condition_broadcast unlink the first waiter of the list.
UnlinksWaiter(p, w) ==
    /\ pc[p] = "n_locked" /\ impl[p] \in Conditions
    /\ impl[w] = impl[p] /\ pc[w] \in {"w_get", "w_timeout"} /\ ~notified[w]
    /\ semaphore[w] = 0 /\ memory[impl[w]] = "live"
    /\ waiter' = [waiter EXCEPT ![p] = w]
    /\ notified' = [notified EXCEPT ![w] = TRUE]
    /\ pc' = [pc EXCEPT ![p] = "n_post"]
    /\ \A c \in Conditions, u \in Consumers :
          In(c, u)' <=> In(c, u) /\ ~(c = impl[p] /\ u = w)
    /\ ListInv'
    /\ waiters' \in [Conditions -> Seq(Consumers)]
    /\ UNCHANGED <<impl, timed, wait_status, semaphore, implementation, memory, mutex,
                   busy, notice, user_mutex, items>>

LEMMA UnlinkEffect ==
    ASSUME IInv, NEW p \in Producers, NotifyUnlinks(p)
    PROVE  \E w \in Consumers : UnlinksWaiter(p, w)
  <1> DEFINE k == impl[p]
             w == Head(waiters[k])
  <1>1. p \in Threads /\ pc[p] = "n_locked" /\ k \in Conditions
    BY DEF NotifyUnlinks, IInv, ImplInv, ImplAt, NotifyPCs, Threads
  <1>2. waiters[k] \in Seq(Consumers) /\ waiters[k] # <<>>
    BY <1>1 DEF NotifyUnlinks, IInv, TypeOK
  <1>3. w \in Consumers /\ In(k, w)
    <2>1. 1 \in 1..Len(waiters[k]) /\ w = waiters[k][1] /\ w \in Consumers
      BY <1>2
    <2> QED
      BY <2>1 DEF In
  <1>4. /\ impl[w] = k /\ ~notified[w] /\ semaphore[w] = 0 /\ memory[k] = "live"
        /\ pc[w] \in {"w_get", "w_timeout"}
    <2>1. /\ impl[w] = k /\ pc[w] \in SleepPCs /\ ~notified[w] /\ semaphore[w] = 0
          /\ memory[k] = "live"
      BY <1>1, <1>3 DEF IInv, LinkInv, LinkAt, WaitInv, WaitAt, SleepPCs, WaitPCs
    <2>2. mutex[k] = p /\ p # w /\ w \in Threads
      BY <1>1, <1>3, ConstantsAssumption DEF IInv, MutexInv, MutexAt, HoldPCs, Threads
    <2>3. pc[w] \notin HoldPCs
      BY <1>1, <2>1, <2>2 DEF IInv, MutexInv, MutexAt
    <2> QED
      BY <2>1, <2>3 DEF SleepPCs, HoldPCs
  <1>5. Remove_waiter(p, w)
    BY DEF NotifyUnlinks
  <1>6. /\ \A c \in Conditions, u \in Consumers :
              In(c, u)' <=> In(c, u) /\ ~(c = k /\ u = w)
        /\ ListInv' /\ waiters' \in [Conditions -> Seq(Consumers)]
    <2>1. TypeOK /\ ListInv
      BY DEF IInv
    <2> QED
      BY <1>1, <1>3, <1>5, <2>1, RemoveEffect
  <1>7. /\ waiter' = [waiter EXCEPT ![p] = w] /\ notified' = [notified EXCEPT ![w] = TRUE]
        /\ pc' = [pc EXCEPT ![p] = "n_post"]
        /\ UNCHANGED <<impl, timed, wait_status, semaphore, implementation, memory, mutex,
                       busy, notice, user_mutex, items>>
    BY DEF NotifyUnlinks, Go, waitVars, handleVars, appVars
  <1> QED
    BY <1>1, <1>3, <1>4, <1>6, <1>7 DEF UnlinksWaiter

\* A waiter that times out before it is notified leaves the list.
Leaves(t) ==
    /\ pc[t] = "w_resolve" /\ ~notified[t] /\ impl[t] \in Conditions
    /\ wait_status[t] = "ETIMEDOUT"
    /\ pc' = [pc EXCEPT ![t] = "w_delete"]
    /\ \A c \in Conditions, u \in Consumers : In(c, u)' <=> In(c, u) /\ ~(c = impl[t] /\ u = t)
    /\ ListInv' /\ waiters' \in [Conditions -> Seq(Consumers)]
    /\ UNCHANGED <<impl, timed, wait_status, semaphore, notified, notice, waiter, busy,
                   implementation, memory, user_mutex, items>>

LEMMA LeaveEffect ==
    ASSUME IInv, NEW t \in Consumers, TimeoutLeaves(t)
    PROVE  Leaves(t)
  <1>1. /\ pc[t] = "w_resolve" /\ t \in Threads /\ impl[t] \in Conditions
        /\ wait_status[t] = "ETIMEDOUT"
    BY DEF TimeoutLeaves, IInv, ImplInv, ImplAt, WaitInv, WaitAt, WaitPCs, Threads
  <1>2. In(impl[t], t)
    BY DEF TimeoutLeaves, Linked, In
  <1>3. ~notified[t]
    BY <1>1, <1>2 DEF IInv, LinkInv, LinkAt
  <1>4. TypeOK /\ ListInv /\ Remove_waiter(t, t) /\ pc' = [pc EXCEPT ![t] = "w_delete"]
    BY DEF IInv, TimeoutLeaves, Go
  <1>5. UNCHANGED <<impl, timed, wait_status, semaphore, notified, notice, waiter, busy,
                    implementation, memory, user_mutex, items>>
    BY DEF TimeoutLeaves, waitVars, notifyVars, handleVars, appVars
  <1>6. /\ waiters' \in [Conditions -> Seq(Consumers)] /\ ListInv'
        /\ \A c \in Conditions, u \in Consumers :
              In(c, u)' <=> In(c, u) /\ ~(c = impl[t] /\ u = t)
    BY <1>1, <1>4, RemoveEffect
  <1> QED
    BY <1>1, <1>3, <1>4, <1>5, <1>6 DEF Leaves

\* A waiter that times out after it was notified takes the notification, which
\* has been posted because the notifier held the condition's mutex until then.
TakesNotice(t) ==
    /\ pc[t] = "w_resolve" /\ notified[t] /\ semaphore[t] = 1
    /\ semaphore' = [semaphore EXCEPT ![t] = 0]
    /\ wait_status' = [wait_status EXCEPT ![t] = "0"]
    /\ pc' = [pc EXCEPT ![t] = "w_delete"]
    /\ UNCHANGED <<impl, timed, notified, notice, waiter, busy, implementation, memory,
                   waiters, user_mutex, items>>

LEMMA NotifiedEffect ==
    ASSUME IInv, NEW t \in Consumers, TimeoutIsNotified(t)
    PROVE  TakesNotice(t)
  <1>1. /\ pc[t] = "w_resolve" /\ t \in Threads /\ impl[t] \in Conditions
        /\ pc' = [pc EXCEPT ![t] = "w_delete"]
    BY DEF TimeoutIsNotified, Go, IInv, ImplInv, ImplAt, WaitPCs, Threads
  <1>2. ~In(impl[t], t)
    BY DEF TimeoutIsNotified, Linked, In
  <1>3. notified[t]
    BY <1>1, <1>2 DEF IInv, LinkInv, LinkAt, SleepPCs
  <1>4. ASSUME NEW p \in Producers, pc[p] = "n_post", waiter[p] = t
        PROVE  FALSE
    <2>1. impl[p] = impl[t] /\ p \in Threads
      BY <1>4 DEF IInv, PostInv, PostAt, Threads
    <2>2. mutex[impl[t]] = t /\ mutex[impl[t]] = p
      BY <1>1, <1>4, <2>1 DEF IInv, MutexInv, MutexAt, HoldPCs
    <2> QED
      BY <2>2, ConstantsAssumption
  <1>5. semaphore[t] = 1
    BY <1>1, <1>3, <1>4 DEF IInv, WaitInv, WaitAt, SleepPCs
  <1>6. semaphore' = [semaphore EXCEPT ![t] = 0] /\ wait_status' = [wait_status EXCEPT ![t] = "0"]
    BY <1>5 DEF TimeoutIsNotified
  <1>7. UNCHANGED <<impl, timed, notified, notice, waiter, busy, implementation, memory,
                    waiters, user_mutex, items>>
    BY DEF TimeoutIsNotified, notifyVars, handleVars, appVars
  <1> QED
    BY <1>1, <1>3, <1>5, <1>6, <1>7 DEF TakesNotice


-----------------------------------------------------------------------------
(* The steps keep the invariant.                                            *)

\* No step breaks a type.
LEMMA TypeStep ==
    ASSUME IInv, Next
    PROVE  TypeOK'
  <1>e. /\ \A t \in Consumers : TimeoutLeaves(t) => Leaves(t)
        /\ \A t \in Consumers : TimeoutIsNotified(t) => TakesNotice(t)
        /\ \A p \in Producers : NotifyUnlinks(p) => \E w \in Consumers : UnlinksWaiter(p, w)
    BY LeaveEffect, NotifiedEffect, UnlinkEffect
  <1> USE ConstantsAssumption DEF IInv, TypeOK, ImplInv, ImplAt, UsesCondition, PCs,
    WaitPCs, NotifyPCs, DestroyPCs, HoldPCs, SleepPCs, Threads, Deleted, Go, Acquire,
    Release, AcquireUser, ReleaseUser, ProducerReturns, waitVars, notifyVars,
    handleVars, appVars
  <1>1. ASSUME NEW t \in Threads, Lock(t)
        PROVE  TypeOK'
    BY <1>1 DEF Lock
  <1>2. ASSUME NEW t \in Consumers, Take(t)
        PROVE  TypeOK'
    BY <1>2 DEF Take
  <1>3. ASSUME NEW t \in Consumers, GiveUp(t)
        PROVE  TypeOK'
    BY <1>3 DEF GiveUp
  <1>4. ASSUME NEW t \in Consumers, Wait(t)
        PROVE  TypeOK'
    <2>1. PICK c \in Conditions, d \in BOOLEAN :
             /\ implementation' = c /\ memory' = [memory EXCEPT ![c] = "live"]
             /\ impl' = [impl EXCEPT ![t] = c] /\ timed' = [timed EXCEPT ![t] = d]
      BY <1>4 DEF Wait
    <2>2. /\ semaphore' = [semaphore EXCEPT ![t] = 0]
          /\ pc' = [pc EXCEPT ![t] = "w_append"]
          /\ UNCHANGED <<wait_status, notified, notifyVars, mutex, waiters, appVars>>
      BY <1>4 DEF Wait
    <2> QED
      BY <2>1, <2>2
  <1>5. ASSUME NEW t \in Consumers, WaitAppends(t)
        PROVE  TypeOK'
    <2>1. impl[t] \in Conditions /\ t \in Threads /\ TypeOK
      BY <1>5 DEF WaitAppends
    <2>2. waiters' \in [Conditions -> Seq(Consumers)]
      BY <1>5, <2>1, AppendEffect DEF WaitAppends
    <2> QED
      BY <1>5, <2>1, <2>2 DEF WaitAppends
  <1>6. ASSUME NEW t \in Consumers, WaitUnlocks(t)
        PROVE  TypeOK'
    BY <1>6 DEF WaitUnlocks
  <1>7. ASSUME NEW t \in Consumers, WaitPuts(t)
        PROVE  TypeOK'
    BY <1>7 DEF WaitPuts
  <1>8. ASSUME NEW t \in Consumers, WaitGets(t)
        PROVE  TypeOK'
    BY <1>8 DEF WaitGets
  <1>9. ASSUME NEW t \in Consumers, WaitTimesOut(t)
        PROVE  TypeOK'
    BY <1>9 DEF WaitTimesOut
  <1>10. ASSUME NEW t \in Consumers, TimeoutLocks(t)
        PROVE  TypeOK'
    BY <1>10 DEF TimeoutLocks
  <1>11. ASSUME NEW t \in Consumers, TimeoutLeaves(t)
        PROVE  TypeOK'
    <2>1. impl[t] \in Conditions /\ t \in Threads /\ TypeOK
      BY <1>11 DEF TimeoutLeaves
    <2>2. waiters' \in [Conditions -> Seq(Consumers)]
      BY <1>11, <2>1, RemoveEffect DEF TimeoutLeaves
    <2> QED
      BY <1>11, <2>1, <2>2 DEF TimeoutLeaves
  <1>12. ASSUME NEW t \in Consumers, TimeoutIsNotified(t)
        PROVE  TypeOK'
    <2>1. TakesNotice(t)
      BY <1>12, <1>e
    <2> QED
      BY <1>12, <2>1 DEF TakesNotice, TimeoutIsNotified
  <1>13. ASSUME NEW t \in Consumers, WaitDeletes(t)
        PROVE  TypeOK'
    BY <1>13 DEF WaitDeletes
  <1>14. ASSUME NEW t \in Consumers, WaitReturns(t)
        PROVE  TypeOK'
    BY <1>14 DEF WaitReturns
  <1>15. ASSUME NEW p \in Producers, Put(p)
        PROVE  TypeOK'
    <2>1. PICK n \in {"one", "all"} : notice' = [notice EXCEPT ![p] = n]
      BY <1>15 DEF Put
    <2>2. items' \in 0..MaxItems
      BY <1>15 DEF Put
    <2> QED
      BY <1>15, <2>1, <2>2 DEF Put
  <1>16. ASSUME NEW p \in Producers, NotifyNothing(p)
        PROVE  TypeOK'
    BY <1>16 DEF NotifyNothing
  <1>17. ASSUME NEW p \in Producers, Notify(p)
        PROVE  TypeOK'
    BY <1>17 DEF Notify
  <1>18. ASSUME NEW p \in Producers, NotifyLocks(p)
        PROVE  TypeOK'
    BY <1>18 DEF NotifyLocks
  <1>19. ASSUME NEW p \in Producers, NotifyUnlinks(p)
        PROVE  TypeOK'
    <2>1. impl[p] \in Conditions /\ p \in Threads /\ TypeOK
      BY <1>19 DEF NotifyUnlinks
    <2>2. Head(waiters[impl[p]]) \in Consumers
      BY <1>19, <2>1 DEF NotifyUnlinks
    <2>3. waiters' \in [Conditions -> Seq(Consumers)]
      BY <1>19, <2>1, <2>2, RemoveEffect DEF NotifyUnlinks
    <2> QED
      BY <1>19, <2>1, <2>2, <2>3 DEF NotifyUnlinks
  <1>20. ASSUME NEW p \in Producers, NotifyPosts(p)
        PROVE  TypeOK'
    <2>1. waiter[p] \in Consumers /\ semaphore[waiter[p]] = 0
      BY <1>20 DEF NotifyPosts, PostInv, PostAt
    <2> QED
      BY <1>20, <2>1 DEF NotifyPosts
  <1>21. ASSUME NEW p \in Producers, NotifyEnds(p)
        PROVE  TypeOK'
    BY <1>21 DEF NotifyEnds
  <1>22. ASSUME NEW p \in Producers, Destroy(p)
        PROVE  TypeOK'
    BY <1>22 DEF Destroy
  <1>23. ASSUME NEW p \in Producers, DestroyLocks(p)
        PROVE  TypeOK'
    BY <1>23 DEF DestroyLocks
  <1>24. ASSUME NEW p \in Producers, DestroyLooks(p)
        PROVE  TypeOK'
    BY <1>24 DEF DestroyLooks
  <1>25. ASSUME NEW p \in Producers, DestroyIsBusy(p)
        PROVE  TypeOK'
    BY <1>25 DEF DestroyIsBusy
  <1>26. ASSUME NEW p \in Producers, DestroyDeletes(p)
        PROVE  TypeOK'
    BY <1>26 DEF DestroyDeletes
  <1> HIDE DEF TypeOK
  <1> QED
    BY <1>1, <1>2, <1>3, <1>4, <1>5, <1>6, <1>7, <1>8, <1>9, <1>10, <1>11, <1>12,
      <1>13, <1>14, <1>15, <1>16, <1>17, <1>18, <1>19, <1>20, <1>21, <1>22, <1>23,
      <1>24, <1>25, <1>26
       DEF Next, WaitSteps, NotifySteps, DestroySteps

\* The types that the steps below need.
Types ==
    /\ pc \in [Threads -> PCs] /\ impl \in [Threads -> Conditions \union {None}]
    /\ mutex \in [Conditions -> Threads \union {None}]
    /\ memory \in [Conditions -> {"unused", "live", "freed"}]
    /\ implementation \in Conditions \union {None}
    /\ notified \in [Consumers -> BOOLEAN] /\ timed \in [Consumers -> BOOLEAN]
    /\ semaphore \in [Consumers -> {Deleted, 0, 1}]
    /\ wait_status \in [Consumers -> {"0", "ETIMEDOUT"}]
    /\ waiter \in [Producers -> Consumers \union {None}]
    /\ busy \in [Producers -> BOOLEAN]

LEMMA TypesHold == IInv => Types
  BY DEF IInv, TypeOK, Types

\* The condition's mutex excludes.
LEMMA MutexStep ==
    ASSUME IInv, TypeOK', Next, NEW y \in Conditions, NEW x \in Threads
    PROVE  MutexAt(y, x)'
  <1> USE ConstantsAssumption, TypesHold DEF Types, MutexAt, ImplAt, MutexInv,
    ImplInv, IInv, UsesCondition, PCs, WaitPCs, NotifyPCs, DestroyPCs, HoldPCs,
    SleepPCs, Threads, Deleted, Go, Acquire, Release, AcquireUser, ReleaseUser,
    ProducerReturns, waitVars, notifyVars, handleVars, appVars
  <1>1. ASSUME NEW t \in Threads, Lock(t)
        PROVE  MutexAt(y, x)'
    BY <1>1 DEF Lock
  <1>2. ASSUME NEW t \in Consumers, Take(t)
        PROVE  MutexAt(y, x)'
    BY <1>2 DEF Take
  <1>3. ASSUME NEW t \in Consumers, GiveUp(t)
        PROVE  MutexAt(y, x)'
    BY <1>3 DEF GiveUp
  <1>4. ASSUME NEW t \in Consumers, Wait(t)
        PROVE  MutexAt(y, x)'
    BY <1>4 DEF Wait
  <1>5. ASSUME NEW t \in Consumers, WaitAppends(t)
        PROVE  MutexAt(y, x)'
    BY <1>5 DEF WaitAppends
  <1>6. ASSUME NEW t \in Consumers, WaitUnlocks(t)
        PROVE  MutexAt(y, x)'
    BY <1>6 DEF WaitUnlocks
  <1>7. ASSUME NEW t \in Consumers, WaitPuts(t)
        PROVE  MutexAt(y, x)'
    BY <1>7 DEF WaitPuts
  <1>8. ASSUME NEW t \in Consumers, WaitGets(t)
        PROVE  MutexAt(y, x)'
    BY <1>8 DEF WaitGets
  <1>9. ASSUME NEW t \in Consumers, WaitTimesOut(t)
        PROVE  MutexAt(y, x)'
    BY <1>9 DEF WaitTimesOut
  <1>10. ASSUME NEW t \in Consumers, TimeoutLocks(t)
        PROVE  MutexAt(y, x)'
    BY <1>10 DEF TimeoutLocks
  <1>11. ASSUME NEW t \in Consumers, TimeoutLeaves(t)
        PROVE  MutexAt(y, x)'
    BY <1>11 DEF TimeoutLeaves
  <1>12. ASSUME NEW t \in Consumers, TimeoutIsNotified(t)
        PROVE  MutexAt(y, x)'
    BY <1>12 DEF TimeoutIsNotified
  <1>13. ASSUME NEW t \in Consumers, WaitDeletes(t)
        PROVE  MutexAt(y, x)'
    BY <1>13 DEF WaitDeletes
  <1>14. ASSUME NEW t \in Consumers, WaitReturns(t)
        PROVE  MutexAt(y, x)'
    BY <1>14 DEF WaitReturns
  <1>15. ASSUME NEW p \in Producers, Put(p)
        PROVE  MutexAt(y, x)'
    BY <1>15 DEF Put
  <1>16. ASSUME NEW p \in Producers, NotifyNothing(p)
        PROVE  MutexAt(y, x)'
    BY <1>16 DEF NotifyNothing
  <1>17. ASSUME NEW p \in Producers, Notify(p)
        PROVE  MutexAt(y, x)'
    BY <1>17 DEF Notify
  <1>18. ASSUME NEW p \in Producers, NotifyLocks(p)
        PROVE  MutexAt(y, x)'
    BY <1>18 DEF NotifyLocks
  <1>19. ASSUME NEW p \in Producers, NotifyUnlinks(p)
        PROVE  MutexAt(y, x)'
    BY <1>19 DEF NotifyUnlinks
  <1>20. ASSUME NEW p \in Producers, NotifyPosts(p)
        PROVE  MutexAt(y, x)'
    BY <1>20 DEF NotifyPosts
  <1>21. ASSUME NEW p \in Producers, NotifyEnds(p)
        PROVE  MutexAt(y, x)'
    BY <1>21 DEF NotifyEnds
  <1>22. ASSUME NEW p \in Producers, Destroy(p)
        PROVE  MutexAt(y, x)'
    BY <1>22 DEF Destroy
  <1>23. ASSUME NEW p \in Producers, DestroyLocks(p)
        PROVE  MutexAt(y, x)'
    BY <1>23 DEF DestroyLocks
  <1>24. ASSUME NEW p \in Producers, DestroyLooks(p)
        PROVE  MutexAt(y, x)'
    BY <1>24 DEF DestroyLooks
  <1>25. ASSUME NEW p \in Producers, DestroyIsBusy(p)
        PROVE  MutexAt(y, x)'
    BY <1>25 DEF DestroyIsBusy
  <1>26. ASSUME NEW p \in Producers, DestroyDeletes(p)
        PROVE  MutexAt(y, x)'
    BY <1>26 DEF DestroyDeletes
  <1> HIDE DEF MutexAt
  <1> QED
    BY <1>1, <1>2, <1>3, <1>4, <1>5, <1>6, <1>7, <1>8, <1>9, <1>10, <1>11, <1>12,
      <1>13, <1>14, <1>15, <1>16, <1>17, <1>18, <1>19, <1>20, <1>21, <1>22, <1>23,
      <1>24, <1>25, <1>26
       DEF Next, WaitSteps, NotifySteps, DestroySteps

\* A condition exists as long as it is used.
LEMMA ImplStep ==
    ASSUME IInv, TypeOK', Next, NEW x \in Threads
    PROVE  ImplAt(x)'
  <1> USE ConstantsAssumption, TypesHold DEF Types, ImplAt, ImplInv, HandleInv,
    HandleAt, WaitInv, WaitAt, IInv, UsesCondition, PCs, WaitPCs, NotifyPCs,
    DestroyPCs, HoldPCs, SleepPCs, Threads, Deleted, Go, Acquire, Release,
    AcquireUser, ReleaseUser, ProducerReturns, waitVars, notifyVars, handleVars,
    appVars
  <1>1. ASSUME NEW t \in Threads, Lock(t)
        PROVE  ImplAt(x)'
    BY <1>1 DEF Lock
  <1>2. ASSUME NEW t \in Consumers, Take(t)
        PROVE  ImplAt(x)'
    BY <1>2 DEF Take
  <1>3. ASSUME NEW t \in Consumers, GiveUp(t)
        PROVE  ImplAt(x)'
    BY <1>3 DEF GiveUp
  <1>4. ASSUME NEW t \in Consumers, Wait(t)
        PROVE  ImplAt(x)'
    BY <1>4 DEF Wait
  <1>5. ASSUME NEW t \in Consumers, WaitAppends(t)
        PROVE  ImplAt(x)'
    BY <1>5 DEF WaitAppends
  <1>6. ASSUME NEW t \in Consumers, WaitUnlocks(t)
        PROVE  ImplAt(x)'
    BY <1>6 DEF WaitUnlocks
  <1>7. ASSUME NEW t \in Consumers, WaitPuts(t)
        PROVE  ImplAt(x)'
    BY <1>7 DEF WaitPuts
  <1>8. ASSUME NEW t \in Consumers, WaitGets(t)
        PROVE  ImplAt(x)'
    BY <1>8 DEF WaitGets
  <1>9. ASSUME NEW t \in Consumers, WaitTimesOut(t)
        PROVE  ImplAt(x)'
    BY <1>9 DEF WaitTimesOut
  <1>10. ASSUME NEW t \in Consumers, TimeoutLocks(t)
        PROVE  ImplAt(x)'
    BY <1>10 DEF TimeoutLocks
  <1>11. ASSUME NEW t \in Consumers, TimeoutLeaves(t)
        PROVE  ImplAt(x)'
    BY <1>11 DEF TimeoutLeaves
  <1>12. ASSUME NEW t \in Consumers, TimeoutIsNotified(t)
        PROVE  ImplAt(x)'
    BY <1>12 DEF TimeoutIsNotified
  <1>13. ASSUME NEW t \in Consumers, WaitDeletes(t)
        PROVE  ImplAt(x)'
    BY <1>13 DEF WaitDeletes
  <1>14. ASSUME NEW t \in Consumers, WaitReturns(t)
        PROVE  ImplAt(x)'
    BY <1>14 DEF WaitReturns
  <1>15. ASSUME NEW p \in Producers, Put(p)
        PROVE  ImplAt(x)'
    BY <1>15 DEF Put
  <1>16. ASSUME NEW p \in Producers, NotifyNothing(p)
        PROVE  ImplAt(x)'
    BY <1>16 DEF NotifyNothing
  <1>17. ASSUME NEW p \in Producers, Notify(p)
        PROVE  ImplAt(x)'
    BY <1>17 DEF Notify
  <1>18. ASSUME NEW p \in Producers, NotifyLocks(p)
        PROVE  ImplAt(x)'
    BY <1>18 DEF NotifyLocks
  <1>19. ASSUME NEW p \in Producers, NotifyUnlinks(p)
        PROVE  ImplAt(x)'
    BY <1>19 DEF NotifyUnlinks
  <1>20. ASSUME NEW p \in Producers, NotifyPosts(p)
        PROVE  ImplAt(x)'
    BY <1>20 DEF NotifyPosts
  <1>21. ASSUME NEW p \in Producers, NotifyEnds(p)
        PROVE  ImplAt(x)'
    BY <1>21 DEF NotifyEnds
  <1>22. ASSUME NEW p \in Producers, Destroy(p)
        PROVE  ImplAt(x)'
    BY <1>22 DEF Destroy
  <1>23. ASSUME NEW p \in Producers, DestroyLocks(p)
        PROVE  ImplAt(x)'
    BY <1>23 DEF DestroyLocks
  <1>24. ASSUME NEW p \in Producers, DestroyLooks(p)
        PROVE  ImplAt(x)'
    BY <1>24 DEF DestroyLooks
  <1>25. ASSUME NEW p \in Producers, DestroyIsBusy(p)
        PROVE  ImplAt(x)'
    BY <1>25 DEF DestroyIsBusy
  <1>26. ASSUME NEW p \in Producers, DestroyDeletes(p)
        PROVE  ImplAt(x)'
    <2>1. /\ pc[p] = "d_delete" /\ p \in Threads
          /\ impl[p] \in Conditions
          /\ memory' = [memory EXCEPT ![impl[p]] = "freed"]
          /\ pc' = [pc EXCEPT ![p] = "user"] /\ impl' = [impl EXCEPT ![p] = None]
          /\ UNCHANGED <<notified, timed, semaphore, wait_status>>
      BY <1>26 DEF DestroyDeletes, waitVars
    <2>2. \A t \in Consumers : ~In(impl[p], t)
      BY <1>26 DEF DestroyDeletes, DestroyInv, EmptyAt
    <2>3. ASSUME NEW t \in Consumers, pc[t] \in SleepPCs, ~notified[t] \/ timed[t]
          PROVE  memory[impl[t]] = "live" /\ impl[t] # impl[p]
      BY <2>1, <2>2, <2>3 DEF DestroyInv, DestroyAt, LinkInv, LinkAt
    <2>4. UsesCondition(x) /\ x # p => x \in Consumers /\ pc[x] \in {"w_timeout", "w_resolve"}
      BY <2>1 DEF DestroyInv, DestroyAt
    <2> QED
      BY <2>1, <2>3, <2>4
  <1> HIDE DEF ImplAt
  <1> QED
    BY <1>1, <1>2, <1>3, <1>4, <1>5, <1>6, <1>7, <1>8, <1>9, <1>10, <1>11, <1>12,
      <1>13, <1>14, <1>15, <1>16, <1>17, <1>18, <1>19, <1>20, <1>21, <1>22, <1>23,
      <1>24, <1>25, <1>26
       DEF Next, WaitSteps, NotifySteps, DestroySteps

\* The handle refers to the one condition that exists.
LEMMA HandleStep ==
    ASSUME IInv, TypeOK', Next, NEW x \in Conditions
    PROVE  HandleAt(x)'
  <1> USE ConstantsAssumption, TypesHold DEF Types, ImplAt, ImplInv, HandleInv,
    HandleAt, IInv, UsesCondition, PCs, WaitPCs, NotifyPCs, DestroyPCs, HoldPCs,
    SleepPCs, Threads, Deleted, Go, Acquire, Release, AcquireUser, ReleaseUser,
    ProducerReturns, waitVars, notifyVars, handleVars, appVars
  <1>1. ASSUME NEW t \in Threads, Lock(t)
        PROVE  HandleAt(x)'
    BY <1>1 DEF Lock
  <1>2. ASSUME NEW t \in Consumers, Take(t)
        PROVE  HandleAt(x)'
    BY <1>2 DEF Take
  <1>3. ASSUME NEW t \in Consumers, GiveUp(t)
        PROVE  HandleAt(x)'
    BY <1>3 DEF GiveUp
  <1>4. ASSUME NEW t \in Consumers, Wait(t)
        PROVE  HandleAt(x)'
    BY <1>4 DEF Wait
  <1>5. ASSUME NEW t \in Consumers, WaitAppends(t)
        PROVE  HandleAt(x)'
    BY <1>5 DEF WaitAppends
  <1>6. ASSUME NEW t \in Consumers, WaitUnlocks(t)
        PROVE  HandleAt(x)'
    BY <1>6 DEF WaitUnlocks
  <1>7. ASSUME NEW t \in Consumers, WaitPuts(t)
        PROVE  HandleAt(x)'
    BY <1>7 DEF WaitPuts
  <1>8. ASSUME NEW t \in Consumers, WaitGets(t)
        PROVE  HandleAt(x)'
    BY <1>8 DEF WaitGets
  <1>9. ASSUME NEW t \in Consumers, WaitTimesOut(t)
        PROVE  HandleAt(x)'
    BY <1>9 DEF WaitTimesOut
  <1>10. ASSUME NEW t \in Consumers, TimeoutLocks(t)
        PROVE  HandleAt(x)'
    BY <1>10 DEF TimeoutLocks
  <1>11. ASSUME NEW t \in Consumers, TimeoutLeaves(t)
        PROVE  HandleAt(x)'
    BY <1>11 DEF TimeoutLeaves
  <1>12. ASSUME NEW t \in Consumers, TimeoutIsNotified(t)
        PROVE  HandleAt(x)'
    BY <1>12 DEF TimeoutIsNotified
  <1>13. ASSUME NEW t \in Consumers, WaitDeletes(t)
        PROVE  HandleAt(x)'
    BY <1>13 DEF WaitDeletes
  <1>14. ASSUME NEW t \in Consumers, WaitReturns(t)
        PROVE  HandleAt(x)'
    BY <1>14 DEF WaitReturns
  <1>15. ASSUME NEW p \in Producers, Put(p)
        PROVE  HandleAt(x)'
    BY <1>15 DEF Put
  <1>16. ASSUME NEW p \in Producers, NotifyNothing(p)
        PROVE  HandleAt(x)'
    BY <1>16 DEF NotifyNothing
  <1>17. ASSUME NEW p \in Producers, Notify(p)
        PROVE  HandleAt(x)'
    BY <1>17 DEF Notify
  <1>18. ASSUME NEW p \in Producers, NotifyLocks(p)
        PROVE  HandleAt(x)'
    BY <1>18 DEF NotifyLocks
  <1>19. ASSUME NEW p \in Producers, NotifyUnlinks(p)
        PROVE  HandleAt(x)'
    BY <1>19 DEF NotifyUnlinks
  <1>20. ASSUME NEW p \in Producers, NotifyPosts(p)
        PROVE  HandleAt(x)'
    BY <1>20 DEF NotifyPosts
  <1>21. ASSUME NEW p \in Producers, NotifyEnds(p)
        PROVE  HandleAt(x)'
    BY <1>21 DEF NotifyEnds
  <1>22. ASSUME NEW p \in Producers, Destroy(p)
        PROVE  HandleAt(x)'
    BY <1>22 DEF Destroy
  <1>23. ASSUME NEW p \in Producers, DestroyLocks(p)
        PROVE  HandleAt(x)'
    BY <1>23 DEF DestroyLocks
  <1>24. ASSUME NEW p \in Producers, DestroyLooks(p)
        PROVE  HandleAt(x)'
    BY <1>24 DEF DestroyLooks
  <1>25. ASSUME NEW p \in Producers, DestroyIsBusy(p)
        PROVE  HandleAt(x)'
    BY <1>25 DEF DestroyIsBusy
  <1>26. ASSUME NEW p \in Producers, DestroyDeletes(p)
        PROVE  HandleAt(x)'
    BY <1>26 DEF DestroyDeletes
  <1> HIDE DEF HandleAt
  <1> QED
    BY <1>1, <1>2, <1>3, <1>4, <1>5, <1>6, <1>7, <1>8, <1>9, <1>10, <1>11, <1>12,
      <1>13, <1>14, <1>15, <1>16, <1>17, <1>18, <1>19, <1>20, <1>21, <1>22, <1>23,
      <1>24, <1>25, <1>26
       DEF Next, WaitSteps, NotifySteps, DestroySteps

\* The list and the waits agree on who is in it.
LEMMA LinkStep ==
    ASSUME IInv, TypeOK', Next, NEW x \in Conditions, NEW y \in Consumers
    PROVE  LinkAt(x, y)'
  <1>0. UNCHANGED waiters => (In(x, y)' <=> In(x, y))
    BY DEF In
  <1>e. /\ \A t \in Consumers : TimeoutLeaves(t) => Leaves(t)
        /\ \A t \in Consumers : TimeoutIsNotified(t) => TakesNotice(t)
        /\ \A p \in Producers : NotifyUnlinks(p) => \E w \in Consumers : UnlinksWaiter(p, w)
    BY LeaveEffect, NotifiedEffect, UnlinkEffect
  <1> USE ConstantsAssumption, TypesHold, <1>0 DEF Types, ImplAt, ImplInv, LinkInv,
    LinkAt, WaitInv, WaitAt, IInv, UsesCondition, PCs, WaitPCs, NotifyPCs, DestroyPCs,
    HoldPCs, SleepPCs, Threads, Deleted, Go, Acquire, Release, AcquireUser,
    ReleaseUser, ProducerReturns, waitVars, notifyVars, handleVars, appVars
  <1>1. ASSUME NEW t \in Threads, Lock(t)
        PROVE  LinkAt(x, y)'
    BY <1>1 DEF Lock
  <1>2. ASSUME NEW t \in Consumers, Take(t)
        PROVE  LinkAt(x, y)'
    BY <1>2 DEF Take
  <1>3. ASSUME NEW t \in Consumers, GiveUp(t)
        PROVE  LinkAt(x, y)'
    BY <1>3 DEF GiveUp
  <1>4. ASSUME NEW t \in Consumers, Wait(t)
        PROVE  LinkAt(x, y)'
    BY <1>4 DEF Wait
  <1>5. ASSUME NEW t \in Consumers, WaitAppends(t)
        PROVE  LinkAt(x, y)'
    <2>1. impl[t] \in Conditions /\ TypeOK
      BY <1>5 DEF WaitAppends
    <2>2. In(x, y)' <=> In(x, y) \/ (x = impl[t] /\ y = t)
      BY <1>5, <2>1, AppendEffect DEF WaitAppends
    <2> QED
      BY <1>5, <2>1, <2>2 DEF WaitAppends
  <1>6. ASSUME NEW t \in Consumers, WaitUnlocks(t)
        PROVE  LinkAt(x, y)'
    BY <1>6 DEF WaitUnlocks
  <1>7. ASSUME NEW t \in Consumers, WaitPuts(t)
        PROVE  LinkAt(x, y)'
    BY <1>7 DEF WaitPuts
  <1>8. ASSUME NEW t \in Consumers, WaitGets(t)
        PROVE  LinkAt(x, y)'
    BY <1>8 DEF WaitGets
  <1>9. ASSUME NEW t \in Consumers, WaitTimesOut(t)
        PROVE  LinkAt(x, y)'
    BY <1>9 DEF WaitTimesOut
  <1>10. ASSUME NEW t \in Consumers, TimeoutLocks(t)
        PROVE  LinkAt(x, y)'
    BY <1>10 DEF TimeoutLocks
  <1>11. ASSUME NEW t \in Consumers, TimeoutLeaves(t)
        PROVE  LinkAt(x, y)'
    <2>1. Leaves(t)
      BY <1>11, <1>e
    <2> QED
      BY <2>1 DEF Leaves
  <1>12. ASSUME NEW t \in Consumers, TimeoutIsNotified(t)
        PROVE  LinkAt(x, y)'
    <2>1. TakesNotice(t)
      BY <1>12, <1>e
    <2> QED
      BY <2>1 DEF TakesNotice
  <1>13. ASSUME NEW t \in Consumers, WaitDeletes(t)
        PROVE  LinkAt(x, y)'
    BY <1>13 DEF WaitDeletes
  <1>14. ASSUME NEW t \in Consumers, WaitReturns(t)
        PROVE  LinkAt(x, y)'
    BY <1>14 DEF WaitReturns
  <1>15. ASSUME NEW p \in Producers, Put(p)
        PROVE  LinkAt(x, y)'
    BY <1>15 DEF Put
  <1>16. ASSUME NEW p \in Producers, NotifyNothing(p)
        PROVE  LinkAt(x, y)'
    BY <1>16 DEF NotifyNothing
  <1>17. ASSUME NEW p \in Producers, Notify(p)
        PROVE  LinkAt(x, y)'
    BY <1>17 DEF Notify
  <1>18. ASSUME NEW p \in Producers, NotifyLocks(p)
        PROVE  LinkAt(x, y)'
    BY <1>18 DEF NotifyLocks
  <1>19. ASSUME NEW p \in Producers, NotifyUnlinks(p)
        PROVE  LinkAt(x, y)'
    <2>1. PICK w \in Consumers : UnlinksWaiter(p, w)
      BY <1>19, <1>e
    <2> QED
      BY <2>1 DEF UnlinksWaiter
  <1>20. ASSUME NEW p \in Producers, NotifyPosts(p)
        PROVE  LinkAt(x, y)'
    BY <1>20 DEF NotifyPosts
  <1>21. ASSUME NEW p \in Producers, NotifyEnds(p)
        PROVE  LinkAt(x, y)'
    BY <1>21 DEF NotifyEnds
  <1>22. ASSUME NEW p \in Producers, Destroy(p)
        PROVE  LinkAt(x, y)'
    BY <1>22 DEF Destroy
  <1>23. ASSUME NEW p \in Producers, DestroyLocks(p)
        PROVE  LinkAt(x, y)'
    BY <1>23 DEF DestroyLocks
  <1>24. ASSUME NEW p \in Producers, DestroyLooks(p)
        PROVE  LinkAt(x, y)'
    BY <1>24 DEF DestroyLooks
  <1>25. ASSUME NEW p \in Producers, DestroyIsBusy(p)
        PROVE  LinkAt(x, y)'
    BY <1>25 DEF DestroyIsBusy
  <1>26. ASSUME NEW p \in Producers, DestroyDeletes(p)
        PROVE  LinkAt(x, y)'
    BY <1>26 DEF DestroyDeletes
  <1> HIDE DEF LinkAt
  <1> QED
    BY <1>1, <1>2, <1>3, <1>4, <1>5, <1>6, <1>7, <1>8, <1>9, <1>10, <1>11, <1>12,
      <1>13, <1>14, <1>15, <1>16, <1>17, <1>18, <1>19, <1>20, <1>21, <1>22, <1>23,
      <1>24, <1>25, <1>26
       DEF Next, WaitSteps, NotifySteps, DestroySteps

\* A wait's variables say how it goes on.
LEMMA WaitStep ==
    ASSUME IInv, TypeOK', Next, NEW x \in Consumers
    PROVE  WaitAt(x)'
  <1>e. /\ \A t \in Consumers : TimeoutLeaves(t) => Leaves(t)
        /\ \A t \in Consumers : TimeoutIsNotified(t) => TakesNotice(t)
        /\ \A p \in Producers : NotifyUnlinks(p) => \E w \in Consumers : UnlinksWaiter(p, w)
    BY LeaveEffect, NotifiedEffect, UnlinkEffect
  <1> USE ConstantsAssumption, TypesHold DEF Types, ImplAt, ImplInv, HandleInv,
    HandleAt, LinkInv, LinkAt, WaitInv, WaitAt, IInv, UsesCondition, PCs, WaitPCs,
    NotifyPCs, DestroyPCs, HoldPCs, SleepPCs, Threads, Deleted, Go, Acquire, Release,
    AcquireUser, ReleaseUser, ProducerReturns, waitVars, notifyVars, handleVars,
    appVars
  <1>1. ASSUME NEW t \in Threads, Lock(t)
        PROVE  WaitAt(x)'
    BY <1>1 DEF Lock
  <1>2. ASSUME NEW t \in Consumers, Take(t)
        PROVE  WaitAt(x)'
    BY <1>2 DEF Take
  <1>3. ASSUME NEW t \in Consumers, GiveUp(t)
        PROVE  WaitAt(x)'
    BY <1>3 DEF GiveUp
  <1>4. ASSUME NEW t \in Consumers, Wait(t)
        PROVE  WaitAt(x)'
    BY <1>4 DEF Wait
  <1>5. ASSUME NEW t \in Consumers, WaitAppends(t)
        PROVE  WaitAt(x)'
    BY <1>5 DEF WaitAppends
  <1>6. ASSUME NEW t \in Consumers, WaitUnlocks(t)
        PROVE  WaitAt(x)'
    BY <1>6 DEF WaitUnlocks
  <1>7. ASSUME NEW t \in Consumers, WaitPuts(t)
        PROVE  WaitAt(x)'
    BY <1>7 DEF WaitPuts
  <1>8. ASSUME NEW t \in Consumers, WaitGets(t)
        PROVE  WaitAt(x)'
    BY <1>8 DEF WaitGets
  <1>9. ASSUME NEW t \in Consumers, WaitTimesOut(t)
        PROVE  WaitAt(x)'
    BY <1>9 DEF WaitTimesOut
  <1>10. ASSUME NEW t \in Consumers, TimeoutLocks(t)
        PROVE  WaitAt(x)'
    BY <1>10 DEF TimeoutLocks
  <1>11. ASSUME NEW t \in Consumers, TimeoutLeaves(t)
        PROVE  WaitAt(x)'
    <2>1. Leaves(t)
      BY <1>11, <1>e
    <2> QED
      BY <2>1 DEF Leaves
  <1>12. ASSUME NEW t \in Consumers, TimeoutIsNotified(t)
        PROVE  WaitAt(x)'
    <2>1. TakesNotice(t)
      BY <1>12, <1>e
    <2> QED
      BY <2>1 DEF TakesNotice
  <1>13. ASSUME NEW t \in Consumers, WaitDeletes(t)
        PROVE  WaitAt(x)'
    BY <1>13 DEF WaitDeletes
  <1>14. ASSUME NEW t \in Consumers, WaitReturns(t)
        PROVE  WaitAt(x)'
    BY <1>14 DEF WaitReturns
  <1>15. ASSUME NEW p \in Producers, Put(p)
        PROVE  WaitAt(x)'
    BY <1>15 DEF Put
  <1>16. ASSUME NEW p \in Producers, NotifyNothing(p)
        PROVE  WaitAt(x)'
    BY <1>16 DEF NotifyNothing
  <1>17. ASSUME NEW p \in Producers, Notify(p)
        PROVE  WaitAt(x)'
    BY <1>17 DEF Notify
  <1>18. ASSUME NEW p \in Producers, NotifyLocks(p)
        PROVE  WaitAt(x)'
    BY <1>18 DEF NotifyLocks
  <1>19. ASSUME NEW p \in Producers, NotifyUnlinks(p)
        PROVE  WaitAt(x)'
    <2>1. PICK w \in Consumers : UnlinksWaiter(p, w)
      BY <1>19, <1>e
    <2>2. /\ pc'[p] = "n_post" /\ waiter'[p] = w /\ notified'[w] /\ pc[p] = "n_locked"
          /\ \A u \in Threads : u # p => pc'[u] = pc[u]
          /\ \A u \in Producers : u # p => waiter'[u] = waiter[u]
          /\ \A u \in Consumers : u # w => notified'[u] = notified[u]
          /\ UNCHANGED <<impl, timed, semaphore, wait_status, memory>>
          /\ p \in Threads /\ p # x
      BY <2>1 DEF UnlinksWaiter
    <2>3. CASE x = w
      BY <2>1, <2>2, <2>3 DEF UnlinksWaiter
    <2>4. CASE x # w
      <3>1. \A u \in Producers : pc[u] = "n_post" => pc'[u] = "n_post" /\ waiter'[u] = waiter[u]
        BY <2>2
      <3>2. pc'[x] = pc[x] /\ notified'[x] = notified[x]
        BY <2>2, <2>4
      <3>3. WaitAt(x)
        BY DEF WaitInv
      <3>4. UNCHANGED <<impl, timed, semaphore, wait_status, memory>>
        BY <2>2
      <3> HIDE DEF IInv, Types
      <3> QED
        BY <3>1, <3>2, <3>3, <3>4
    <2> QED
      BY <2>3, <2>4
  <1>20. ASSUME NEW p \in Producers, NotifyPosts(p)
        PROVE  WaitAt(x)'
    <2>1. waiter[p] \in Consumers /\ semaphore[waiter[p]] = 0 /\ notified[waiter[p]]
      BY <1>20 DEF NotifyPosts, PostInv, PostAt
    <2>2. x # waiter[p] => semaphore'[x] = semaphore[x]
      BY <1>20, <2>1 DEF NotifyPosts
    <2>3. semaphore'[waiter[p]] = 1
      BY <1>20, <2>1 DEF NotifyPosts
    <2>4. /\ \A u \in Threads : u # p => pc'[u] = pc[u]
          /\ pc'[p] \in {"n_locked", "n_unlock"} /\ pc[p] = "n_post"
          /\ UNCHANGED <<impl, timed, wait_status, notified, memory, waiter>>
      BY <1>20 DEF NotifyPosts
    <2> QED
      BY <2>1, <2>2, <2>3, <2>4
  <1>21. ASSUME NEW p \in Producers, NotifyEnds(p)
        PROVE  WaitAt(x)'
    <2>1. /\ p \in Threads /\ pc[p] # "n_post" /\ p # x
          /\ pc' = [pc EXCEPT ![p] = "user"] /\ impl' = [impl EXCEPT ![p] = None]
          /\ waiter' = [waiter EXCEPT ![p] = None]
          /\ UNCHANGED <<notified, timed, semaphore, wait_status, memory>>
      BY <1>21 DEF NotifyEnds
    <2> QED
      BY <2>1
  <1>22. ASSUME NEW p \in Producers, Destroy(p)
        PROVE  WaitAt(x)'
    BY <1>22 DEF Destroy
  <1>23. ASSUME NEW p \in Producers, DestroyLocks(p)
        PROVE  WaitAt(x)'
    BY <1>23 DEF DestroyLocks
  <1>24. ASSUME NEW p \in Producers, DestroyLooks(p)
        PROVE  WaitAt(x)'
    BY <1>24 DEF DestroyLooks
  <1>25. ASSUME NEW p \in Producers, DestroyIsBusy(p)
        PROVE  WaitAt(x)'
    BY <1>25 DEF DestroyIsBusy
  <1>26. ASSUME NEW p \in Producers, DestroyDeletes(p)
        PROVE  WaitAt(x)'
    <2>1. /\ pc[p] = "d_delete" /\ p \in Threads
          /\ impl[p] \in Conditions
          /\ memory' = [memory EXCEPT ![impl[p]] = "freed"]
          /\ pc' = [pc EXCEPT ![p] = "user"] /\ impl' = [impl EXCEPT ![p] = None]
          /\ UNCHANGED <<notified, timed, semaphore, wait_status>>
      BY <1>26 DEF DestroyDeletes, waitVars
    <2>2. \A t \in Consumers : ~In(impl[p], t)
      BY <1>26 DEF DestroyDeletes, DestroyInv, EmptyAt
    <2>3. ASSUME NEW t \in Consumers, pc[t] \in SleepPCs, ~notified[t] \/ timed[t]
          PROVE  memory[impl[t]] = "live" /\ impl[t] # impl[p]
      BY <2>1, <2>2, <2>3 DEF DestroyInv, DestroyAt, LinkInv, LinkAt
    <2>4. \A u \in Producers : pc[u] = "n_post" => u # p
      BY <2>1
    <2>5. UNCHANGED waiter \/ waiter' = [waiter EXCEPT ![p] = None]
      BY <1>26 DEF DestroyDeletes
    <2>6. x # p /\ pc'[x] = pc[x] /\ impl'[x] = impl[x]
      BY <2>1
    <2>7. \A u \in Producers : pc[u] = "n_post" => pc'[u] = "n_post" /\ waiter'[u] = waiter[u]
      BY <2>1, <2>4, <2>5
    <2>8. pc[x] \in SleepPCs /\ (~notified[x] \/ timed[x]) => memory'[impl[x]] = "live"
      BY <2>1, <2>3
    <2>9. UNCHANGED <<notified, timed, semaphore, wait_status>>
      BY <2>1
    <2> HIDE DEF WaitInv
    <2>10. WaitAt(x)
      BY DEF WaitInv
    <2> QED
      BY <2>6, <2>7, <2>8, <2>9, <2>10
  <1> HIDE DEF WaitAt
  <1> QED
    BY <1>1, <1>2, <1>3, <1>4, <1>5, <1>6, <1>7, <1>8, <1>9, <1>10, <1>11, <1>12,
      <1>13, <1>14, <1>15, <1>16, <1>17, <1>18, <1>19, <1>20, <1>21, <1>22, <1>23,
      <1>24, <1>25, <1>26
       DEF Next, WaitSteps, NotifySteps, DestroySteps

\* The waiter that a notifier will post does not leave before.
LEMMA PostStep ==
    ASSUME IInv, TypeOK', Next, NEW x \in Producers
    PROVE  PostAt(x)'
  <1>e. /\ \A t \in Consumers : TimeoutLeaves(t) => Leaves(t)
        /\ \A t \in Consumers : TimeoutIsNotified(t) => TakesNotice(t)
        /\ \A p \in Producers : NotifyUnlinks(p) => \E w \in Consumers : UnlinksWaiter(p, w)
    BY LeaveEffect, NotifiedEffect, UnlinkEffect
  <1> USE ConstantsAssumption, TypesHold DEF Types, MutexInv, MutexAt, ImplAt,
    ImplInv, LinkInv, LinkAt, PostInv, PostAt, WaitInv, WaitAt, IInv, UsesCondition,
    PCs, WaitPCs, NotifyPCs, DestroyPCs, HoldPCs, SleepPCs, Threads, Deleted, Go,
    Acquire, Release, AcquireUser, ReleaseUser, ProducerReturns, waitVars, notifyVars,
    handleVars, appVars
  <1>1. ASSUME NEW t \in Threads, Lock(t)
        PROVE  PostAt(x)'
    BY <1>1 DEF Lock
  <1>2. ASSUME NEW t \in Consumers, Take(t)
        PROVE  PostAt(x)'
    BY <1>2 DEF Take
  <1>3. ASSUME NEW t \in Consumers, GiveUp(t)
        PROVE  PostAt(x)'
    BY <1>3 DEF GiveUp
  <1>4. ASSUME NEW t \in Consumers, Wait(t)
        PROVE  PostAt(x)'
    BY <1>4 DEF Wait
  <1>5. ASSUME NEW t \in Consumers, WaitAppends(t)
        PROVE  PostAt(x)'
    BY <1>5 DEF WaitAppends
  <1>6. ASSUME NEW t \in Consumers, WaitUnlocks(t)
        PROVE  PostAt(x)'
    BY <1>6 DEF WaitUnlocks
  <1>7. ASSUME NEW t \in Consumers, WaitPuts(t)
        PROVE  PostAt(x)'
    BY <1>7 DEF WaitPuts
  <1>8. ASSUME NEW t \in Consumers, WaitGets(t)
        PROVE  PostAt(x)'
    BY <1>8 DEF WaitGets
  <1>9. ASSUME NEW t \in Consumers, WaitTimesOut(t)
        PROVE  PostAt(x)'
    BY <1>9 DEF WaitTimesOut
  <1>10. ASSUME NEW t \in Consumers, TimeoutLocks(t)
        PROVE  PostAt(x)'
    BY <1>10 DEF TimeoutLocks
  <1>11. ASSUME NEW t \in Consumers, TimeoutLeaves(t)
        PROVE  PostAt(x)'
    BY <1>11 DEF TimeoutLeaves
  <1>12. ASSUME NEW t \in Consumers, TimeoutIsNotified(t)
        PROVE  PostAt(x)'
    <2>1. PostAt(x) /\ waiter' = waiter /\ impl' = impl /\ notified' = notified
      BY <1>12 DEF TimeoutIsNotified
    <2>2. pc[x] = "n_post" => semaphore[waiter[x]] = 0
      BY <2>1
    <2>3. TakesNotice(t)
      BY <1>12, <1>e
    <2> QED
      BY <2>1, <2>2, <2>3 DEF TakesNotice
  <1>13. ASSUME NEW t \in Consumers, WaitDeletes(t)
        PROVE  PostAt(x)'
    BY <1>13 DEF WaitDeletes
  <1>14. ASSUME NEW t \in Consumers, WaitReturns(t)
        PROVE  PostAt(x)'
    BY <1>14 DEF WaitReturns
  <1>15. ASSUME NEW p \in Producers, Put(p)
        PROVE  PostAt(x)'
    BY <1>15 DEF Put
  <1>16. ASSUME NEW p \in Producers, NotifyNothing(p)
        PROVE  PostAt(x)'
    BY <1>16 DEF NotifyNothing
  <1>17. ASSUME NEW p \in Producers, Notify(p)
        PROVE  PostAt(x)'
    BY <1>17 DEF Notify
  <1>18. ASSUME NEW p \in Producers, NotifyLocks(p)
        PROVE  PostAt(x)'
    BY <1>18 DEF NotifyLocks
  <1>19. ASSUME NEW p \in Producers, NotifyUnlinks(p)
        PROVE  PostAt(x)'
    <2>1. PICK w \in Consumers : UnlinksWaiter(p, w)
      BY <1>19, <1>e
    <2>2. x # p => pc[x] # "n_post" \/ waiter[x] # w
      BY <2>1 DEF UnlinksWaiter
    <2> QED
      BY <2>1, <2>2 DEF UnlinksWaiter
  <1>20. ASSUME NEW p \in Producers, NotifyPosts(p)
        PROVE  PostAt(x)'
    BY <1>20 DEF NotifyPosts
  <1>21. ASSUME NEW p \in Producers, NotifyEnds(p)
        PROVE  PostAt(x)'
    BY <1>21 DEF NotifyEnds
  <1>22. ASSUME NEW p \in Producers, Destroy(p)
        PROVE  PostAt(x)'
    BY <1>22 DEF Destroy
  <1>23. ASSUME NEW p \in Producers, DestroyLocks(p)
        PROVE  PostAt(x)'
    BY <1>23 DEF DestroyLocks
  <1>24. ASSUME NEW p \in Producers, DestroyLooks(p)
        PROVE  PostAt(x)'
    BY <1>24 DEF DestroyLooks
  <1>25. ASSUME NEW p \in Producers, DestroyIsBusy(p)
        PROVE  PostAt(x)'
    BY <1>25 DEF DestroyIsBusy
  <1>26. ASSUME NEW p \in Producers, DestroyDeletes(p)
        PROVE  PostAt(x)'
    BY <1>26 DEF DestroyDeletes
  <1> HIDE DEF PostAt
  <1> QED
    BY <1>1, <1>2, <1>3, <1>4, <1>5, <1>6, <1>7, <1>8, <1>9, <1>10, <1>11, <1>12,
      <1>13, <1>14, <1>15, <1>16, <1>17, <1>18, <1>19, <1>20, <1>21, <1>22, <1>23,
      <1>24, <1>25, <1>26
       DEF Next, WaitSteps, NotifySteps, DestroySteps

\* No waiter is in the list twice.
LEMMA ListStep ==
    ASSUME IInv, TypeOK', Next
    PROVE  ListInv'
  <1>0. UNCHANGED waiters => (ListInv => ListInv')
    BY DEF ListInv, ListAt
  <1>e. /\ \A t \in Consumers : TimeoutLeaves(t) => Leaves(t)
        /\ \A t \in Consumers : TimeoutIsNotified(t) => TakesNotice(t)
        /\ \A p \in Producers : NotifyUnlinks(p) => \E w \in Consumers : UnlinksWaiter(p, w)
    BY LeaveEffect, NotifiedEffect, UnlinkEffect
  <1> USE ConstantsAssumption, TypesHold, <1>0 DEF Types, ImplAt, ImplInv, LinkInv,
    LinkAt, IInv, UsesCondition, PCs, WaitPCs, NotifyPCs, DestroyPCs, HoldPCs,
    SleepPCs, Threads, Deleted, Go, Acquire, Release, AcquireUser, ReleaseUser,
    ProducerReturns, waitVars, notifyVars, handleVars, appVars
  <1>1. ASSUME NEW t \in Threads, Lock(t)
        PROVE  ListInv'
    BY <1>1 DEF Lock
  <1>2. ASSUME NEW t \in Consumers, Take(t)
        PROVE  ListInv'
    BY <1>2 DEF Take
  <1>3. ASSUME NEW t \in Consumers, GiveUp(t)
        PROVE  ListInv'
    BY <1>3 DEF GiveUp
  <1>4. ASSUME NEW t \in Consumers, Wait(t)
        PROVE  ListInv'
    BY <1>4 DEF Wait
  <1>5. ASSUME NEW t \in Consumers, WaitAppends(t)
        PROVE  ListInv'
    <2>1. impl[t] \in Conditions /\ TypeOK /\ ListInv /\ ~In(impl[t], t)
      BY <1>5 DEF WaitAppends
    <2> QED
      BY <1>5, <2>1, AppendEffect DEF WaitAppends
  <1>6. ASSUME NEW t \in Consumers, WaitUnlocks(t)
        PROVE  ListInv'
    BY <1>6 DEF WaitUnlocks
  <1>7. ASSUME NEW t \in Consumers, WaitPuts(t)
        PROVE  ListInv'
    BY <1>7 DEF WaitPuts
  <1>8. ASSUME NEW t \in Consumers, WaitGets(t)
        PROVE  ListInv'
    BY <1>8 DEF WaitGets
  <1>9. ASSUME NEW t \in Consumers, WaitTimesOut(t)
        PROVE  ListInv'
    BY <1>9 DEF WaitTimesOut
  <1>10. ASSUME NEW t \in Consumers, TimeoutLocks(t)
        PROVE  ListInv'
    BY <1>10 DEF TimeoutLocks
  <1>11. ASSUME NEW t \in Consumers, TimeoutLeaves(t)
        PROVE  ListInv'
    <2>1. Leaves(t)
      BY <1>11, <1>e
    <2> QED
      BY <2>1 DEF Leaves
  <1>12. ASSUME NEW t \in Consumers, TimeoutIsNotified(t)
        PROVE  ListInv'
    BY <1>12 DEF TimeoutIsNotified
  <1>13. ASSUME NEW t \in Consumers, WaitDeletes(t)
        PROVE  ListInv'
    BY <1>13 DEF WaitDeletes
  <1>14. ASSUME NEW t \in Consumers, WaitReturns(t)
        PROVE  ListInv'
    BY <1>14 DEF WaitReturns
  <1>15. ASSUME NEW p \in Producers, Put(p)
        PROVE  ListInv'
    BY <1>15 DEF Put
  <1>16. ASSUME NEW p \in Producers, NotifyNothing(p)
        PROVE  ListInv'
    BY <1>16 DEF NotifyNothing
  <1>17. ASSUME NEW p \in Producers, Notify(p)
        PROVE  ListInv'
    BY <1>17 DEF Notify
  <1>18. ASSUME NEW p \in Producers, NotifyLocks(p)
        PROVE  ListInv'
    BY <1>18 DEF NotifyLocks
  <1>19. ASSUME NEW p \in Producers, NotifyUnlinks(p)
        PROVE  ListInv'
    <2>1. PICK w \in Consumers : UnlinksWaiter(p, w)
      BY <1>19, <1>e
    <2> QED
      BY <2>1 DEF UnlinksWaiter
  <1>20. ASSUME NEW p \in Producers, NotifyPosts(p)
        PROVE  ListInv'
    BY <1>20 DEF NotifyPosts
  <1>21. ASSUME NEW p \in Producers, NotifyEnds(p)
        PROVE  ListInv'
    BY <1>21 DEF NotifyEnds
  <1>22. ASSUME NEW p \in Producers, Destroy(p)
        PROVE  ListInv'
    BY <1>22 DEF Destroy
  <1>23. ASSUME NEW p \in Producers, DestroyLocks(p)
        PROVE  ListInv'
    BY <1>23 DEF DestroyLocks
  <1>24. ASSUME NEW p \in Producers, DestroyLooks(p)
        PROVE  ListInv'
    BY <1>24 DEF DestroyLooks
  <1>25. ASSUME NEW p \in Producers, DestroyIsBusy(p)
        PROVE  ListInv'
    BY <1>25 DEF DestroyIsBusy
  <1>26. ASSUME NEW p \in Producers, DestroyDeletes(p)
        PROVE  ListInv'
    BY <1>26 DEF DestroyDeletes
  <1> HIDE DEF ListInv
  <1> QED
    BY <1>1, <1>2, <1>3, <1>4, <1>5, <1>6, <1>7, <1>8, <1>9, <1>10, <1>11, <1>12,
      <1>13, <1>14, <1>15, <1>16, <1>17, <1>18, <1>19, <1>20, <1>21, <1>22, <1>23,
      <1>24, <1>25, <1>26
       DEF Next, WaitSteps, NotifySteps, DestroySteps

\* Nobody starts to wait on, or notifies, a condition that is being destroyed.
LEMMA DestroyStep ==
    ASSUME TRUE \notin EarlyDestroy, IInv, TypeOK', Next, NEW x \in Producers, NEW y
           \in Threads
    PROVE  DestroyAt(x, y)'
  <1>e. /\ \A t \in Consumers : TimeoutLeaves(t) => Leaves(t)
        /\ \A t \in Consumers : TimeoutIsNotified(t) => TakesNotice(t)
        /\ \A p \in Producers : NotifyUnlinks(p) => \E w \in Consumers : UnlinksWaiter(p, w)
    BY LeaveEffect, NotifiedEffect, UnlinkEffect
  <1> USE ConstantsAssumption, TypesHold DEF Types, ImplAt, ImplInv, WaitInv, WaitAt,
    DestroyAt, DestroyInv, IInv, BeingDestroyed, MayDestroy, UsesCondition, PCs,
    WaitPCs, NotifyPCs, DestroyPCs, HoldPCs, SleepPCs, Threads, Deleted, Go, Acquire,
    Release, AcquireUser, ReleaseUser, ProducerReturns, waitVars, notifyVars,
    handleVars, appVars
  <1>1. ASSUME NEW t \in Threads, Lock(t)
        PROVE  DestroyAt(x, y)'
    BY <1>1 DEF Lock
  <1>2. ASSUME NEW t \in Consumers, Take(t)
        PROVE  DestroyAt(x, y)'
    BY <1>2 DEF Take
  <1>3. ASSUME NEW t \in Consumers, GiveUp(t)
        PROVE  DestroyAt(x, y)'
    BY <1>3 DEF GiveUp
  <1>4. ASSUME NEW t \in Consumers, Wait(t)
        PROVE  DestroyAt(x, y)'
    BY <1>4 DEF Wait
  <1>5. ASSUME NEW t \in Consumers, WaitAppends(t)
        PROVE  DestroyAt(x, y)'
    BY <1>5 DEF WaitAppends
  <1>6. ASSUME NEW t \in Consumers, WaitUnlocks(t)
        PROVE  DestroyAt(x, y)'
    BY <1>6 DEF WaitUnlocks
  <1>7. ASSUME NEW t \in Consumers, WaitPuts(t)
        PROVE  DestroyAt(x, y)'
    BY <1>7 DEF WaitPuts
  <1>8. ASSUME NEW t \in Consumers, WaitGets(t)
        PROVE  DestroyAt(x, y)'
    BY <1>8 DEF WaitGets
  <1>9. ASSUME NEW t \in Consumers, WaitTimesOut(t)
        PROVE  DestroyAt(x, y)'
    BY <1>9 DEF WaitTimesOut
  <1>10. ASSUME NEW t \in Consumers, TimeoutLocks(t)
        PROVE  DestroyAt(x, y)'
    BY <1>10 DEF TimeoutLocks
  <1>11. ASSUME NEW t \in Consumers, TimeoutLeaves(t)
        PROVE  DestroyAt(x, y)'
    <2>1. Leaves(t)
      BY <1>11, <1>e
    <2> QED
      BY <2>1 DEF Leaves
  <1>12. ASSUME NEW t \in Consumers, TimeoutIsNotified(t)
        PROVE  DestroyAt(x, y)'
    <2>1. TakesNotice(t)
      BY <1>12, <1>e
    <2> QED
      BY <2>1 DEF TakesNotice
  <1>13. ASSUME NEW t \in Consumers, WaitDeletes(t)
        PROVE  DestroyAt(x, y)'
    BY <1>13 DEF WaitDeletes
  <1>14. ASSUME NEW t \in Consumers, WaitReturns(t)
        PROVE  DestroyAt(x, y)'
    BY <1>14 DEF WaitReturns
  <1>15. ASSUME NEW p \in Producers, Put(p)
        PROVE  DestroyAt(x, y)'
    BY <1>15 DEF Put
  <1>16. ASSUME NEW p \in Producers, NotifyNothing(p)
        PROVE  DestroyAt(x, y)'
    BY <1>16 DEF NotifyNothing
  <1>17. ASSUME NEW p \in Producers, Notify(p)
        PROVE  DestroyAt(x, y)'
    BY <1>17 DEF Notify
  <1>18. ASSUME NEW p \in Producers, NotifyLocks(p)
        PROVE  DestroyAt(x, y)'
    BY <1>18 DEF NotifyLocks
  <1>19. ASSUME NEW p \in Producers, NotifyUnlinks(p)
        PROVE  DestroyAt(x, y)'
    <2>1. PICK w \in Consumers : UnlinksWaiter(p, w)
      BY <1>19, <1>e
    <2>2. p \in Threads /\ pc[p] = "n_locked"
      BY <2>1 DEF UnlinksWaiter
    <2>3. (pc[x] \notin DestroyPCs /\ x # p) \/ x = p
      BY <2>2
    <2> QED
      BY <2>1, <2>3 DEF UnlinksWaiter
  <1>20. ASSUME NEW p \in Producers, NotifyPosts(p)
        PROVE  DestroyAt(x, y)'
    BY <1>20 DEF NotifyPosts
  <1>21. ASSUME NEW p \in Producers, NotifyEnds(p)
        PROVE  DestroyAt(x, y)'
    BY <1>21 DEF NotifyEnds
  <1>22. ASSUME NEW p \in Producers, Destroy(p)
        PROVE  DestroyAt(x, y)'
    BY ZenonT(30), <1>22 DEF Destroy
  <1>23. ASSUME NEW p \in Producers, DestroyLocks(p)
        PROVE  DestroyAt(x, y)'
    BY <1>23 DEF DestroyLocks
  <1>24. ASSUME NEW p \in Producers, DestroyLooks(p)
        PROVE  DestroyAt(x, y)'
    BY <1>24 DEF DestroyLooks
  <1>25. ASSUME NEW p \in Producers, DestroyIsBusy(p)
        PROVE  DestroyAt(x, y)'
    BY <1>25 DEF DestroyIsBusy
  <1>26. ASSUME NEW p \in Producers, DestroyDeletes(p)
        PROVE  DestroyAt(x, y)'
    BY <1>26 DEF DestroyDeletes
  <1> HIDE DEF DestroyAt
  <1> QED
    BY <1>1, <1>2, <1>3, <1>4, <1>5, <1>6, <1>7, <1>8, <1>9, <1>10, <1>11, <1>12,
      <1>13, <1>14, <1>15, <1>16, <1>17, <1>18, <1>19, <1>20, <1>21, <1>22, <1>23,
      <1>24, <1>25, <1>26
       DEF Next, WaitSteps, NotifySteps, DestroySteps

\* A condition is deleted only if nobody is in its list.
LEMMA EmptyStep ==
    ASSUME IInv, TypeOK', Next, NEW x \in Producers
    PROVE  EmptyAt(x)'
  <1>0. UNCHANGED waiters => \A c \in Conditions, u \in Consumers : In(c, u)' <=> In(c, u)
    BY DEF In
  <1>e. /\ \A t \in Consumers : TimeoutLeaves(t) => Leaves(t)
        /\ \A t \in Consumers : TimeoutIsNotified(t) => TakesNotice(t)
        /\ \A p \in Producers : NotifyUnlinks(p) => \E w \in Consumers : UnlinksWaiter(p, w)
    BY LeaveEffect, NotifiedEffect, UnlinkEffect
  <1> USE ConstantsAssumption, TypesHold, <1>0 DEF Types, ImplAt, ImplInv, DestroyAt,
    EmptyAt, DestroyInv, IInv, UsesCondition, PCs, WaitPCs, NotifyPCs, DestroyPCs,
    HoldPCs, SleepPCs, Threads, Deleted, Go, Acquire, Release, AcquireUser,
    ReleaseUser, ProducerReturns, waitVars, notifyVars, handleVars, appVars
  <1>1. ASSUME NEW t \in Threads, Lock(t)
        PROVE  EmptyAt(x)'
    BY <1>1 DEF Lock
  <1>2. ASSUME NEW t \in Consumers, Take(t)
        PROVE  EmptyAt(x)'
    BY <1>2 DEF Take
  <1>3. ASSUME NEW t \in Consumers, GiveUp(t)
        PROVE  EmptyAt(x)'
    BY <1>3 DEF GiveUp
  <1>4. ASSUME NEW t \in Consumers, Wait(t)
        PROVE  EmptyAt(x)'
    BY <1>4 DEF Wait
  <1>5. ASSUME NEW t \in Consumers, WaitAppends(t)
        PROVE  EmptyAt(x)'
    <2>1. pc[x] \notin DestroyPCs /\ pc'[x] = pc[x]
      BY <1>5 DEF WaitAppends
    <2> QED
      BY <2>1
  <1>6. ASSUME NEW t \in Consumers, WaitUnlocks(t)
        PROVE  EmptyAt(x)'
    BY <1>6 DEF WaitUnlocks
  <1>7. ASSUME NEW t \in Consumers, WaitPuts(t)
        PROVE  EmptyAt(x)'
    BY <1>7 DEF WaitPuts
  <1>8. ASSUME NEW t \in Consumers, WaitGets(t)
        PROVE  EmptyAt(x)'
    BY <1>8 DEF WaitGets
  <1>9. ASSUME NEW t \in Consumers, WaitTimesOut(t)
        PROVE  EmptyAt(x)'
    BY <1>9 DEF WaitTimesOut
  <1>10. ASSUME NEW t \in Consumers, TimeoutLocks(t)
        PROVE  EmptyAt(x)'
    BY <1>10 DEF TimeoutLocks
  <1>11. ASSUME NEW t \in Consumers, TimeoutLeaves(t)
        PROVE  EmptyAt(x)'
    <2>1. Leaves(t)
      BY <1>11, <1>e
    <2> QED
      BY <2>1 DEF Leaves
  <1>12. ASSUME NEW t \in Consumers, TimeoutIsNotified(t)
        PROVE  EmptyAt(x)'
    <2>1. TakesNotice(t)
      BY <1>12, <1>e
    <2> QED
      BY <2>1 DEF TakesNotice
  <1>13. ASSUME NEW t \in Consumers, WaitDeletes(t)
        PROVE  EmptyAt(x)'
    BY <1>13 DEF WaitDeletes
  <1>14. ASSUME NEW t \in Consumers, WaitReturns(t)
        PROVE  EmptyAt(x)'
    BY <1>14 DEF WaitReturns
  <1>15. ASSUME NEW p \in Producers, Put(p)
        PROVE  EmptyAt(x)'
    BY <1>15 DEF Put
  <1>16. ASSUME NEW p \in Producers, NotifyNothing(p)
        PROVE  EmptyAt(x)'
    BY <1>16 DEF NotifyNothing
  <1>17. ASSUME NEW p \in Producers, Notify(p)
        PROVE  EmptyAt(x)'
    BY <1>17 DEF Notify
  <1>18. ASSUME NEW p \in Producers, NotifyLocks(p)
        PROVE  EmptyAt(x)'
    BY <1>18 DEF NotifyLocks
  <1>19. ASSUME NEW p \in Producers, NotifyUnlinks(p)
        PROVE  EmptyAt(x)'
    <2>1. PICK w \in Consumers : UnlinksWaiter(p, w)
      BY <1>19, <1>e
    <2>2. p \in Threads /\ pc[p] = "n_locked"
      BY <2>1 DEF UnlinksWaiter
    <2>3. (pc[x] \notin DestroyPCs /\ x # p) \/ x = p
      BY <2>2
    <2> QED
      BY <2>1, <2>3 DEF UnlinksWaiter
  <1>20. ASSUME NEW p \in Producers, NotifyPosts(p)
        PROVE  EmptyAt(x)'
    BY <1>20 DEF NotifyPosts
  <1>21. ASSUME NEW p \in Producers, NotifyEnds(p)
        PROVE  EmptyAt(x)'
    BY <1>21 DEF NotifyEnds
  <1>22. ASSUME NEW p \in Producers, Destroy(p)
        PROVE  EmptyAt(x)'
    BY <1>22 DEF Destroy
  <1>23. ASSUME NEW p \in Producers, DestroyLocks(p)
        PROVE  EmptyAt(x)'
    BY <1>23 DEF DestroyLocks
  <1>24. ASSUME NEW p \in Producers, DestroyLooks(p)
        PROVE  EmptyAt(x)'
    <2>1. /\ UNCHANGED waiters /\ pc' = [pc EXCEPT ![p] = "d_delete"] /\ impl' = impl
          /\ busy' = [busy EXCEPT ![p] = waiters[impl[p]] # <<>>] /\ impl[p] \in Conditions
      BY <1>24 DEF DestroyLooks
    <2>2. waiters[impl[p]] = <<>> => \A u \in Consumers : ~In(impl[p], u)
      BY DEF In
    <2> QED
      BY <2>1, <2>2
  <1>25. ASSUME NEW p \in Producers, DestroyIsBusy(p)
        PROVE  EmptyAt(x)'
    BY <1>25 DEF DestroyIsBusy
  <1>26. ASSUME NEW p \in Producers, DestroyDeletes(p)
        PROVE  EmptyAt(x)'
    BY <1>26 DEF DestroyDeletes
  <1> HIDE DEF EmptyAt
  <1> QED
    BY <1>1, <1>2, <1>3, <1>4, <1>5, <1>6, <1>7, <1>8, <1>9, <1>10, <1>11, <1>12,
      <1>13, <1>14, <1>15, <1>16, <1>17, <1>18, <1>19, <1>20, <1>21, <1>22, <1>23,
      <1>24, <1>25, <1>26
       DEF Next, WaitSteps, NotifySteps, DestroySteps

LEMMA StutterIInv == ASSUME IInv, UNCHANGED vars PROVE IInv'
  BY DEF vars, waitVars, notifyVars, handleVars, appVars, IInv, TypeOK, MutexInv, MutexAt,
     ImplInv, ImplAt, HandleInv, HandleAt, LinkInv, LinkAt, In, ListInv, ListAt, WaitInv,
     WaitAt, PostInv, PostAt, DestroyInv, DestroyAt, EmptyAt, UsesCondition

LEMMA IInvStep ==
    ASSUME TRUE \notin EarlyDestroy, IInv, [Next]_vars
    PROVE  IInv'
  <1>1. CASE UNCHANGED vars
    BY <1>1, StutterIInv
  <1>2. CASE Next
    <2>1. TypeOK'
      BY <1>2, TypeStep
    <2>2. MutexInv' /\ ImplInv' /\ HandleInv'
      BY <1>2, <2>1, MutexStep, ImplStep, HandleStep DEF MutexInv, ImplInv, HandleInv
    <2>3. LinkInv' /\ ListInv' /\ WaitInv' /\ PostInv'
      BY <1>2, <2>1, LinkStep, ListStep, WaitStep, PostStep DEF LinkInv, WaitInv, PostInv
    <2>4. DestroyInv'
      BY <1>2, <2>1, DestroyStep, EmptyStep DEF DestroyInv
    <2> QED
      BY <2>1, <2>2, <2>3, <2>4 DEF IInv
  <1> QED
    BY <1>1, <1>2

LEMMA IInvConsistent == IInv => Consistent
  <1> SUFFICES ASSUME IInv
               PROVE  Consistent
    OBVIOUS
  <1>1. NoDeletedMutex
    BY DEF IInv, ImplInv, ImplAt, NoDeletedMutex
  <1>2. StatusIsTrue
    BY DEF IInv, WaitInv, WaitAt, StatusIsTrue
  <1>3. ASSUME NEW c \in Conditions, NEW i \in 1..Len(waiters[c])
        PROVE  /\ semaphore[waiters[c][i]] = 0 /\ pc[waiters[c][i]] \in WaitPCs
               /\ impl[waiters[c][i]] = c
    <2>1. waiters[c] \in Seq(Consumers)
      BY DEF IInv, TypeOK
    <2>2. waiters[c][i] \in Consumers /\ In(c, waiters[c][i])
      BY <2>1 DEF In
    <2> QED
      BY <2>2 DEF IInv, LinkInv, LinkAt, WaitInv, WaitAt, SleepPCs, WaitPCs
  <1>4. ASSUME NEW p \in Producers, pc[p] = "n_post"
        PROVE  semaphore[waiter[p]] = 0 /\ pc[waiter[p]] \in WaitPCs
    BY <1>4 DEF IInv, PostInv, PostAt, SleepPCs, WaitPCs
  <1>5. WaitersExist
    BY <1>3, <1>4 DEF WaitersExist, IInv, ListInv, ListAt
  <1> QED
    BY <1>1, <1>2, <1>5 DEF IInv, Consistent

\* If nobody destroys a condition while a wait with a deadline has only been
\* notified, then waiters, notifiers and timeouts agree, in every state, on who
\* is in the list, on whose semaphore exists and on how each wait ends
\* (condition_wait_common, condition_signal, condition_broadcast and
\* condition_destroy).  The run ConditionEarlyTimed shows why the hypothesis
\* is needed.
THEOREM ConsistentHolds ==
    ASSUME TRUE \notin EarlyDestroy
    PROVE  Spec => []Consistent
  <1>1. IInv /\ [Next]_vars => IInv'
    BY IInvStep
  <1> QED
    BY <1>1, InitIInv, IInvConsistent, PTL DEF Spec

-----------------------------------------------------------------------------
(* No wake-up is lost.                                                      *)

\* Consumers that wait and that nobody has notified.
Sleeping == {t \in Consumers : pc[t] \in WaitPCs \ {"w_delete", "w_relock"} /\ ~notified[t]}

\* Producers that will still notify somebody.
Bringing == {p \in Producers : \/ pc[p] \in {"n_call", "n_lock", "n_locked"}
                               \/ pc[p] = "n_post" /\ notice[p] = "all"}

\* Who looks at the items owns the application's mutex, and there are no items
\* for a consumer that is about to wait.
OwnerAt(t) == pc[t] \in {"owner", "w_append", "w_unlock"} => user_mutex = t
NoItemsAt(t) == pc[t] \in {"w_append", "w_unlock"} => items = 0

OwnerInv == \A t \in Threads : OwnerAt(t) /\ NoItemsAt(t)
CountInv == Sleeping # {} => items <= Cardinality(Awake) + Cardinality(Bringing)
WakeInv == OwnerInv /\ CountInv

\* The application's mutex excludes.
LEMMA OwnerStep ==
    ASSUME IInv, OwnerInv, Next, NEW x \in Threads
    PROVE  OwnerAt(x)'
  <1>e. /\ \A t \in Consumers : TimeoutLeaves(t) => Leaves(t)
        /\ \A t \in Consumers : TimeoutIsNotified(t) => TakesNotice(t)
        /\ \A p \in Producers : NotifyUnlinks(p) => \E w \in Consumers : UnlinksWaiter(p, w)
    BY LeaveEffect, NotifiedEffect, UnlinkEffect
  <1> USE ConstantsAssumption, TypesHold DEF Types, OwnerAt, OwnerInv, ImplAt,
    ImplInv, IInv, UsesCondition, PCs, WaitPCs, NotifyPCs, DestroyPCs, HoldPCs,
    SleepPCs, Threads, Deleted, Go, Acquire, Release, AcquireUser, ReleaseUser,
    ProducerReturns, waitVars, notifyVars, handleVars, appVars
  <1>1. ASSUME NEW t \in Threads, Lock(t)
        PROVE  OwnerAt(x)'
    BY <1>1 DEF Lock
  <1>2. ASSUME NEW t \in Consumers, Take(t)
        PROVE  OwnerAt(x)'
    BY <1>2 DEF Take
  <1>3. ASSUME NEW t \in Consumers, GiveUp(t)
        PROVE  OwnerAt(x)'
    BY <1>3 DEF GiveUp
  <1>4. ASSUME NEW t \in Consumers, Wait(t)
        PROVE  OwnerAt(x)'
    BY <1>4 DEF Wait
  <1>5. ASSUME NEW t \in Consumers, WaitAppends(t)
        PROVE  OwnerAt(x)'
    BY <1>5 DEF WaitAppends
  <1>6. ASSUME NEW t \in Consumers, WaitUnlocks(t)
        PROVE  OwnerAt(x)'
    BY <1>6 DEF WaitUnlocks
  <1>7. ASSUME NEW t \in Consumers, WaitPuts(t)
        PROVE  OwnerAt(x)'
    BY <1>7 DEF WaitPuts
  <1>8. ASSUME NEW t \in Consumers, WaitGets(t)
        PROVE  OwnerAt(x)'
    BY <1>8 DEF WaitGets
  <1>9. ASSUME NEW t \in Consumers, WaitTimesOut(t)
        PROVE  OwnerAt(x)'
    BY <1>9 DEF WaitTimesOut
  <1>10. ASSUME NEW t \in Consumers, TimeoutLocks(t)
        PROVE  OwnerAt(x)'
    BY <1>10 DEF TimeoutLocks
  <1>11. ASSUME NEW t \in Consumers, TimeoutLeaves(t)
        PROVE  OwnerAt(x)'
    <2>1. Leaves(t)
      BY <1>11, <1>e
    <2> QED
      BY <2>1 DEF Leaves
  <1>12. ASSUME NEW t \in Consumers, TimeoutIsNotified(t)
        PROVE  OwnerAt(x)'
    <2>1. TakesNotice(t)
      BY <1>12, <1>e
    <2> QED
      BY <2>1 DEF TakesNotice
  <1>13. ASSUME NEW t \in Consumers, WaitDeletes(t)
        PROVE  OwnerAt(x)'
    BY <1>13 DEF WaitDeletes
  <1>14. ASSUME NEW t \in Consumers, WaitReturns(t)
        PROVE  OwnerAt(x)'
    BY <1>14 DEF WaitReturns
  <1>15. ASSUME NEW p \in Producers, Put(p)
        PROVE  OwnerAt(x)'
    BY <1>15 DEF Put
  <1>16. ASSUME NEW p \in Producers, NotifyNothing(p)
        PROVE  OwnerAt(x)'
    BY <1>16 DEF NotifyNothing
  <1>17. ASSUME NEW p \in Producers, Notify(p)
        PROVE  OwnerAt(x)'
    BY <1>17 DEF Notify
  <1>18. ASSUME NEW p \in Producers, NotifyLocks(p)
        PROVE  OwnerAt(x)'
    BY <1>18 DEF NotifyLocks
  <1>19. ASSUME NEW p \in Producers, NotifyUnlinks(p)
        PROVE  OwnerAt(x)'
    <2>1. PICK w \in Consumers : UnlinksWaiter(p, w)
      BY <1>19, <1>e
    <2>2. p \in Threads /\ pc[p] = "n_locked"
      BY <2>1 DEF UnlinksWaiter
    <2> QED
      BY <2>1, <2>2 DEF UnlinksWaiter
  <1>20. ASSUME NEW p \in Producers, NotifyPosts(p)
        PROVE  OwnerAt(x)'
    BY <1>20 DEF NotifyPosts
  <1>21. ASSUME NEW p \in Producers, NotifyEnds(p)
        PROVE  OwnerAt(x)'
    BY <1>21 DEF NotifyEnds
  <1>22. ASSUME NEW p \in Producers, Destroy(p)
        PROVE  OwnerAt(x)'
    BY <1>22 DEF Destroy
  <1>23. ASSUME NEW p \in Producers, DestroyLocks(p)
        PROVE  OwnerAt(x)'
    BY <1>23 DEF DestroyLocks
  <1>24. ASSUME NEW p \in Producers, DestroyLooks(p)
        PROVE  OwnerAt(x)'
    BY <1>24 DEF DestroyLooks
  <1>25. ASSUME NEW p \in Producers, DestroyIsBusy(p)
        PROVE  OwnerAt(x)'
    BY <1>25 DEF DestroyIsBusy
  <1>26. ASSUME NEW p \in Producers, DestroyDeletes(p)
        PROVE  OwnerAt(x)'
    BY <1>26 DEF DestroyDeletes
  <1> HIDE DEF OwnerAt
  <1> QED
    BY <1>1, <1>2, <1>3, <1>4, <1>5, <1>6, <1>7, <1>8, <1>9, <1>10, <1>11, <1>12,
      <1>13, <1>14, <1>15, <1>16, <1>17, <1>18, <1>19, <1>20, <1>21, <1>22, <1>23,
      <1>24, <1>25, <1>26
       DEF Next, WaitSteps, NotifySteps, DestroySteps

\* No items appear before a wait has unlocked the mutex.
LEMMA NoItemsStep ==
    ASSUME IInv, OwnerInv, Next, NEW x \in Threads
    PROVE  NoItemsAt(x)'
  <1>e. /\ \A t \in Consumers : TimeoutLeaves(t) => Leaves(t)
        /\ \A t \in Consumers : TimeoutIsNotified(t) => TakesNotice(t)
        /\ \A p \in Producers : NotifyUnlinks(p) => \E w \in Consumers : UnlinksWaiter(p, w)
    BY LeaveEffect, NotifiedEffect, UnlinkEffect
  <1> USE ConstantsAssumption, TypesHold DEF Types, OwnerAt, NoItemsAt, OwnerInv,
    ImplAt, ImplInv, IInv, UsesCondition, PCs, WaitPCs, NotifyPCs, DestroyPCs,
    HoldPCs, SleepPCs, Threads, Deleted, Go, Acquire, Release, AcquireUser,
    ReleaseUser, ProducerReturns, waitVars, notifyVars, handleVars, appVars
  <1>1. ASSUME NEW t \in Threads, Lock(t)
        PROVE  NoItemsAt(x)'
    BY <1>1 DEF Lock
  <1>2. ASSUME NEW t \in Consumers, Take(t)
        PROVE  NoItemsAt(x)'
    BY <1>2 DEF Take
  <1>3. ASSUME NEW t \in Consumers, GiveUp(t)
        PROVE  NoItemsAt(x)'
    BY <1>3 DEF GiveUp
  <1>4. ASSUME NEW t \in Consumers, Wait(t)
        PROVE  NoItemsAt(x)'
    BY <1>4 DEF Wait
  <1>5. ASSUME NEW t \in Consumers, WaitAppends(t)
        PROVE  NoItemsAt(x)'
    BY <1>5 DEF WaitAppends
  <1>6. ASSUME NEW t \in Consumers, WaitUnlocks(t)
        PROVE  NoItemsAt(x)'
    BY <1>6 DEF WaitUnlocks
  <1>7. ASSUME NEW t \in Consumers, WaitPuts(t)
        PROVE  NoItemsAt(x)'
    BY <1>7 DEF WaitPuts
  <1>8. ASSUME NEW t \in Consumers, WaitGets(t)
        PROVE  NoItemsAt(x)'
    BY <1>8 DEF WaitGets
  <1>9. ASSUME NEW t \in Consumers, WaitTimesOut(t)
        PROVE  NoItemsAt(x)'
    BY <1>9 DEF WaitTimesOut
  <1>10. ASSUME NEW t \in Consumers, TimeoutLocks(t)
        PROVE  NoItemsAt(x)'
    BY <1>10 DEF TimeoutLocks
  <1>11. ASSUME NEW t \in Consumers, TimeoutLeaves(t)
        PROVE  NoItemsAt(x)'
    <2>1. Leaves(t)
      BY <1>11, <1>e
    <2> QED
      BY <2>1 DEF Leaves
  <1>12. ASSUME NEW t \in Consumers, TimeoutIsNotified(t)
        PROVE  NoItemsAt(x)'
    <2>1. TakesNotice(t)
      BY <1>12, <1>e
    <2> QED
      BY <2>1 DEF TakesNotice
  <1>13. ASSUME NEW t \in Consumers, WaitDeletes(t)
        PROVE  NoItemsAt(x)'
    BY <1>13 DEF WaitDeletes
  <1>14. ASSUME NEW t \in Consumers, WaitReturns(t)
        PROVE  NoItemsAt(x)'
    BY <1>14 DEF WaitReturns
  <1>15. ASSUME NEW p \in Producers, Put(p)
        PROVE  NoItemsAt(x)'
    BY <1>15 DEF Put
  <1>16. ASSUME NEW p \in Producers, NotifyNothing(p)
        PROVE  NoItemsAt(x)'
    BY <1>16 DEF NotifyNothing
  <1>17. ASSUME NEW p \in Producers, Notify(p)
        PROVE  NoItemsAt(x)'
    BY <1>17 DEF Notify
  <1>18. ASSUME NEW p \in Producers, NotifyLocks(p)
        PROVE  NoItemsAt(x)'
    BY <1>18 DEF NotifyLocks
  <1>19. ASSUME NEW p \in Producers, NotifyUnlinks(p)
        PROVE  NoItemsAt(x)'
    <2>1. PICK w \in Consumers : UnlinksWaiter(p, w)
      BY <1>19, <1>e
    <2>2. p \in Threads /\ pc[p] = "n_locked"
      BY <2>1 DEF UnlinksWaiter
    <2> QED
      BY <2>1, <2>2 DEF UnlinksWaiter
  <1>20. ASSUME NEW p \in Producers, NotifyPosts(p)
        PROVE  NoItemsAt(x)'
    BY <1>20 DEF NotifyPosts
  <1>21. ASSUME NEW p \in Producers, NotifyEnds(p)
        PROVE  NoItemsAt(x)'
    BY <1>21 DEF NotifyEnds
  <1>22. ASSUME NEW p \in Producers, Destroy(p)
        PROVE  NoItemsAt(x)'
    BY <1>22 DEF Destroy
  <1>23. ASSUME NEW p \in Producers, DestroyLocks(p)
        PROVE  NoItemsAt(x)'
    BY <1>23 DEF DestroyLocks
  <1>24. ASSUME NEW p \in Producers, DestroyLooks(p)
        PROVE  NoItemsAt(x)'
    BY <1>24 DEF DestroyLooks
  <1>25. ASSUME NEW p \in Producers, DestroyIsBusy(p)
        PROVE  NoItemsAt(x)'
    BY <1>25 DEF DestroyIsBusy
  <1>26. ASSUME NEW p \in Producers, DestroyDeletes(p)
        PROVE  NoItemsAt(x)'
    BY <1>26 DEF DestroyDeletes
  <1> HIDE DEF NoItemsAt
  <1> QED
    BY <1>1, <1>2, <1>3, <1>4, <1>5, <1>6, <1>7, <1>8, <1>9, <1>10, <1>11, <1>12,
      <1>13, <1>14, <1>15, <1>16, <1>17, <1>18, <1>19, <1>20, <1>21, <1>22, <1>23,
      <1>24, <1>25, <1>26
       DEF Next, WaitSteps, NotifySteps, DestroySteps

\* Sizes of finite sets of threads.
LEMMA Sizes ==
    ASSUME NEW A \in SUBSET Threads, NEW B \in SUBSET Threads
    PROVE  /\ Cardinality(A) \in Nat /\ Cardinality(B) \in Nat
           /\ A \subseteq B => Cardinality(A) <= Cardinality(B)
           /\ \A t \in A : B = A \ {t} => Cardinality(B) = Cardinality(A) - 1
  <1>1. IsFiniteSet(A) /\ IsFiniteSet(B)
    BY ConstantsAssumption, FS_Subset
  <1>2. Cardinality(A) \in Nat /\ Cardinality(B) \in Nat
    BY <1>1, FS_CardinalityType
  <1>3. A \subseteq B => Cardinality(A) <= Cardinality(B)
    BY <1>1, FS_Subset
  <1>4. ASSUME NEW t \in A, B = A \ {t}
        PROVE  Cardinality(B) = Cardinality(A) - 1
    BY <1>1, <1>4, FS_RemoveElement
  <1> QED
    BY <1>2, <1>3, <1>4

\* The sets that are counted, in this state and in the next one.
Counted ==
    /\ Awake \in SUBSET Threads /\ Bringing \in SUBSET Threads
    /\ Cardinality(Awake) \in Nat /\ Cardinality(Bringing) \in Nat
    /\ Cardinality(Awake)' \in Nat /\ Cardinality(Bringing)' \in Nat
    /\ items \in Nat /\ items' \in Nat
    /\ Awake \subseteq Awake' => Cardinality(Awake) <= Cardinality(Awake)'
    /\ Bringing \subseteq Bringing' => Cardinality(Bringing) <= Cardinality(Bringing)'
    /\ \A t \in Awake : Awake' = Awake \ {t} => Cardinality(Awake)' = Cardinality(Awake) - 1
    /\ \A t \in Bringing' : Bringing = Bringing' \ {t} =>
           Cardinality(Bringing) = Cardinality(Bringing)' - 1
    /\ \A t \in Awake' : Awake = Awake' \ {t} =>
           Cardinality(Awake) = Cardinality(Awake)' - 1
    /\ \A t \in Bringing : Bringing' = Bringing \ {t} =>
           Cardinality(Bringing)' = Cardinality(Bringing) - 1

LEMMA CountedHolds == ASSUME TypeOK, TypeOK' PROVE Counted
  <1>1. /\ Awake \in SUBSET Threads /\ Bringing \in SUBSET Threads
        /\ Awake' \in SUBSET Threads /\ Bringing' \in SUBSET Threads
    BY DEF Awake, Bringing, Threads
  <1>2. items \in Nat /\ items' \in Nat
    BY ConstantsAssumption DEF TypeOK
  <1> QED
    BY <1>1, <1>2, Sizes DEF Counted

\* A step that disturbs none of the counts.
Quiet ==
    /\ Sleeping' \subseteq Sleeping /\ Awake \subseteq Awake' /\ Bringing \subseteq Bringing'
    /\ items' = items

LEMMA QuietStep == ASSUME Counted, CountInv, Quiet PROVE CountInv'
  <1>1. ASSUME Sleeping' # {}
        PROVE  items' <= Cardinality(Awake)' + Cardinality(Bringing)'
    <2>1. items <= Cardinality(Awake) + Cardinality(Bringing)
      BY <1>1 DEF CountInv, Quiet
    <2> QED
      BY <2>1 DEF Counted, Quiet
  <1> QED
    BY <1>1 DEF CountInv


\* Every item keeps somebody who brings it to a consumer, or takes it.
LEMMA CountStep ==
    ASSUME IInv, TypeOK', WakeInv, Next
    PROVE  CountInv'
  <1>c. Counted
    BY CountedHolds DEF IInv
  <1>e. /\ \A t \in Consumers : TimeoutLeaves(t) => Leaves(t)
        /\ \A t \in Consumers : TimeoutIsNotified(t) => TakesNotice(t)
        /\ \A p \in Producers : NotifyUnlinks(p) => \E w \in Consumers : UnlinksWaiter(p, w)
    BY LeaveEffect, NotifiedEffect, UnlinkEffect
  <1> USE ConstantsAssumption, TypesHold DEF Types, WakeInv, ImplAt, ImplInv, IInv,
    UsesCondition, PCs, WaitPCs, NotifyPCs, DestroyPCs, HoldPCs, SleepPCs, Threads,
    Deleted, Go, Acquire, Release, AcquireUser, ReleaseUser, ProducerReturns,
    waitVars, notifyVars, handleVars, appVars
  <1>1. ASSUME NEW t \in Threads, Lock(t)
        PROVE  CountInv'
    <2>1. Quiet
      BY <1>1 DEF Lock, Quiet, Sleeping, Awake, Bringing
    <2> QED
      BY <2>1, <1>c, QuietStep
  <1>2. ASSUME NEW t \in Consumers, Take(t)
        PROVE  CountInv'
    <2>1. /\ t \in Awake /\ Awake' = Awake \ {t} /\ Bringing' = Bringing
          /\ Sleeping' = Sleeping
      BY <1>2 DEF Take, Sleeping, Awake, Bringing
    <2>2. items' = items - 1
      BY <1>2 DEF Take
    <2>3. Cardinality(Awake)' = Cardinality(Awake) - 1
      BY <2>1, <1>c DEF Counted
    <2> QED
      BY <2>1, <2>2, <2>3, <1>c DEF Counted, CountInv
  <1>3. ASSUME NEW t \in Consumers, GiveUp(t)
        PROVE  CountInv'
    <2>1. items' = 0
      BY <1>3 DEF GiveUp, OwnerInv, NoItemsAt
    <2> QED
      BY <2>1, <1>c DEF Counted, CountInv
  <1>4. ASSUME NEW t \in Consumers, Wait(t)
        PROVE  CountInv'
    <2>1. items' = 0
      BY <1>4 DEF Wait, OwnerInv, NoItemsAt
    <2> QED
      BY <2>1, <1>c DEF Counted, CountInv
  <1>5. ASSUME NEW t \in Consumers, WaitAppends(t)
        PROVE  CountInv'
    <2>1. items' = 0
      BY <1>5 DEF WaitAppends, OwnerInv, NoItemsAt
    <2> QED
      BY <2>1, <1>c DEF Counted, CountInv
  <1>6. ASSUME NEW t \in Consumers, WaitUnlocks(t)
        PROVE  CountInv'
    <2>1. items' = 0
      BY <1>6 DEF WaitUnlocks, OwnerInv, NoItemsAt
    <2> QED
      BY <2>1, <1>c DEF Counted, CountInv
  <1>7. ASSUME NEW t \in Consumers, WaitPuts(t)
        PROVE  CountInv'
    <2>1. Quiet
      BY <1>7 DEF WaitPuts, Quiet, Sleeping, Awake, Bringing
    <2> QED
      BY <2>1, <1>c, QuietStep
  <1>8. ASSUME NEW t \in Consumers, WaitGets(t)
        PROVE  CountInv'
    <2>1. Quiet
      BY <1>8 DEF WaitGets, Quiet, Sleeping, Awake, Bringing
    <2> QED
      BY <2>1, <1>c, QuietStep
  <1>9. ASSUME NEW t \in Consumers, WaitTimesOut(t)
        PROVE  CountInv'
    <2>1. Quiet
      BY <1>9 DEF WaitTimesOut, Quiet, Sleeping, Awake, Bringing
    <2> QED
      BY <2>1, <1>c, QuietStep
  <1>10. ASSUME NEW t \in Consumers, TimeoutLocks(t)
        PROVE  CountInv'
    <2>1. Quiet
      BY <1>10 DEF TimeoutLocks, Quiet, Sleeping, Awake, Bringing
    <2> QED
      BY <2>1, <1>c, QuietStep
  <1>11. ASSUME NEW t \in Consumers, TimeoutLeaves(t)
        PROVE  CountInv'
    <2>0. Leaves(t)
      BY <1>11, <1>e
    <2>1. Quiet
      BY <2>0 DEF Leaves, Quiet, Sleeping, Awake, Bringing
    <2> QED
      BY <2>1, <1>c, QuietStep
  <1>12. ASSUME NEW t \in Consumers, TimeoutIsNotified(t)
        PROVE  CountInv'
    <2>0. TakesNotice(t)
      BY <1>12, <1>e
    <2>1. Quiet
      BY <2>0 DEF TakesNotice, Quiet, Sleeping, Awake, Bringing
    <2> QED
      BY <2>1, <1>c, QuietStep
  <1>13. ASSUME NEW t \in Consumers, WaitDeletes(t)
        PROVE  CountInv'
    <2>1. Quiet
      BY <1>13 DEF WaitDeletes, Quiet, Sleeping, Awake, Bringing
    <2> QED
      BY <2>1, <1>c, QuietStep
  <1>14. ASSUME NEW t \in Consumers, WaitReturns(t)
        PROVE  CountInv'
    <2>1. Quiet
      BY <1>14 DEF WaitReturns, Quiet, Sleeping, Awake, Bringing
    <2> QED
      BY <2>1, <1>c, QuietStep
  <1>15. ASSUME NEW p \in Producers, Put(p)
        PROVE  CountInv'
    <2>1. /\ pc[p] = "owner" /\ p \notin Consumers /\ p \in Threads
          /\ pc' = [pc EXCEPT ![p] = "n_call"] /\ notified' = notified
          /\ \A u \in Producers : u # p => notice'[u] = notice[u]
      BY <1>15 DEF Put, IInv, TypeOK
    <2>2. \A u \in Threads : u # p => pc'[u] = pc[u]
      BY <2>1
    <2>3. Awake' = Awake /\ Sleeping' = Sleeping
      BY <2>1, <2>2 DEF Awake, Sleeping
    <2>4. p \in Bringing' /\ p \notin Bringing
      BY <2>1 DEF Bringing
    <2>5. \A u \in Producers : u # p => (u \in Bringing' <=> u \in Bringing)
      BY <2>1, <2>2 DEF Bringing
    <2>6. Bringing \in SUBSET Producers /\ Bringing' \in SUBSET Producers
      BY DEF Bringing
    <2>7. /\ p \in Bringing' /\ Bringing = Bringing' \ {p} /\ Awake' = Awake
          /\ Sleeping' = Sleeping
      BY <2>3, <2>4, <2>5, <2>6
    <2>8. items' = items + 1
      BY <1>15 DEF Put
    <2>9. Cardinality(Bringing) = Cardinality(Bringing)' - 1
      BY <2>7, <1>c DEF Counted
    <2> QED
      BY <2>7, <2>8, <2>9, <1>c DEF Counted, CountInv
  <1>16. ASSUME NEW p \in Producers, NotifyNothing(p)
        PROVE  CountInv'
    <2>1. Sleeping' = {}
      BY <1>16 DEF NotifyNothing, Sleeping, WaitInv, WaitAt, HandleInv, HandleAt
    <2> QED
      BY <2>1 DEF CountInv
  <1>17. ASSUME NEW p \in Producers, Notify(p)
        PROVE  CountInv'
    <2>1. Quiet
      BY <1>17 DEF Notify, Quiet, Sleeping, Awake, Bringing
    <2> QED
      BY <2>1, <1>c, QuietStep
  <1>18. ASSUME NEW p \in Producers, NotifyLocks(p)
        PROVE  CountInv'
    <2>1. Quiet
      BY <1>18 DEF NotifyLocks, Quiet, Sleeping, Awake, Bringing
    <2> QED
      BY <2>1, <1>c, QuietStep
  <1>19. ASSUME NEW p \in Producers, NotifyUnlinks(p)
        PROVE  CountInv'
    <2>1. PICK w \in Consumers : UnlinksWaiter(p, w)
      BY <1>19, <1>e
    <2>2. /\ w \in Awake' /\ Awake = Awake' \ {w} /\ w \in Sleeping
          /\ p \in Bringing /\ items' = items
      BY <2>1 DEF UnlinksWaiter, Sleeping, Awake, Bringing
    <2>3. Bringing' = Bringing \/ Bringing' = Bringing \ {p}
      BY <2>1 DEF UnlinksWaiter, Sleeping, Awake, Bringing
    <2>4. Cardinality(Awake) = Cardinality(Awake)' - 1
      BY <2>2, <1>c DEF Counted
    <2>5. Cardinality(Bringing)' >= Cardinality(Bringing) - 1
      BY <2>2, <2>3, <1>c DEF Counted
    <2>6. items <= Cardinality(Awake) + Cardinality(Bringing)
      BY <2>2 DEF CountInv
    <2> QED
      BY <2>2, <2>4, <2>5, <2>6, <1>c DEF Counted, CountInv
  <1>20. ASSUME NEW p \in Producers, NotifyPosts(p)
        PROVE  CountInv'
    <2>1. Quiet
      BY <1>20 DEF NotifyPosts, Quiet, Sleeping, Awake, Bringing
    <2> QED
      BY <2>1, <1>c, QuietStep
  <1>21. ASSUME NEW p \in Producers, NotifyEnds(p)
        PROVE  CountInv'
    <2>1. CASE pc[p] = "n_unlock"
      <3>1. Quiet
        BY <1>21, <2>1 DEF NotifyEnds, Quiet, Sleeping, Awake, Bringing
      <3> QED
        BY <3>1, <1>c, QuietStep
    <2>2. CASE pc[p] = "n_locked"
      <3>1. /\ waiters[impl[p]] = <<>> /\ impl[p] \in Conditions /\ p \in Threads
            /\ memory[impl[p]] = "live" /\ items' = items /\ pc' = [pc EXCEPT ![p] = "user"]
            /\ notified' = notified
        BY <1>21, <2>2 DEF NotifyEnds
      <3>2. \A t \in Consumers : ~In(impl[p], t)
        BY <3>1 DEF In
      <3>3. ASSUME NEW t \in Consumers, pc[t] \in SleepPCs
            PROVE  notified[t]
        <4>1. ~notified[t] => memory[impl[t]] = "live" /\ impl[t] \in Conditions
          BY <3>3 DEF WaitInv, WaitAt
        <4>2. ~notified[t] => impl[t] = impl[p]
          BY <4>1, <3>1 DEF HandleInv, HandleAt
        <4> QED
          BY <4>1, <4>2, <3>1, <3>2, <3>3 DEF LinkInv, LinkAt
      <3>4. ASSUME NEW t \in Consumers, pc[t] = "w_append"
            PROVE  items = 0
        BY <3>4 DEF OwnerInv, NoItemsAt
      <3>5. ASSUME NEW t \in Sleeping'
            PROVE  items = 0
        <4>1. t \in Consumers /\ t # p /\ pc[t] = pc'[t] /\ ~notified[t]
          BY <3>1, <3>5 DEF Sleeping
        <4>2. pc[t] \in SleepPCs \/ pc[t] = "w_append"
          BY <3>5, <4>1 DEF Sleeping
        <4> QED
          BY <4>1, <4>2, <3>3, <3>4
      <3> QED
        BY <3>1, <3>5, <1>c DEF Counted, CountInv
    <2> QED
      BY <1>21, <2>1, <2>2 DEF NotifyEnds
  <1>22. ASSUME NEW p \in Producers, Destroy(p)
        PROVE  CountInv'
    <2>1. Quiet
      BY <1>22 DEF Destroy, Quiet, Sleeping, Awake, Bringing
    <2> QED
      BY <2>1, <1>c, QuietStep
  <1>23. ASSUME NEW p \in Producers, DestroyLocks(p)
        PROVE  CountInv'
    <2>1. Quiet
      BY <1>23 DEF DestroyLocks, Quiet, Sleeping, Awake, Bringing
    <2> QED
      BY <2>1, <1>c, QuietStep
  <1>24. ASSUME NEW p \in Producers, DestroyLooks(p)
        PROVE  CountInv'
    <2>1. Quiet
      BY <1>24 DEF DestroyLooks, Quiet, Sleeping, Awake, Bringing
    <2> QED
      BY <2>1, <1>c, QuietStep
  <1>25. ASSUME NEW p \in Producers, DestroyIsBusy(p)
        PROVE  CountInv'
    <2>1. Quiet
      BY <1>25 DEF DestroyIsBusy, Quiet, Sleeping, Awake, Bringing
    <2> QED
      BY <2>1, <1>c, QuietStep
  <1>26. ASSUME NEW p \in Producers, DestroyDeletes(p)
        PROVE  CountInv'
    <2>1. Quiet
      BY <1>26 DEF DestroyDeletes, Quiet, Sleeping, Awake, Bringing
    <2> QED
      BY <2>1, <1>c, QuietStep
  <1> HIDE DEF CountInv
  <1> QED
    BY <1>1, <1>2, <1>3, <1>4, <1>5, <1>6, <1>7, <1>8, <1>9, <1>10, <1>11, <1>12,
      <1>13, <1>14, <1>15, <1>16, <1>17, <1>18, <1>19, <1>20, <1>21, <1>22, <1>23,
      <1>24, <1>25, <1>26
       DEF Next, WaitSteps, NotifySteps, DestroySteps

LEMMA WakeStep ==
    ASSUME IInv, IInv', WakeInv, [Next]_vars
    PROVE  WakeInv'
  <1>1. CASE UNCHANGED vars
    BY <1>1 DEF vars, waitVars, notifyVars, appVars, WakeInv, OwnerInv, OwnerAt, NoItemsAt,
       CountInv, Sleeping, Awake, Bringing
  <1>2. CASE Next
    <2>1. OwnerInv'
      BY <1>2, OwnerStep, NoItemsStep DEF WakeInv, OwnerInv
    <2>2. CountInv'
      BY <1>2, CountStep DEF IInv
    <2> QED
      BY <2>1, <2>2 DEF WakeInv
  <1> QED
    BY <1>1, <1>2

LEMMA InitWake == Init => WakeInv
  BY DEF Init, WakeInv, OwnerInv, OwnerAt, NoItemsAt, CountInv, Sleeping, WaitPCs, Threads

LEMMA WakeNoLostWakeup == IInv /\ WakeInv => NoLostWakeup
  <1> SUFFICES ASSUME IInv, WakeInv, Asleep # {}
               PROVE  items <= Cardinality(Awake) + Cardinality(Notifying)
    BY DEF NoLostWakeup
  <1>1. Asleep \subseteq Sleeping
    BY DEF Asleep, Sleeping, WaitPCs
  <1>2. items <= Cardinality(Awake) + Cardinality(Bringing)
    BY <1>1 DEF WakeInv, CountInv
  <1>3. /\ Bringing \subseteq Notifying
        /\ Bringing \in SUBSET Threads /\ Notifying \in SUBSET Threads
        /\ Awake \in SUBSET Threads
    BY DEF Bringing, Notifying, Awake, Threads
  <1>4. /\ Cardinality(Bringing) <= Cardinality(Notifying)
        /\ Cardinality(Bringing) \in Nat /\ Cardinality(Notifying) \in Nat
        /\ Cardinality(Awake) \in Nat
    BY <1>3, Sizes
  <1>5. items \in Nat
    BY ConstantsAssumption DEF IInv, TypeOK
  <1> QED
    BY <1>2, <1>4, <1>5

\* While a consumer sleeps, every item has a notification on its way to
\* somebody, or a consumer on its way to the item (condition_wait_common puts
\* the waiter into the list before it unlocks the caller's mutex; signal and
\* broadcast unlink under the condition's mutex).
THEOREM NoLostWakeupHolds ==
    ASSUME TRUE \notin EarlyDestroy
    PROVE  Spec => []NoLostWakeup
  <1>1. IInv /\ WakeInv /\ [Next]_vars => IInv' /\ WakeInv'
    BY IInvStep, WakeStep
  <1> QED
    BY <1>1, InitIInv, InitWake, WakeNoLostWakeup, PTL DEF Spec

-----------------------------------------------------------------------------
(* Refinement of ConditionContract.                                         *)

\* Where a consumer has released the application's mutex and has not got it back.
AwayPCs == {"w_put", "w_get", "w_timeout", "w_resolve", "w_delete", "w_relock"}
Shouting == \E p \in Producers : notice[p] = "all" /\ pc[p] \in {"n_locked", "n_post"}

\* ConsumerPhase without the lists: who is not notified and still waits is linked
\* into the only condition that exists.
WaitPhase(t) ==
    IF pc[t] \notin AwayPCs THEN "out"
    ELSE IF notified[t] THEN "notified"
    ELSE IF pc[t] \in {"w_delete", "w_relock"} THEN "timedout"
    ELSE IF Shouting THEN "notified" ELSE "blocked"
Seen(t) == IF t \in Consumers THEN WaitPhase(t) ELSE ProducerPhase(t)

\* Only waits with deadlines time out.
DeadlineInv == \A t \in Consumers : timed[t] => TimedWaits
RefInv == IInv /\ OwnerInv /\ DeadlineInv

\* Whoever works inside a condition works inside the one in the handle.
LEMMA OneCondition ==
    ASSUME IInv, NEW t \in Threads, UsesCondition(t)
    PROVE  impl[t] = implementation /\ implementation \in Conditions
  <1>1. impl[t] \in Conditions /\ memory[impl[t]] = "live"
    BY DEF IInv, ImplInv, ImplAt, UsesCondition, WaitPCs, NotifyPCs, DestroyPCs
  <1> QED
    BY <1>1 DEF IInv, HandleInv, HandleAt

\* One thread at a time is in a critical section.
LEMMA OneHolder ==
    ASSUME IInv, NEW t \in Threads, NEW u \in Threads, pc[t] \in HoldPCs, pc[u] \in HoldPCs
    PROVE  t = u
  <1>1. impl[t] = implementation /\ impl[u] = implementation /\ implementation \in Conditions
    BY OneCondition DEF HoldPCs, UsesCondition
  <1>2. mutex[implementation] = t /\ mutex[implementation] = u
    BY <1>1 DEF IInv, MutexInv, MutexAt
  <1> QED
    BY <1>2

LEMMA SleepersWait ==
    ASSUME IInv, NEW t \in Consumers, pc[t] \in SleepPCs, ~notified[t]
    PROVE  impl[t] = implementation /\ implementation \in Conditions /\ In(impl[t], t)
  <1>1. impl[t] \in Conditions /\ memory[impl[t]] = "live"
    BY DEF IInv, ImplInv, ImplAt, WaitInv, WaitAt, SleepPCs, WaitPCs, Threads
  <1>2. impl[t] = implementation
    BY <1>1 DEF IInv, HandleInv, HandleAt
  <1>3. In(impl[t], t)
    BY <1>1 DEF IInv, LinkInv, LinkAt
  <1> QED
    BY <1>1, <1>2, <1>3

LEMMA PhaseIsSeen ==
    ASSUME IInv, NEW t \in Consumers
    PROVE  ConsumerPhase(t) = WaitPhase(t)
  <1>1. CASE pc[t] \notin AwayPCs \/ notified[t]
    BY <1>1 DEF ConsumerPhase, WaitPhase, AwayPCs, WaitPCs
  <1>2. CASE pc[t] \in {"w_delete", "w_relock"} /\ ~notified[t]
    <2>1. impl[t] \in Conditions
      BY <1>2 DEF IInv, ImplInv, ImplAt, WaitPCs, Threads
    <2>2. ~In(impl[t], t)
      BY <1>2, <2>1 DEF IInv, LinkInv, LinkAt, SleepPCs
    <2> QED
      BY <1>2, <2>2 DEF ConsumerPhase, WaitPhase, AwayPCs, WaitPCs, Linked, In
  <1>3. CASE pc[t] \in AwayPCs \ {"w_delete", "w_relock"} /\ ~notified[t]
    <2>1. impl[t] = implementation /\ implementation \in Conditions /\ In(impl[t], t)
      BY <1>3, SleepersWait DEF AwayPCs, SleepPCs
    <2>2. \A p \in Producers : pc[p] \in {"n_locked", "n_post"} => impl[p] = implementation
      BY OneCondition DEF UsesCondition, Threads
    <2>3. Broadcasting(impl[t]) <=> Shouting
      BY <2>1, <2>2 DEF Broadcasting, Shouting
    <2>4. Linked(t)
      BY <2>1 DEF Linked, In
    <2> QED
      BY <1>3, <2>3, <2>4 DEF ConsumerPhase, WaitPhase, AwayPCs, WaitPCs
  <1> QED
    BY <1>1, <1>2, <1>3

LEMMA DeadlineStep == ASSUME IInv, DeadlineInv, [Next]_vars PROVE DeadlineInv'
  <1>1. TimedWaits \in BOOLEAN
    BY ConstantsAssumption
  <1>2. timed \in [Consumers -> BOOLEAN]
    BY DEF IInv, TypeOK
  <1>3. CASE UNCHANGED timed
    BY <1>3 DEF DeadlineInv
  <1>4. ASSUME NEW t \in Consumers, Wait(t)
        PROVE  DeadlineInv'
    BY <1>1, <1>2, <1>4 DEF Wait, DeadlineInv
  <1>5. ASSUME NEW t \in Consumers, WaitReturns(t)
        PROVE  DeadlineInv'
    BY <1>2, <1>5 DEF WaitReturns, DeadlineInv
  <1> QED
    BY <1>3, <1>4, <1>5
       DEF Next, WaitSteps, NotifySteps, DestroySteps, Lock, Take, GiveUp, WaitAppends,
           WaitUnlocks, WaitPuts, WaitGets, WaitTimesOut, TimeoutLocks, TimeoutLeaves,
           TimeoutIsNotified, WaitDeletes, Put, NotifyNothing, Notify, NotifyLocks,
           NotifyUnlinks, NotifyPosts, NotifyEnds, Destroy, DestroyLocks, DestroyLooks,
           DestroyIsBusy, DestroyDeletes, vars, waitVars

-----------------------------------------------------------------------------

\* The steps of ConditionContract, thread by thread.
Keeps(S) == \A u \in Threads \ S : Seen(u)' = Seen(u)
Locks(t) == /\ Seen(t) = "out" /\ user_mutex = None /\ user_mutex' = t /\ Keeps({})
Unlocks(t) == user_mutex = t /\ user_mutex' = None /\ Keeps({})
Blocks(t) == user_mutex = t /\ user_mutex' = None /\ Seen(t)' = "blocked" /\ Keeps({t})
TimesOut(t) == /\ TimedWaits /\ Seen(t) = "blocked" /\ Seen(t)' = "timedout"
               /\ user_mutex' = user_mutex /\ Keeps({t})
Returns(t) == /\ Seen(t) \in {"notified", "timedout"} /\ Seen(t)' = "out"
              /\ user_mutex = None /\ user_mutex' = t /\ Keeps({t})
Announces(t) == /\ user_mutex = t /\ user_mutex' = None /\ Seen(t)' \in {"one", "all"}
                /\ Keeps({t})
WakesNone(t) == /\ Seen(t) = "one" /\ Seen(t)' = "out" /\ user_mutex' = user_mutex
                /\ \A u \in Consumers : Seen(u) # "blocked"
                /\ Keeps({t})
WakesOne(t) == /\ Seen(t) = "one" /\ Seen(t)' = "out" /\ user_mutex' = user_mutex
               /\ \E w \in Consumers : Seen(w) = "blocked" /\ Seen(w)' = "notified"
                                       /\ Keeps({t, w})
WakesAll(t) == /\ Seen(t) = "all" /\ Seen(t)' = "out" /\ user_mutex' = user_mutex
               /\ \A u \in Consumers : Seen(u)' = IF Seen(u) = "blocked" THEN "notified"
                                                  ELSE Seen(u)
               /\ Keeps(Consumers \union {t})
Hidden == user_mutex' = user_mutex /\ Keeps({})

Simulated ==
    \/ Hidden
    \/ \E t \in Consumers : Locks(t) \/ Unlocks(t) \/ Blocks(t) \/ TimesOut(t) \/ Returns(t)
    \/ \E t \in Producers : \/ Locks(t) \/ Announces(t) \/ WakesNone(t) \/ WakesOne(t)
                            \/ WakesAll(t)

Phases == [t \in Threads |-> IF t \in Consumers THEN ConsumerPhase(t) ELSE ProducerPhase(t)]

\* The actions of the contract, in the names of this module.
LEMMA ContractActions ==
    /\ Contract!Init <=> Phases = [t \in Threads |-> "out"] /\ user_mutex = None
    /\ UNCHANGED Contract!vars <=> Phases' = Phases /\ user_mutex' = user_mutex
    /\ \A t \in Threads : Contract!Acquire(t) <=>
          Phases[t] = "out" /\ user_mutex = None /\ user_mutex' = t /\ Phases' = Phases
    /\ \A t \in Threads : Contract!Release(t) <=>
          user_mutex = t /\ user_mutex' = None /\ Phases' = Phases
    /\ \A t \in Threads : Contract!Wait(t) <=>
          /\ user_mutex = t /\ user_mutex' = None
          /\ Phases' = [Phases EXCEPT ![t] = "blocked"]
    /\ \A t \in Threads : Contract!TimeOut(t) <=>
          /\ TimedWaits /\ Phases[t] = "blocked"
          /\ Phases' = [Phases EXCEPT ![t] = "timedout"] /\ user_mutex' = user_mutex
    /\ \A t \in Threads : Contract!Return(t) <=>
          /\ Phases[t] \in {"notified", "timedout"} /\ user_mutex = None /\ user_mutex' = t
          /\ Phases' = [Phases EXCEPT ![t] = "out"]
    /\ \A t \in Threads : Contract!Announce(t) <=>
          /\ user_mutex = t /\ user_mutex' = None
          /\ \E n \in {"one", "all"} : Phases' = [Phases EXCEPT ![t] = n]
    /\ Contract!Blocked = {u \in Consumers : Phases[u] = "blocked"}
    /\ \A t \in Threads : Contract!NotifyOne(t) <=>
          /\ Phases[t] = "one"
          /\ IF Contract!Blocked = {}
             THEN Phases' = [Phases EXCEPT ![t] = "out"]
             ELSE \E w \in Contract!Blocked :
                     Phases' = [Phases EXCEPT ![t] = "out", ![w] = "notified"]
          /\ user_mutex' = user_mutex
    /\ \A t \in Threads : Contract!NotifyAll(t) <=>
          /\ Phases[t] = "all"
          /\ Phases' = [u \in Threads |-> IF u = t THEN "out"
                                          ELSE IF u \in Contract!Blocked THEN "notified"
                                          ELSE Phases[u]]
          /\ user_mutex' = user_mutex
  BY DEF Contract!Init, Contract!Acquire, Contract!Release, Contract!Wait, Contract!TimeOut,
         Contract!Return, Contract!Announce, Contract!NotifyOne, Contract!NotifyAll,
         Contract!vars, Contract!Threads, Contract!Blocked, Phases, Threads

LEMMA PhasesAreSeen == IInv => \A t \in Consumers : ConsumerPhase(t) = WaitPhase(t)
  BY PhaseIsSeen

LEMMA SimulatedIsAllowed ==
    ASSUME IInv, IInv', Simulated
    PROVE  [Contract!Next]_(Contract!vars)
  <1>1. \A t \in Threads : Phases[t] = Seen(t)
    BY PhaseIsSeen DEF Phases, Seen, Threads
  <1>2. (\A t \in Consumers : ConsumerPhase(t) = WaitPhase(t))'
    BY PhasesAreSeen, PTL
  <1>3. \A t \in Threads : Phases'[t] = Seen(t)'
    BY <1>2 DEF Phases, Seen
  <1>4. DOMAIN Phases = Threads /\ DOMAIN Phases' = Threads /\ Phases = [t \in Threads |-> Phases[t]]
        /\ Phases' = [t \in Threads |-> Phases'[t]]
    BY DEF Phases
  <1>5. Consumers \subseteq Threads /\ Producers \subseteq Threads
    BY DEF Threads
  <1> USE ContractActions
  <1>6. CASE Hidden
    <2>1. Phases' = Phases
      BY <1>1, <1>3, <1>4, <1>6 DEF Hidden, Keeps
    <2> QED
      BY <1>6, <2>1 DEF Hidden
  <1>7. ASSUME NEW t \in Threads, Locks(t)
        PROVE  Contract!Acquire(t)
    BY <1>1, <1>3, <1>4, <1>7 DEF Locks, Keeps
  <1>8. ASSUME NEW t \in Threads, Unlocks(t)
        PROVE  Contract!Release(t)
    BY <1>1, <1>3, <1>4, <1>8 DEF Unlocks, Keeps
  <1>9. ASSUME NEW t \in Threads, Blocks(t)
        PROVE  Contract!Wait(t)
    BY <1>1, <1>3, <1>4, <1>9 DEF Blocks, Keeps
  <1>10. ASSUME NEW t \in Threads, TimesOut(t)
         PROVE  Contract!TimeOut(t)
    BY <1>1, <1>3, <1>4, <1>10 DEF TimesOut, Keeps
  <1>11. ASSUME NEW t \in Threads, Returns(t)
         PROVE  Contract!Return(t)
    BY <1>1, <1>3, <1>4, <1>11 DEF Returns, Keeps
  <1>12. ASSUME NEW t \in Threads, Announces(t)
         PROVE  Contract!Announce(t)
    BY <1>1, <1>3, <1>4, <1>12 DEF Announces, Keeps
  <1>13. Contract!Blocked = {u \in Consumers : Seen(u) = "blocked"}
    BY <1>1, <1>5
  <1>14. ASSUME NEW t \in Threads, WakesNone(t)
         PROVE  Contract!NotifyOne(t)
    BY <1>1, <1>3, <1>4, <1>13, <1>14 DEF WakesNone, Keeps
  <1>15. ASSUME NEW t \in Threads, WakesOne(t)
         PROVE  Contract!NotifyOne(t)
    <2>1. PICK w \in Consumers : Seen(w) = "blocked" /\ Seen(w)' = "notified" /\ Keeps({t, w})
      BY <1>15 DEF WakesOne
    <2>2. w \in Contract!Blocked /\ w # t
      BY <1>13, <1>15, <2>1 DEF WakesOne
    <2>3. Phases' = [Phases EXCEPT ![t] = "out", ![w] = "notified"]
      BY <1>1, <1>3, <1>4, <1>5, <1>15, <2>1, <2>2 DEF WakesOne, Keeps
    <2> QED
      BY <1>1, <1>15, <2>2, <2>3 DEF WakesOne
  <1>16. ASSUME NEW t \in Threads, WakesAll(t), t \notin Consumers
         PROVE  Contract!NotifyAll(t)
    <2>1. \A u \in Threads : Phases'[u] = IF u = t THEN "out"
                                          ELSE IF u \in Contract!Blocked THEN "notified"
                                          ELSE Phases[u]
      BY <1>1, <1>3, <1>5, <1>13, <1>16 DEF WakesAll, Keeps
    <2> QED
      BY <1>1, <1>4, <1>16, <2>1 DEF WakesAll
  <1>17. \A t \in Producers : t \notin Consumers
    BY ConstantsAssumption
  <1> QED
    BY <1>5, <1>6, <1>7, <1>8, <1>9, <1>10, <1>11, <1>12, <1>14, <1>15, <1>16, <1>17
       DEF Simulated, Contract!Next

-----------------------------------------------------------------------------

\* What a step of one thread leaves alone.
LEMMA ConsumerMoves ==
    ASSUME TypeOK, NEW t \in Consumers, NEW l, pc' = [pc EXCEPT ![t] = l], notice' = notice,
           \A u \in Consumers \ {t} : notified'[u] = notified[u]
    PROVE  /\ pc'[t] = l /\ (Shouting' <=> Shouting) /\ Keeps({t})
           /\ Seen(t)' = Seen(t) => Keeps({})
  <1>1. t \in Threads /\ t \notin Producers /\ pc \in [Threads -> PCs]
    BY ConstantsAssumption DEF Threads, TypeOK
  <1>2. \A u \in Threads \ {t} : pc'[u] = pc[u]
    BY <1>1
  <1>3. Shouting' <=> Shouting
    BY <1>1, <1>2 DEF Shouting, Threads
  <1> QED
    BY <1>1, <1>2, <1>3 DEF Keeps, Seen, WaitPhase, ProducerPhase, Threads

LEMMA ProducerMoves ==
    ASSUME TypeOK, NEW t \in Producers, NEW l, pc' = [pc EXCEPT ![t] = l],
           \A u \in Producers \ {t} : notice'[u] = notice[u],
           \A u \in Consumers : notified'[u] = notified[u],
           Shouting' <=> Shouting
    PROVE  /\ pc'[t] = l /\ Keeps({t})
           /\ Seen(t)' = Seen(t) => Keeps({})
  <1>1. t \in Threads /\ t \notin Consumers /\ pc \in [Threads -> PCs]
    BY ConstantsAssumption DEF Threads, TypeOK
  <1>2. \A u \in Threads \ {t} : pc'[u] = pc[u]
    BY <1>1
  <1> QED
    BY <1>1, <1>2 DEF Keeps, Seen, WaitPhase, ProducerPhase, Threads

\* A producer that is not in the middle of a broadcast, before or after its step.
LEMMA NoShout ==
    ASSUME TypeOK, NEW t \in Producers, NEW l, pc' = [pc EXCEPT ![t] = l],
           \A u \in Producers \ {t} : notice'[u] = notice[u],
           pc[t] \notin {"n_locked", "n_post"} \/ notice[t] # "all",
           l \notin {"n_locked", "n_post"} \/ notice'[t] # "all"
    PROVE  Shouting' <=> Shouting
  <1>1. t \in Threads /\ t \notin Consumers /\ pc \in [Threads -> PCs]
    BY ConstantsAssumption DEF Threads, TypeOK
  <1>2. pc'[t] = l /\ \A u \in Threads \ {t} : pc'[u] = pc[u]
    BY <1>1
  <1> QED
    BY <1>1, <1>2 DEF Shouting, Threads

\* While one thread is in the critical section, another that shouts is not.
LEMMA HolderShouts ==
    ASSUME IInv, NEW t \in Threads, pc[t] \in HoldPCs
    PROVE  Shouting <=> t \in Producers /\ notice[t] = "all" /\ pc[t] \in {"n_locked", "n_post"}
  BY OneHolder DEF Shouting, HoldPCs, Threads

LEMMA BlockedIsIn ==
    ASSUME IInv, NEW t \in Consumers, Seen(t) = "blocked"
    PROVE  /\ pc[t] \in {"w_put", "w_get", "w_timeout", "w_resolve"} /\ ~notified[t]
           /\ ~Shouting
           /\ impl[t] = implementation /\ implementation \in Conditions /\ In(impl[t], t)
  <1>1. /\ pc[t] \in {"w_put", "w_get", "w_timeout", "w_resolve"} /\ ~notified[t]
        /\ ~Shouting
    BY DEF Seen, WaitPhase, AwayPCs
  <1> QED
    BY <1>1, SleepersWait DEF SleepPCs

\* The application's steps.
LEMMA UserSimulated ==
    ASSUME RefInv, NEW t \in Threads,
           \/ Lock(t)
           \/ t \in Consumers /\ (Take(t) \/ GiveUp(t) \/ Wait(t))
           \/ t \in Producers /\ Put(t)
    PROVE  Simulated
  <1> USE DEF RefInv, IInv, Go, ReleaseUser, AcquireUser, waitVars, notifyVars, handleVars, appVars
  <1>0. TypeOK /\ (t \in Consumers \/ t \in Producers) /\ ~(t \in Consumers /\ t \in Producers)
    BY ConstantsAssumption DEF Threads
  <1>1. CASE Lock(t)
    <2>1. pc' = [pc EXCEPT ![t] = "owner"] /\ notice' = notice /\ notified' = notified
          /\ pc[t] = "user" /\ user_mutex = None /\ user_mutex' = t
      BY <1>1 DEF Lock
    <2>2. pc'[t] = "owner"
      BY <2>1, <1>0 DEF TypeOK
    <2>3. Seen(t) = "out" /\ Seen(t)' = "out"
      BY <2>1, <2>2 DEF Seen, WaitPhase, ProducerPhase, AwayPCs
    <2>4. Keeps({})
      BY <1>0, <2>1, <2>3, ConsumerMoves, ProducerMoves, NoShout
    <2> QED
      BY <1>0, <2>1, <2>3, <2>4 DEF Simulated, Locks
  <1>2. CASE t \in Consumers /\ (Take(t) \/ GiveUp(t))
    <2>1. pc' = [pc EXCEPT ![t] = "user"] /\ notice' = notice /\ notified' = notified
          /\ pc[t] = "owner" /\ user_mutex' = None
      BY <1>2 DEF Take, GiveUp
    <2>2. user_mutex = t /\ pc'[t] = "user"
      BY <2>1, <1>0 DEF OwnerInv, OwnerAt, TypeOK
    <2>3. Seen(t) = "out" /\ Seen(t)' = "out"
      BY <2>1, <2>2, <1>2 DEF Seen, WaitPhase, AwayPCs
    <2>4. Keeps({})
      BY <1>0, <1>2, <2>1, <2>3, ConsumerMoves
    <2> QED
      BY <1>2, <2>1, <2>2, <2>4 DEF Simulated, Unlocks
  <1>3. CASE t \in Consumers /\ Wait(t)
    <2>1. pc' = [pc EXCEPT ![t] = "w_append"] /\ notice' = notice /\ notified' = notified
          /\ pc[t] = "owner" /\ user_mutex' = user_mutex
      BY <1>3 DEF Wait
    <2>2. pc'[t] = "w_append"
      BY <2>1, <1>0 DEF TypeOK
    <2>3. Seen(t) = "out" /\ Seen(t)' = "out"
      BY <2>1, <2>2, <1>3 DEF Seen, WaitPhase, AwayPCs
    <2>4. Keeps({})
      BY <1>0, <1>3, <2>1, <2>3, ConsumerMoves
    <2> QED
      BY <2>1, <2>4 DEF Simulated, Hidden
  <1>4. CASE t \in Producers /\ Put(t)
    <2>1. PICK n \in {"one", "all"} : notice' = [notice EXCEPT ![t] = n]
      BY <1>4 DEF Put
    <2>2. pc' = [pc EXCEPT ![t] = "n_call"] /\ notified' = notified
          /\ pc[t] = "owner" /\ user_mutex' = None
      BY <1>4 DEF Put
    <2>3. user_mutex = t /\ pc'[t] = "n_call" /\ notice'[t] = n
          /\ \A u \in Producers \ {t} : notice'[u] = notice[u]
      BY <1>4, <2>1, <2>2, <1>0 DEF OwnerInv, OwnerAt, TypeOK
    <2>4. Seen(t)' = n
      BY <2>3, <1>0, <1>4 DEF Seen, ProducerPhase
    <2>5. Keeps({t})
      BY <1>0, <1>4, <2>2, <2>3, ProducerMoves, NoShout
    <2> QED
      BY <1>4, <2>2, <2>3, <2>4, <2>5 DEF Simulated, Announces
  <1> QED
    BY <1>1, <1>2, <1>3, <1>4

\* The steps of a wait.
LEMMA WaitSimulated ==
    ASSUME RefInv, NEW t \in Consumers, WaitSteps(t)
    PROVE  Simulated
  <1> USE DEF RefInv, IInv, Go, ReleaseUser, AcquireUser, waitVars, notifyVars, handleVars, appVars
  <1>0. TypeOK /\ t \in Threads /\ WaitAt(t)
    BY DEF Threads, WaitInv
  <1>1. CASE WaitAppends(t)
    <2>1. pc' = [pc EXCEPT ![t] = "w_unlock"] /\ notice' = notice /\ notified' = notified
          /\ pc[t] = "w_append" /\ user_mutex' = user_mutex
      BY <1>1 DEF WaitAppends
    <2>2. pc'[t] = "w_unlock" /\ Keeps({t}) /\ (Seen(t)' = Seen(t) => Keeps({}))
      BY <1>0, <2>1, ConsumerMoves
    <2>3. Seen(t) = Seen(t)'
      BY <2>1, <2>2 DEF Seen, WaitPhase, AwayPCs
    <2> QED
      BY <2>1, <2>2, <2>3 DEF Simulated, Hidden
  <1>2. CASE WaitUnlocks(t)
    <2>1. pc' = [pc EXCEPT ![t] = "w_put"] /\ notice' = notice /\ notified' = notified
          /\ pc[t] = "w_unlock" /\ user_mutex' = None
      BY <1>2 DEF WaitUnlocks
    <2>2. pc'[t] = "w_put" /\ Keeps({t}) /\ (Shouting' <=> Shouting)
      BY <1>0, <2>1, ConsumerMoves
    <2>3. user_mutex = t /\ ~notified[t]
      BY <1>0, <2>1 DEF OwnerInv, OwnerAt, WaitAt
    <2>4. ~Shouting
      BY <1>0, <2>1, HolderShouts DEF HoldPCs
    <2>5. Seen(t)' = "blocked"
      BY <2>1, <2>2, <2>3, <2>4 DEF Seen, WaitPhase, AwayPCs
    <2> QED
      BY <2>1, <2>2, <2>3, <2>5 DEF Simulated, Blocks
  <1>3. CASE WaitPuts(t) \/ WaitTimesOut(t) \/ TimeoutLocks(t) \/ WaitDeletes(t)
    <2>1. PICK l \in PCs :
             /\ pc' = [pc EXCEPT ![t] = l] /\ notice' = notice /\ notified' = notified
             /\ user_mutex' = user_mutex
             /\ \/ {pc[t], l} \subseteq {"w_put", "w_get", "w_timeout", "w_resolve"}
                \/ {pc[t], l} \subseteq {"w_delete", "w_relock"}
      BY <1>3 DEF WaitPuts, WaitTimesOut, TimeoutLocks, WaitDeletes, PCs, WaitPCs
    <2>2. pc'[t] = l /\ (Shouting' <=> Shouting) /\ (Seen(t)' = Seen(t) => Keeps({}))
      BY <1>0, <2>1, ConsumerMoves
    <2>3. Seen(t)' = Seen(t)
      BY <2>1, <2>2 DEF Seen, WaitPhase, AwayPCs
    <2> QED
      BY <2>1, <2>2, <2>3 DEF Simulated, Hidden
  <1>4. CASE WaitGets(t) \/ TimeoutIsNotified(t)
    <2>1. pc' = [pc EXCEPT ![t] = "w_delete"] /\ notice' = notice /\ notified' = notified
          /\ pc[t] \in {"w_get", "w_resolve"} /\ user_mutex' = user_mutex
      BY <1>4 DEF WaitGets, TimeoutIsNotified
    <2>2. pc'[t] = "w_delete" /\ (Shouting' <=> Shouting) /\ (Seen(t)' = Seen(t) => Keeps({}))
      BY <1>0, <2>1, ConsumerMoves
    <2>3. notified[t] = TRUE
      <3>0. notified[t] \in BOOLEAN
        BY DEF TypeOK
      <3>1. CASE WaitGets(t)
        <4>1. pc[t] = "w_get" /\ semaphore[t] > 0
          BY <3>1 DEF WaitGets
        <4> QED
          BY <1>0, <3>0, <4>1 DEF WaitAt, WaitPCs
      <3>2. CASE TimeoutIsNotified(t)
        <4>1. pc[t] = "w_resolve" /\ ~Linked(t)
          BY <3>2 DEF TimeoutIsNotified
        <4> QED
          BY <3>0, <4>1, SleepersWait DEF SleepPCs, Linked, In
      <3> QED
        BY <1>4, <3>1, <3>2
    <2>4. Seen(t)' = Seen(t)
      BY <2>1, <2>2, <2>3 DEF Seen, WaitPhase, AwayPCs
    <2> QED
      BY <2>1, <2>2, <2>4 DEF Simulated, Hidden
  <1>5. CASE TimeoutLeaves(t)
    <2>1. pc' = [pc EXCEPT ![t] = "w_delete"] /\ notice' = notice /\ notified' = notified
          /\ pc[t] = "w_resolve" /\ user_mutex' = user_mutex /\ Linked(t)
      BY <1>5 DEF TimeoutLeaves
    <2>2. pc'[t] = "w_delete" /\ (Shouting' <=> Shouting) /\ Keeps({t})
      BY <1>0, <2>1, ConsumerMoves
    <2>3. impl[t] \in Conditions
      BY <1>0, <2>1 DEF ImplInv, ImplAt, WaitPCs
    <2>4. ~notified[t]
      BY <2>1, <2>3 DEF LinkInv, LinkAt, Linked, In
    <2>5. ~Shouting
      BY <1>0, <2>1, HolderShouts, ConstantsAssumption DEF HoldPCs
    <2>6. Seen(t) = "blocked" /\ Seen(t)' = "timedout"
      BY <2>1, <2>2, <2>4, <2>5 DEF Seen, WaitPhase, AwayPCs
    <2>7. TimedWaits
      BY <1>0, <2>1 DEF WaitAt, DeadlineInv
    <2> QED
      BY <2>1, <2>2, <2>6, <2>7 DEF Simulated, TimesOut
  <1>6. CASE WaitReturns(t)
    <2>1. pc' = [pc EXCEPT ![t] = "owner"] /\ notice' = notice /\ pc[t] = "w_relock"
          /\ notified' = [notified EXCEPT ![t] = FALSE]
          /\ user_mutex = None /\ user_mutex' = t
      BY <1>6 DEF WaitReturns
    <2>2. \A u \in Consumers \ {t} : notified'[u] = notified[u]
      BY <1>0, <2>1 DEF TypeOK
    <2>3. pc'[t] = "owner" /\ Keeps({t})
      BY <1>0, <2>1, <2>2, ConsumerMoves
    <2>4. Seen(t) \in {"notified", "timedout"} /\ Seen(t)' = "out"
      BY <2>1, <2>3 DEF Seen, WaitPhase, AwayPCs
    <2> QED
      BY <2>1, <2>3, <2>4 DEF Simulated, Returns
  <1> QED
    BY <1>1, <1>2, <1>3, <1>4, <1>5, <1>6 DEF WaitSteps

\* An empty list has nobody in it.
LEMMA NobodyIn == ASSUME NEW c, NEW t, waiters[c] = <<>> PROVE ~In(c, t)
  <1>1. Len(<<>>) = 0
    BY EmptySeq
  <1> QED
    BY <1>1 DEF In

\* The steps of a notification.
LEMMA NotifySimulated ==
    ASSUME RefInv, NEW t \in Producers, NotifySteps(t)
    PROVE  Simulated
  <1> USE DEF RefInv, IInv, Go, waitVars, notifyVars, handleVars, appVars
  <1>0. /\ TypeOK /\ t \in Threads /\ t \notin Consumers /\ notice[t] \in {"one", "all"}
        /\ notice \in [Producers -> {"one", "all"}] /\ pc \in [Threads -> PCs]
    BY ConstantsAssumption DEF Threads, TypeOK
  <1>1. CASE NotifyNothing(t)
    <2>1. /\ pc' = [pc EXCEPT ![t] = "user"] /\ notice' = [notice EXCEPT ![t] = "one"]
          /\ notified' = notified /\ pc[t] = "n_call" /\ user_mutex' = user_mutex
          /\ implementation = None
      BY <1>1 DEF NotifyNothing, ProducerReturns
    <2>2. pc'[t] = "user" /\ \A u \in Producers \ {t} : notice'[u] = notice[u]
      BY <1>0, <2>1
    <2>3. Keeps({t})
      BY <1>0, <2>1, <2>2, ProducerMoves, NoShout
    <2>4. Seen(t) = notice[t] /\ Seen(t)' = "out"
      BY <1>0, <2>1, <2>2 DEF Seen, ProducerPhase
    <2>5. \A u \in Consumers : Seen(u) # "blocked"
      BY <2>1, BlockedIsIn, ConstantsAssumption
    <2>6. CASE notice[t] = "one"
      BY <2>1, <2>3, <2>4, <2>5, <2>6 DEF Simulated, WakesNone
    <2>7. CASE notice[t] = "all"
      <3>1. \A u \in Consumers : Seen(u)' = Seen(u)
        BY <1>0, <2>3 DEF Keeps, Threads
      <3>2. WakesAll(t)
        BY <2>1, <2>3, <2>4, <2>5, <2>7, <3>1 DEF WakesAll, Keeps
      <3> QED
        BY <3>2 DEF Simulated
    <2> QED
      BY <1>0, <2>6, <2>7
  <1>2. CASE Notify(t)
    <2>1. /\ pc' = [pc EXCEPT ![t] = "n_lock"] /\ notice' = notice
          /\ notified' = notified /\ pc[t] = "n_call" /\ user_mutex' = user_mutex
      BY <1>2 DEF Notify
    <2>2. pc'[t] = "n_lock" /\ (Seen(t)' = Seen(t) => Keeps({}))
      BY <1>0, <2>1, ProducerMoves, NoShout
    <2>3. Seen(t)' = Seen(t)
      BY <1>0, <2>1, <2>2 DEF Seen, ProducerPhase
    <2> QED
      BY <2>1, <2>2, <2>3 DEF Simulated, Hidden
  <1>3. CASE NotifyLocks(t)
    <2>1. /\ pc' = [pc EXCEPT ![t] = "n_locked"] /\ notice' = notice
          /\ notified' = notified /\ pc[t] = "n_lock" /\ user_mutex' = user_mutex
      BY <1>3 DEF NotifyLocks
    <2>2. pc'[t] = "n_locked" /\ \A u \in Threads \ {t} : pc'[u] = pc[u]
      BY <1>0, <2>1
    <2>3. CASE notice[t] = "one"
      <3>1. Seen(t)' = Seen(t)
        BY <1>0, <2>1, <2>2, <2>3 DEF Seen, ProducerPhase
      <3>2. Keeps({})
        BY <1>0, <2>1, <2>3, <3>1, ProducerMoves, NoShout
      <3> QED
        BY <2>1, <3>2 DEF Simulated, Hidden
    <2>4. CASE notice[t] = "all"
      <3>1. Seen(t) = "all" /\ Seen(t)' = "out"
        BY <1>0, <2>1, <2>2, <2>4 DEF Seen, ProducerPhase
      <3>2. Shouting'
        BY <2>1, <2>2, <2>4 DEF Shouting
      <3>3. \A u \in Consumers : Seen(u)' = IF Seen(u) = "blocked" THEN "notified"
                                            ELSE Seen(u)
        BY <1>0, <2>1, <2>2, <3>2 DEF Seen, WaitPhase, Threads
      <3>4. Keeps(Consumers \union {t})
        BY <2>1, <2>2 DEF Keeps, Seen, ProducerPhase, Threads
      <3>5. WakesAll(t)
        BY <2>1, <3>1, <3>3, <3>4 DEF WakesAll
      <3> QED
        BY <3>5 DEF Simulated
    <2> QED
      BY <1>0, <2>3, <2>4
  <1>4. CASE NotifyUnlinks(t)
    <2>1. PICK w \in Consumers :
             /\ pc[t] = "n_locked" /\ pc' = [pc EXCEPT ![t] = "n_post"]
             /\ notified' = [notified EXCEPT ![w] = TRUE]
             /\ notice' = notice /\ user_mutex' = user_mutex /\ In(impl[t], w)
      <3>1. pc[t] = "n_locked" /\ waiters[impl[t]] # <<>> /\ waiters \in [Conditions -> Seq(Consumers)]
        BY <1>0, <1>4 DEF NotifyUnlinks, TypeOK
      <3>2. impl[t] \in Conditions
        BY <1>0, <3>1, OneCondition DEF UsesCondition
      <3>3. waiters[impl[t]] \in Seq(Consumers)
        BY <3>1, <3>2
      <3>4. /\ Head(waiters[impl[t]]) \in Consumers /\ 1 \in 1..Len(waiters[impl[t]])
            /\ Head(waiters[impl[t]]) = waiters[impl[t]][1]
        BY <3>1, <3>3, HeadTailProperties
      <3> QED
        BY <1>4, <3>1, <3>4 DEF NotifyUnlinks, In
    <2>2. /\ impl[t] \in Conditions /\ impl[t] = implementation
      BY <1>0, <2>1, OneCondition DEF UsesCondition
    <2>3. pc[w] \in SleepPCs /\ ~notified[w] /\ w \in Threads /\ w # t
      BY <1>0, <2>1, <2>2 DEF LinkInv, LinkAt, Threads
    <2>4. pc[w] \in {"w_get", "w_timeout"}
      BY <1>0, <2>1, <2>3, OneHolder DEF SleepPCs, HoldPCs
    <2>5. /\ pc'[t] = "n_post" /\ \A u \in Threads \ {t} : pc'[u] = pc[u]
      BY <1>0, <2>1
    <2>6. /\ notified'[w] = TRUE /\ \A u \in Consumers \ {w} : notified'[u] = notified[u]
      BY <1>0, <2>1 DEF TypeOK
    <2>7. Shouting' <=> Shouting
      BY <1>0, <2>1, <2>5 DEF Shouting, Threads
    <2>8. Keeps({t, w})
      BY <1>0, <2>1, <2>5, <2>6, <2>7 DEF Keeps, Seen, WaitPhase, ProducerPhase, Threads
    <2>9. Seen(w)' = "notified"
      BY <2>3, <2>4, <2>5, <2>6 DEF Seen, WaitPhase, AwayPCs
    <2>10. Shouting <=> notice[t] = "all"
      BY <1>0, <2>1, HolderShouts DEF HoldPCs
    <2>11. CASE notice[t] = "one"
      <3>1. Seen(t) = "one" /\ Seen(t)' = "out"
        BY <1>0, <2>1, <2>5, <2>11 DEF Seen, ProducerPhase
      <3>2. Seen(w) = "blocked"
        BY <2>3, <2>4, <2>10, <2>11 DEF Seen, WaitPhase, AwayPCs
      <3>3. WakesOne(t)
        BY <2>1, <2>8, <2>9, <3>1, <3>2 DEF WakesOne
      <3> QED
        BY <3>3 DEF Simulated
    <2>12. CASE notice[t] = "all"
      <3>1. Seen(t) = "out" /\ Seen(t)' = "out"
        BY <1>0, <2>1, <2>5, <2>12 DEF Seen, ProducerPhase
      <3>2. Seen(w) = "notified"
        BY <2>3, <2>4, <2>10, <2>12 DEF Seen, WaitPhase, AwayPCs
      <3>3. Keeps({})
        BY <2>8, <2>9, <3>1, <3>2 DEF Keeps
      <3> QED
        BY <2>1, <3>3 DEF Simulated, Hidden
    <2> QED
      BY <1>0, <2>11, <2>12
  <1>5. CASE NotifyPosts(t)
    <2>1. /\ pc' = [pc EXCEPT ![t] = IF notice[t] = "all" THEN "n_locked" ELSE "n_unlock"]
          /\ notice' = notice /\ notified' = notified /\ pc[t] = "n_post"
          /\ user_mutex' = user_mutex
      BY <1>5 DEF NotifyPosts
    <2>2. /\ pc'[t] = IF notice[t] = "all" THEN "n_locked" ELSE "n_unlock"
          /\ \A u \in Threads \ {t} : pc'[u] = pc[u]
      BY <1>0, <2>1
    <2>3. Shouting' <=> Shouting
      BY <1>0, <2>1, <2>2 DEF Shouting, Threads
    <2>4. Seen(t)' = Seen(t)
      BY <1>0, <2>1, <2>2 DEF Seen, ProducerPhase
    <2>5. Keeps({})
      BY <1>0, <2>1, <2>3, <2>4, ProducerMoves
    <2> QED
      BY <2>1, <2>5 DEF Simulated, Hidden
  <1>6. CASE NotifyEnds(t)
    <2>1. /\ pc' = [pc EXCEPT ![t] = "user"] /\ notice' = [notice EXCEPT ![t] = "one"]
          /\ notified' = notified /\ user_mutex' = user_mutex
          /\ \/ pc[t] = "n_unlock"
             \/ pc[t] = "n_locked" /\ waiters[impl[t]] = <<>>
      BY <1>6 DEF NotifyEnds, ProducerReturns
    <2>2. /\ pc'[t] = "user" /\ \A u \in Threads \ {t} : pc'[u] = pc[u]
          /\ \A u \in Producers \ {t} : notice'[u] = notice[u]
      BY <1>0, <2>1
    <2>3. Seen(t)' = "out"
      BY <1>0, <2>2 DEF Seen, ProducerPhase
    <2>4. CASE pc[t] = "n_unlock"
      <3>1. Seen(t) = "out"
        BY <1>0, <2>4 DEF Seen, ProducerPhase
      <3>2. Keeps({})
        BY <1>0, <2>1, <2>2, <2>3, <2>4, <3>1, ProducerMoves, NoShout
      <3> QED
        BY <2>1, <3>2 DEF Simulated, Hidden
    <2>5. CASE pc[t] = "n_locked" /\ waiters[impl[t]] = <<>>
      <3>1. impl[t] = implementation
        BY <1>0, <2>5, OneCondition DEF UsesCondition
      <3>2. \A u \in Consumers : ~In(implementation, u)
        BY <2>5, <3>1, NobodyIn
      <3>3. ASSUME NEW u \in Consumers
            PROVE  Seen(u)' = Seen(u) /\ Seen(u) # "blocked"
        <4>1. ~(pc[u] \in SleepPCs /\ ~notified[u])
          BY <3>2, SleepersWait
        <4>2. pc'[u] = pc[u] /\ notified'[u] = notified[u]
          BY <1>0, <2>1, <2>2 DEF Threads
        <4> QED
          BY <4>1, <4>2 DEF Seen, WaitPhase, SleepPCs, AwayPCs
      <3>4. Keeps({t})
        BY <2>2, <3>3 DEF Keeps, Seen, ProducerPhase, Threads
      <3>5. CASE notice[t] = "one"
        <4>1. Seen(t) = "one"
          BY <1>0, <2>5, <3>5 DEF Seen, ProducerPhase
        <4>2. WakesNone(t)
          BY <2>1, <2>3, <3>3, <3>4, <4>1 DEF WakesNone
        <4> QED
          BY <4>2 DEF Simulated
      <3>6. CASE notice[t] = "all"
        <4>1. Seen(t) = "out"
          BY <1>0, <2>5, <3>6 DEF Seen, ProducerPhase
        <4>2. Keeps({})
          BY <2>3, <3>4, <4>1 DEF Keeps
        <4> QED
          BY <2>1, <4>2 DEF Simulated, Hidden
      <3> QED
        BY <1>0, <3>5, <3>6
    <2> QED
      BY <2>1, <2>4, <2>5
  <1> QED
    BY <1>1, <1>2, <1>3, <1>4, <1>5, <1>6 DEF NotifySteps

\* The contract does not see the destruction of a condition.
LEMMA DestroySimulated ==
    ASSUME RefInv, NEW t \in Producers, Destroy(t) \/ DestroySteps(t)
    PROVE  Simulated
  <1> USE DEF RefInv, IInv, Go, waitVars, notifyVars, handleVars, appVars
  <1>0. /\ TypeOK /\ t \in Threads /\ t \notin Consumers
        /\ notice \in [Producers -> {"one", "all"}] /\ pc \in [Threads -> PCs]
    BY ConstantsAssumption DEF Threads, TypeOK
  <1>1. PICK l \in DestroyPCs \union {"user"} :
           /\ pc[t] \in DestroyPCs \union {"user"} /\ pc' = [pc EXCEPT ![t] = l]
           /\ notified' = notified /\ user_mutex' = user_mutex
           /\ \A u \in Producers \ {t} : notice'[u] = notice[u]
    BY <1>0 DEF Destroy, DestroySteps, DestroyLocks, DestroyLooks, DestroyIsBusy,
                DestroyDeletes, ProducerReturns, DestroyPCs
  <1>2. pc'[t] = l
    BY <1>0, <1>1
  <1>3. Seen(t) = "out" /\ Seen(t)' = "out"
    BY <1>0, <1>1, <1>2 DEF Seen, ProducerPhase, DestroyPCs
  <1>4. Keeps({})
    BY <1>0, <1>1, <1>3, ProducerMoves, NoShout DEF DestroyPCs
  <1> QED
    BY <1>1, <1>4 DEF Simulated, Hidden

LEMMA StepSimulated == ASSUME RefInv, Next PROVE Simulated
  <1>1. Consumers \subseteq Threads /\ Producers \subseteq Threads
    BY DEF Threads
  <1>2. ASSUME NEW t \in Threads, Lock(t)
        PROVE  Simulated
    BY <1>2, UserSimulated
  <1>3. ASSUME NEW t \in Consumers, Take(t) \/ GiveUp(t) \/ Wait(t)
        PROVE  Simulated
    BY <1>1, <1>3, UserSimulated
  <1>4. ASSUME NEW t \in Producers, Put(t)
        PROVE  Simulated
    BY <1>1, <1>4, UserSimulated
  <1> QED
    BY <1>2, <1>3, <1>4, WaitSimulated, NotifySimulated, DestroySimulated DEF Next

LEMMA InitRef == Init => RefInv /\ Contract!Init
  <1> SUFFICES ASSUME Init PROVE RefInv /\ Contract!Init
    OBVIOUS
  <1>1. RefInv
    BY InitIInv, InitWake DEF RefInv, WakeInv, DeadlineInv, Init
  <1>2. user_mutex = None /\ \A t \in Threads : pc[t] = "user"
    BY DEF Init
  <1>3. \A t \in Threads : (t \in Consumers => ConsumerPhase(t) = "out") /\ ProducerPhase(t) = "out"
    BY <1>2 DEF ConsumerPhase, ProducerPhase, WaitPCs
  <1>4. Phases = [t \in Threads |-> "out"]
    BY <1>3 DEF Phases
  <1> QED
    BY <1>1, <1>2, <1>4, ContractActions

LEMMA RefStep == ASSUME TRUE \notin EarlyDestroy, RefInv, [Next]_vars PROVE RefInv'
  <1>1. IInv' /\ DeadlineInv'
    BY IInvStep, DeadlineStep DEF RefInv
  <1>2. OwnerInv'
    <2>1. CASE UNCHANGED vars
      BY <2>1 DEF vars, appVars, OwnerInv, OwnerAt, NoItemsAt, RefInv
    <2>2. CASE Next
      BY <2>2, OwnerStep, NoItemsStep DEF RefInv, OwnerInv
    <2> QED
      BY <2>1, <2>2
  <1> QED
    BY <1>1, <1>2 DEF RefInv

\* The lists, the mutexes and the semaphores do what the C++ standard promises of a
\* condition variable: a wait releases the mutex and blocks at once, a signal
\* wakes one thread that is blocked if there is one, a broadcast all that are
\* blocked at one moment, and a wait returns with the mutex, only after a
\* notification or its deadline (the safety part of ImplementsContract).
THEOREM ImplementsContractSafety ==
    ASSUME TRUE \notin EarlyDestroy
    PROVE  Spec => Contract!Safety
  <1>1. RefInv /\ [Next]_vars => RefInv'
    BY RefStep
  <1>2. RefInv /\ RefInv' /\ [Next]_vars => [Contract!Next]_(Contract!vars)
    <2> SUFFICES ASSUME RefInv, RefInv', [Next]_vars
                 PROVE  [Contract!Next]_(Contract!vars)
      OBVIOUS
    <2>1. Simulated
      <3>1. CASE UNCHANGED vars
        BY <3>1 DEF vars, appVars, notifyVars, Simulated, Hidden, Keeps, Seen, WaitPhase,
                    ProducerPhase, Shouting
      <3> QED
        BY <3>1, StepSimulated
    <2> QED
      BY <2>1, SimulatedIsAllowed DEF RefInv
  <1> QED
    BY <1>1, <1>2, InitRef, PTL DEF Spec, Contract!Safety

=============================================================================
