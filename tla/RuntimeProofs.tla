----------------------------- MODULE RuntimeProofs --------------------------
(***************************************************************************)
(* Proofs about the smaller parts of the runtime: the invariants of the    *)
(* run Runtime for every set of threads, objects, files and names, every   *)
(* size of the storage media and any number of operations. A step of       *)
(* RuntimeMC is one of its subject or leaves a component alone, so each    *)
(* component has an inductive invariant of its own.                        *)
(***************************************************************************)
EXTENDS RuntimeMC, FiniteSetTheorems, TLAPS

-----------------------------------------------------------------------------
(* startup.cpp, and initialize in backend.cpp.                              *)

\* The kernel objects exist in the order of their creation.
BootPrefixes ==
    {{}, {"initialization_mutex"}, {"initialization_mutex", "cxx_guard"},
     {"initialization_mutex", "cxx_guard", "cleanup_queue"},
     {"initialization_mutex", "cxx_guard", "cleanup_queue", "rollover_timer"},
     {"initialization_mutex", "cxx_guard", "cleanup_queue", "rollover_timer", "reaper"}}
BootTypes ==
    /\ boot_platform \in {"linux", "stm32"}
    /\ boot_made \in BootPrefixes
    /\ boot_threads \in Seq({"application", "reaper", "hooked"})
    /\ boot_at \in {"main", "define", "clocks", "objects", "hook", "scheduler", "exit",
                    "terminate", "Error_Handler"}
\* What each place of the start-up code has behind it.
BootPlaces ==
    /\ boot_at \in {"main", "define"} => boot_threads = <<>>
    /\ boot_at \in {"clocks", "objects", "hook", "scheduler"} =>
          boot_threads # <<>> /\ boot_threads[1] = "application"
    /\ boot_at \in {"main", "define", "clocks"} => boot_made = {}
    /\ boot_at \in {"hook", "scheduler"} => boot_initialized /\ boot_made = Boot!AllMade
    /\ boot_platform = "stm32" /\ boot_at # "main" => boot_libc_locks_ready
    /\ boot_platform = "stm32" /\ boot_at = "scheduler" => boot_adopted
    /\ boot_ran # {} => boot_initialized /\ boot_at \in {"scheduler", "exit", "Error_Handler"}
BootRan ==
    /\ boot_ran # {} => /\ boot_made = Boot!AllMade
                        /\ boot_threads # <<>> /\ boot_threads[1] = "application"
                        /\ boot_platform = "stm32" => boot_libc_locks_ready /\ boot_adopted
    /\ boot_platform = "stm32" /\ "main" \in boot_ran => boot_files_ready
    /\ boot_at = "terminate" => boot_made = {}
BootReaper == "reaper" \in boot_made <=> \E i \in DOMAIN boot_threads : boot_threads[i] = "reaper"
BootInv == BootTypes /\ BootPlaces /\ BootRan /\ BootReaper

LEMMA BootObjects ==
    /\ Boot!AllMade = {"initialization_mutex", "cxx_guard", "cleanup_queue", "rollover_timer", "reaper"}
    /\ Boot!AllMade \in BootPrefixes
  <1>1. Boot!AllMade = {Boot!Objects[i] : i \in 1 .. 5}
    BY DEF Boot!AllMade, Boot!Objects
  <1>2. 1 .. 5 = {1, 2, 3, 4, 5}
    OBVIOUS
  <1> QED BY <1>1, <1>2 DEF Boot!Objects, BootPrefixes

\* Undoing a failure deletes the objects made before.
LEMMA BootDeleted ==
    /\ Boot!Deleted("initialization_mutex") = {}
    /\ Boot!Deleted("cxx_guard") = {"initialization_mutex"}
    /\ Boot!Deleted("cleanup_queue") = {"initialization_mutex", "cxx_guard"}
    /\ Boot!Deleted("rollover_timer") = {"initialization_mutex", "cxx_guard", "cleanup_queue"}
    /\ Boot!Deleted("reaper")
          = {"initialization_mutex", "cxx_guard", "cleanup_queue", "rollover_timer"}
  <1>1. Boot!Deleted("initialization_mutex") = {}
    BY DEF Boot!Deleted
  <1>2. Boot!Deleted("cxx_guard") = {"initialization_mutex"}
    BY DEF Boot!Deleted
  <1>3. Boot!Deleted("cleanup_queue") = {"initialization_mutex", "cxx_guard"}
    BY DEF Boot!Deleted
  <1>4. Boot!Deleted("rollover_timer") = {"initialization_mutex", "cxx_guard", "cleanup_queue"}
    BY DEF Boot!Deleted
  <1>5. Boot!Deleted("reaper")
          = {"initialization_mutex", "cxx_guard", "cleanup_queue", "rollover_timer"}
    BY DEF Boot!Deleted
  <1> QED BY <1>1, <1>2, <1>3, <1>4, <1>5

\* The next object is the first one that is not there, and undoing a failure
\* deletes the ones before it.
LEMMA BootFollowing ==
    ASSUME boot_made \in BootPrefixes, boot_made # Boot!AllMade
    PROVE  /\ boot_made \cup {Boot!Following} \in BootPrefixes
           /\ boot_made \ Boot!Deleted(Boot!Following) = {}
           /\ Boot!Following \notin boot_made
  <1> DEFINE First(i) == /\ Boot!Objects[i] \notin boot_made
                         /\ \A j \in 1 .. i - 1 : Boot!Objects[j] \in boot_made
  <1>1. DOMAIN Boot!Objects = 1 .. 5
    BY DEF Boot!Objects
  <1>2. PICK k \in 1 .. 5 : First(k) /\ boot_made = {Boot!Objects[i] : i \in 1 .. k - 1}
    <2>1. CASE boot_made = {}
      <3>1. 1 .. 0 = {} OBVIOUS
      <3> QED BY <2>1, <3>1
    <2>2. CASE boot_made = {"initialization_mutex"}
      <3>1. 1 .. 1 = {1} /\ 2 - 1 = 1 OBVIOUS
      <3> QED BY <2>2, <3>1 DEF Boot!Objects
    <2>3. CASE boot_made = {"initialization_mutex", "cxx_guard"}
      <3>1. 1 .. 2 = {1, 2} /\ 3 - 1 = 2 OBVIOUS
      <3> QED BY <2>3, <3>1 DEF Boot!Objects
    <2>4. CASE boot_made = {"initialization_mutex", "cxx_guard", "cleanup_queue"}
      <3>1. 1 .. 3 = {1, 2, 3} /\ 4 - 1 = 3 OBVIOUS
      <3> QED BY <2>4, <3>1 DEF Boot!Objects
    <2>5. CASE boot_made = {"initialization_mutex", "cxx_guard", "cleanup_queue", "rollover_timer"}
      <3>1. 1 .. 4 = {1, 2, 3, 4} /\ 5 - 1 = 4 OBVIOUS
      <3> QED BY <2>5, <3>1 DEF Boot!Objects
    <2> QED BY <2>1, <2>2, <2>3, <2>4, <2>5, BootObjects DEF BootPrefixes
  <1>3. \A i \in 1 .. 5 : First(i) => i = k
    BY <1>2
  <1>4. Boot!Following = Boot!Objects[k]
    <2>1. Boot!Following = Boot!Objects[CHOOSE i \in 1 .. 5 : First(i)]
      BY <1>1 DEF Boot!Following
    <2>2. (CHOOSE i \in 1 .. 5 : First(i)) = k
      BY <1>2, <1>3
    <2> QED BY <2>1, <2>2
  <1> HIDE DEF First
  <1>5. CASE k = 1
    <2>1. 1 .. k - 1 = {} BY <1>5
    <2> QED BY <1>2, <1>4, <1>5, <2>1, BootDeleted DEF Boot!Objects, BootPrefixes
  <1>6. CASE k = 2
    <2>1. 1 .. k - 1 = {1} BY <1>6
    <2> QED BY <1>2, <1>4, <1>6, <2>1, BootDeleted DEF Boot!Objects, BootPrefixes
  <1>7. CASE k = 3
    <2>1. 1 .. k - 1 = {1, 2} BY <1>7
    <2> QED BY <1>2, <1>4, <1>7, <2>1, BootDeleted DEF Boot!Objects, BootPrefixes
  <1>8. CASE k = 4
    <2>1. 1 .. k - 1 = {1, 2, 3} BY <1>8
    <2> QED BY <1>2, <1>4, <1>8, <2>1, BootDeleted DEF Boot!Objects, BootPrefixes
  <1>9. CASE k = 5
    <2>1. 1 .. k - 1 = {1, 2, 3, 4} BY <1>9
    <2> QED BY <1>2, <1>4, <1>9, <2>1, BootDeleted DEF Boot!Objects, BootPrefixes
  <1> QED BY <1>5, <1>6, <1>7, <1>8, <1>9

LEMMA BootInitial == Boot!Init => BootInv
  BY BootObjects DEF Boot!Init, BootInv, BootTypes, BootPlaces, BootPrefixes, BootRan, BootReaper

LEMMA BootCreateStep ==
    ASSUME BootInv, Boot!CreateObject
    PROVE  BootInv'
  <1>1. /\ boot_made' = boot_made \cup {Boot!Following} /\ boot_made' \in BootPrefixes
        /\ Boot!Following \notin boot_made
    BY BootFollowing DEF Boot!CreateObject, BootInv, BootTypes
  <1>2. BootTypes'
    BY <1>1 DEF Boot!CreateObject, BootInv, BootTypes, Boot!clocks
  <1>3. boot_threads' # <<>> /\ boot_threads'[1] = "application"
    BY DEF Boot!CreateObject, BootInv, BootTypes, BootPlaces
  <1>4. BootPlaces'
    BY <1>1, <1>3 DEF Boot!CreateObject, BootInv, BootTypes, BootPlaces, Boot!clocks
  <1>5. BootReaper'
    <2>1. CASE Boot!Following = "reaper"
      <3>1. boot_threads' = Append(boot_threads, "reaper") /\ "reaper" \in boot_made'
        BY <1>1, <2>1 DEF Boot!CreateObject
      <3>2. /\ Len(boot_threads) + 1 \in DOMAIN boot_threads'
            /\ boot_threads'[Len(boot_threads) + 1] = "reaper"
        BY <3>1 DEF BootInv, BootTypes
      <3> QED BY <3>1, <3>2, Zenon DEF BootReaper
    <2>2. CASE Boot!Following # "reaper"
      BY <1>1, <2>2 DEF Boot!CreateObject, BootInv, BootReaper
    <2> QED BY <2>1, <2>2
  <1>6. BootRan'
    BY DEF Boot!CreateObject, BootInv, BootPlaces, BootRan, Boot!clocks
  <1> QED BY <1>2, <1>4, <1>5, <1>6 DEF BootInv

LEMMA BootFailStep ==
    ASSUME BootInv, Boot!FailToCreate
    PROVE  BootInv'
  <1>1. boot_made' = {}
    BY BootFollowing DEF Boot!FailToCreate, BootInv, BootTypes
  <1>2. "reaper" \notin boot_made
    BY BootObjects DEF Boot!FailToCreate, BootInv, BootTypes, BootPrefixes
  <1> QED BY <1>1, <1>2 DEF Boot!FailToCreate, BootInv, BootTypes, BootPlaces, BootPrefixes,
                            BootRan, BootReaper, Boot!clocks

LEMMA BootThreadStep ==
    ASSUME BootInv, Boot!CreateHooked \/ Boot!CreateApplication
    PROVE  BootInv'
  <1>1. CASE boot_threads' = boot_threads
    BY <1>1 DEF Boot!CreateHooked, Boot!CreateApplication, BootInv, BootTypes, BootPlaces,
                BootRan, BootReaper, Boot!clocks
  <1>2. CASE Boot!CreateHooked
    <2>1. /\ boot_threads' = Append(boot_threads, "hooked")
          /\ boot_threads \in Seq({"application", "reaper", "hooked"})
          /\ boot_threads # <<>> /\ boot_threads[1] = "application"
      BY <1>2 DEF Boot!CreateHooked, BootInv, BootTypes, BootPlaces
    <2>2. /\ boot_threads' \in Seq({"application", "reaper", "hooked"})
          /\ boot_threads' # <<>> /\ boot_threads'[1] = "application"
          /\ (\E i \in DOMAIN boot_threads' : boot_threads'[i] = "reaper")
             <=> (\E i \in DOMAIN boot_threads : boot_threads[i] = "reaper")
      BY <2>1
    <2> QED BY <1>2, <2>2 DEF Boot!CreateHooked, BootInv, BootTypes, BootPlaces,
                              BootRan, BootReaper, Boot!clocks
  <1>3. CASE Boot!CreateApplication /\ boot_threads' # boot_threads
    <2>1. boot_threads' = <<"application">> /\ boot_at' = "clocks" /\ boot_ran = {} /\ boot_made = {}
      BY <1>3 DEF Boot!CreateApplication, BootInv, BootPlaces
    <2>2. /\ boot_threads' \in Seq({"application", "reaper", "hooked"})
          /\ boot_threads' # <<>> /\ boot_threads'[1] = "application"
          /\ \A i \in DOMAIN boot_threads' : boot_threads'[i] # "reaper"
      BY <2>1
    <2> QED BY <1>3, <2>1, <2>2 DEF Boot!CreateApplication, BootInv, BootTypes, BootPlaces,
                                    BootRan, BootReaper, Boot!clocks
  <1> QED BY <1>1, <1>2, <1>3

LEMMA BootRunStep ==
    ASSUME BootInv,
           \/ \E thread \in {"application", "reaper", "hooked"} : Boot!Runs(thread)
           \/ Boot!__real_main
           \/ Boot!runtime_filex_initialize
    PROVE  BootInv'
  BY DEF Boot!Runs, Boot!__real_main, Boot!runtime_filex_initialize, BootInv, BootTypes,
         BootPlaces, BootRan, BootReaper, Boot!clocks

LEMMA BootStep == BootInv /\ [Boot!Next]_boot_vars => BootInv'
  <1> SUFFICES ASSUME BootInv, [Boot!Next]_boot_vars PROVE BootInv'
    OBVIOUS
  <1> USE DEF BootInv, BootTypes, BootPlaces, BootRan, BootReaper, Boot!clocks
  <1>1. CASE UNCHANGED boot_vars
    BY <1>1 DEF boot_vars
  <1>2. CASE Boot!__wrap_main
    BY <1>2 DEF Boot!__wrap_main
  <1>3. CASE Boot!InitializeClocks
    BY <1>3 DEF Boot!InitializeClocks
  <1>4. CASE Boot!Initialized
    BY <1>4 DEF Boot!Initialized
  <1>5. CASE Boot!Adopt
    BY <1>5 DEF Boot!Adopt
  <1>6. ASSUME NEW status \in {0, 1}, Boot!MainReturns(status) PROVE BootInv'
    BY <1>6 DEF Boot!MainReturns
  <1> HIDE DEF BootInv
  <1> QED BY <1>1, <1>2, <1>3, <1>4, <1>5, <1>6, BootCreateStep, BootFailStep, BootThreadStep,
             BootRunStep DEF Boot!Next

\* The code of a thread finds the whole runtime, main starts after the files are
\* ready, and a failed initialization leaves no kernel object, however many
\* threads the application's hook creates.
THEOREM StartsCompletelyHolds == Spec => []StartsCompletely
  <1>1. Init => BootInv
    BY BootInitial DEF Init
  <1>2. BootInv /\ [Next]_vars => BootInv'
    BY BootStep DEF Next, vars, boot_vars
  <1>3. BootInv => StartsCompletely
    <2>1. ASSUME BootInv
          PROVE  /\ boot_ran # {} => /\ boot_initialized /\ boot_made = Boot!AllMade
                                     /\ boot_threads[1] = "application"
                                     /\ boot_platform = "stm32" => boot_libc_locks_ready /\ boot_adopted
                 /\ boot_platform = "stm32" /\ "main" \in boot_ran => boot_files_ready
                 /\ boot_at = "terminate" => boot_made = {}
      BY <2>1, Zenon DEF BootInv, BootPlaces, BootRan
    <2> QED BY <2>1, Zenon DEF BootInv, BootReaper, StartsCompletely, Boot!StartsCompletely
  <1> QED BY <1>1, <1>2, <1>3, PTL DEF Spec, vars

-----------------------------------------------------------------------------
(* thread.hpp and thread.cpp: attributes for the next thread.               *)

\* In a factory the thread's own attributes are pending, and those published
\* before are kept aside.
AttrTypes ==
    /\ attr_pending_attributes \in [Threads -> AttributeValues \cup {"none"}]
    /\ attr_published \in [Threads -> AttributeValues \cup {"none"}]
    /\ attr_m_previous_attributes \in [Threads -> AttributeValues \cup {"none"}]
    /\ attr_at \in [Threads -> AttributeValues \cup {"user", "leaves"}]
    /\ attr_created \in [Threads -> [wanted : AttributeValues \cup {"default"},
                                      got : AttributeValues \cup {"default"}]]
AttrPlaces ==
    \A t \in Threads :
        /\ attr_at[t] \in AttributeValues => attr_pending_attributes[t] = attr_at[t]
        /\ attr_at[t] = "user" => attr_pending_attributes[t] = attr_published[t]
        /\ attr_at[t] # "user" => attr_m_previous_attributes[t] = attr_published[t]
AttrCreated == \A t \in Threads : attr_created[t].got = attr_created[t].wanted
AttrInv == AttrTypes /\ AttrPlaces /\ AttrCreated

LEMMA AttrInitial == Attributes!Init => AttrInv
  BY ConstantsAssumption
  DEF ConstantsAssumption, Attributes!Init, AttrInv, AttrTypes, AttrPlaces, AttrCreated,
      Attributes!None, Attributes!Default

LEMMA AttrStep == AttrInv /\ [Attributes!Next]_attr_vars => AttrInv'
  <1> SUFFICES ASSUME AttrInv, [Attributes!Next]_attr_vars PROVE AttrInv'
    OBVIOUS
  <1>0. {"none", "user", "leaves"} \cap AttributeValues = {} /\ AttrTypes /\ AttrPlaces /\ AttrCreated
    BY ConstantsAssumption DEF ConstantsAssumption, AttrInv
  <1> USE DEF Attributes!None, Attributes!Pending, Attributes!SetPending, Attributes!Own
  <1>1. CASE UNCHANGED attr_vars
    BY <1>1 DEF attr_vars, AttrInv, AttrTypes, AttrPlaces, AttrCreated
  <1>2. ASSUME NEW t \in Threads, NEW a \in AttributeValues,
               \/ Attributes!publish_attributes(t, a)
               \/ Attributes!PendingAttributesScope(t, a)
        PROVE  AttrInv'
    <2>1. AttrTypes'
      <3>1. CASE Attributes!publish_attributes(t, a)
        BY <1>0, <3>1 DEF AttrTypes, Attributes!publish_attributes
      <3>2. CASE Attributes!PendingAttributesScope(t, a)
        BY <1>0, <3>2 DEF AttrTypes, Attributes!PendingAttributesScope
      <3> QED BY <1>2, <3>1, <3>2
    <2>2. AttrPlaces'
      BY <1>0, <1>2 DEF AttrTypes, AttrPlaces, Attributes!publish_attributes,
                        Attributes!PendingAttributesScope
    <2>3. AttrCreated'
      BY <1>0, <1>2 DEF AttrCreated, Attributes!publish_attributes, Attributes!PendingAttributesScope
    <2> QED BY <2>1, <2>2, <2>3 DEF AttrInv
  <1>3. ASSUME NEW t \in Threads, Attributes!AllocationThrows(t) \/ Attributes!LeaveScope(t)
        PROVE  AttrInv'
    <2>1. AttrTypes'
      BY <1>0, <1>3 DEF AttrTypes, Attributes!AllocationThrows, Attributes!LeaveScope
    <2>2. AttrPlaces'
      BY <1>0, <1>3 DEF AttrTypes, AttrPlaces, Attributes!AllocationThrows, Attributes!LeaveScope
    <2>3. AttrCreated'
      BY <1>0, <1>3 DEF AttrCreated, Attributes!AllocationThrows, Attributes!LeaveScope
    <2> QED BY <2>1, <2>2, <2>3 DEF AttrInv
  <1>4. ASSUME NEW t \in Threads, Attributes!_M_start_thread(t)
        PROVE  AttrInv'
    <2> DEFINE got == Attributes!ValueOr(attr_pending_attributes[t])
               wanted == IF attr_at[t] = "user" THEN Attributes!ValueOr(attr_published[t])
                         ELSE attr_at[t]
               Kinds == AttributeValues \cup {"default"}
    <2>1. got = wanted /\ got \in Kinds
      BY <1>0, <1>4 DEF AttrTypes, AttrPlaces, Attributes!Default, Attributes!_M_start_thread,
                        Attributes!ValueOr
    <2>2. /\ attr_created' = [attr_created EXCEPT ![t].got = got, ![t].wanted = wanted]
          /\ attr_created \in [Threads -> [wanted : Kinds, got : Kinds]]
      BY <1>0, <1>4 DEF AttrTypes, Attributes!_M_start_thread
    <2> HIDE DEF got, wanted, Kinds
    <2>3. /\ attr_pending_attributes' = [attr_pending_attributes EXCEPT ![t] = "none"]
          /\ attr_m_previous_attributes' = attr_m_previous_attributes
          /\ \/ /\ attr_at[t] = "user" /\ attr_at' = attr_at
                /\ attr_published' = [attr_published EXCEPT ![t] = "none"]
             \/ /\ attr_at[t] # "user" /\ attr_at' = [attr_at EXCEPT ![t] = "leaves"]
                /\ attr_published' = attr_published
      BY <1>4 DEF Attributes!_M_start_thread, Attributes!Consumed
    <2>4. /\ attr_created' \in [Threads -> [wanted : Kinds, got : Kinds]]
          /\ attr_created'[t].got = attr_created'[t].wanted
          /\ \A u \in Threads \ {t} : attr_created'[u] = attr_created[u]
      BY <2>1, <2>2
    <2>5. AttrCreated'
      BY <1>0, <2>4 DEF AttrCreated
    <2>6. AttrTypes'
      BY <1>0, <2>3, <2>4 DEF AttrTypes, Kinds
    <2>7. AttrPlaces'
      BY <1>0, <2>3 DEF AttrTypes, AttrPlaces
    <2> QED BY <2>5, <2>6, <2>7 DEF AttrInv
  <1> QED BY <1>1, <1>2, <1>3, <1>4 DEF Attributes!Next

-----------------------------------------------------------------------------
(* The drivers in storage_media.cpp.                                        *)

LEMMA DivMod ==
    ASSUME NEW p \in Nat \ {0}, NEW a \in Int
    PROVE  a % p \in 0 .. p - 1 /\ a \div p \in Int /\ a = p * (a \div p) + (a % p)
  BY SMT

LEMMA ModUnique ==
    ASSUME NEW p \in Nat \ {0}, NEW q \in Int, NEW r \in 0 .. p - 1
    PROVE  (p * q + r) % p = r
  BY SMT

LEMMA DivUnique ==
    ASSUME NEW p \in Nat \ {0}, NEW q \in Int, NEW r \in 0 .. p - 1
    PROVE  (p * q + r) \div p = q
  BY SMT

\* A byte is in a block that begins at a multiple of the size exactly if its
\* quotient is that block's.
LEMMA BlockBytes ==
    ASSUME NEW p \in Nat \ {0}, NEW q \in Int, NEW b \in Int
    PROVE  b \div p = (p * q) \div p <=> p * q <= b /\ b < p * q + p
  <1> DEFINE start == p * q
             r == b - start
  <1>1. start \in Int /\ r \in Int
    OBVIOUS
  <1>2. (p * q) \div p = q
    <2>1. (p * q + 0) \div p = q
      BY DivUnique
    <2> QED BY <2>1, <1>1
  <1>3. ASSUME start <= b, b < start + p PROVE b \div p = q
    <2>1. r \in 0 .. p - 1 /\ b = start + r
      <3> HIDE DEF start
      <3> QED BY <1>1, <1>3
    <2> HIDE DEF r
    <2> QED BY <2>1, DivUnique
  <1>4. ASSUME b \div p = q PROVE start <= b /\ b < start + p
    <2>1. b = p * (b \div p) + (b % p) /\ b % p \in 0 .. p - 1
      BY DivMod
    <2>2. b = start + (b % p)
      BY <1>4, <2>1
    <2> HIDE DEF start
    <2> QED BY <1>1, <2>1, <2>2
  <1> QED BY <1>2, <1>3, <1>4

\* Blocks that begin before the end of the device end in it.
LEMMA BlockFits ==
    ASSUME NEW p \in Nat \ {0}, NEW q \in Nat, NEW n \in Nat, q * p < n * p
    PROVE  q * p + p <= n * p
  <1>1. q < n
    <2> SUFFICES ASSUME n <= q PROVE FALSE
      OBVIOUS
    <2>1. (q - n) * p >= 0
      <3>1. q - n \in Nat OBVIOUS
      <3> QED BY <3>1
    <2>2. (q - n) * p = q * p - n * p
      OBVIOUS
    <2> QED BY <2>1, <2>2
  <1>2. (n - q - 1) * p >= 0
    <2>1. n - q - 1 \in Nat BY <1>1
    <2> QED BY <2>1
  <1>3. (n - q - 1) * p = n * p - q * p - p
    OBVIOUS
  <1> QED BY <1>2, <1>3

\* Programming does not wrap around before the end of its page.
LEMMA PageOrder ==
    ASSUME NEW p \in Nat \ {0}, NEW f \in Nat, NEW i \in Nat, i < p - (f % p)
    PROVE  (f - (f % p)) + ((f + i) % p) = f + i
  <1> DEFINE q == f \div p
             r == f % p
  <1>1. q \in Int /\ r \in 0 .. p - 1 /\ f = p * q + r
    BY DivMod
  <1> HIDE DEF q
  <1>2. i + r \in 0 .. p - 1
    BY <1>1
  <1>3. f + i = p * q + (i + r)
    <2> HIDE DEF r
    <2> QED BY <1>1
  <1>4. (p * q + (i + r)) % p = i + r
    <2> DEFINE s == i + r
    <2>1. s \in 0 .. p - 1 BY <1>2
    <2> HIDE DEF s
    <2>2. (p * q + s) % p = s BY <1>1, <2>1, ModUnique
    <2> QED BY <2>2 DEF s
  <1>5. (f + i) % p = i + r
    BY <1>3, <1>4
  <1> HIDE DEF r
  <1>6. (f - r) + (i + r) = f + i
    BY <1>1
  <1> QED BY <1>5, <1>6 DEF r

MediaTransfers == {"read", "write", "release"}
MediaTypes ==
    /\ media_request \in [does : {"nothing", "read", "write", "release", "program", "erase"},
                          from : Nat, hidden : Nat, count : Nat, done : Nat,
                          status : {"none", "busy", "error", "success"}]
    /\ media_sectors \in [0 .. Blocks - 1 -> {"old", "write", "release"}]
    /\ media_nor \in [0 .. FlashSize - 1 -> {"erased", "old", "data", "mixed"}]
\* A request that has begun is within the device, and ends when all is done.
MediaRange ==
    /\ media_request.done <= media_request.count
    /\ media_request.status = "success" => media_request.done = media_request.count
    /\ media_request.status \in {"busy", "success"} \/ media_request.done > 0 =>
        /\ media_request.does \in MediaTransfers =>
              media_request.from + media_request.hidden + media_request.count <= Blocks
        /\ media_request.does \in {"program", "erase"} =>
              media_request.from + media_request.count <= FlashSize
    /\ media_request.does \in {"program", "erase"} => media_request.hidden = 0
    /\ media_request.does = "erase" =>
          media_request.count = EraseBlock /\ \E k \in Nat : media_request.from = EraseBlock * k
    /\ media_request.does = "nothing" => media_request.count = 0
\* What is done of the request has changed, and nothing else.
MediaDone(i) == media_request.from + media_request.hidden <= i
                /\ i < media_request.from + media_request.hidden + media_request.done
MediaSectors ==
    \A s \in 0 .. Blocks - 1 :
        media_sectors[s] = IF media_request.does \in {"write", "release"} /\ MediaDone(s)
                           THEN media_request.does ELSE "old"
MediaNor ==
    \A b \in 0 .. FlashSize - 1 :
        IF media_request.does = "program" /\ MediaDone(b) THEN media_nor[b] \in {"data", "mixed"}
        ELSE IF media_request.does = "erase" /\ MediaDone(b) THEN media_nor[b] = "erased"
        ELSE media_nor[b] = Media!Pristine[b]
MediaInv == MediaTypes /\ MediaRange /\ MediaSectors /\ MediaNor

LEMMA MediaConstants ==
    /\ Blocks \in Nat /\ Words \in Nat \ {0} /\ Blocks < Words
    /\ Page \in Nat \ {0} /\ EraseBlock \in Nat \ {0} /\ FlashSize \in Nat
    /\ \E n \in Nat : FlashSize = n * EraseBlock
  BY ConstantsAssumption DEF ConstantsAssumption

\* A device that nothing has been asked of, or whose request has done nothing yet.
LEMMA MediaFresh ==
    ASSUME NEW r, r.done = 0,
           r \in [does : {"nothing", "read", "write", "release", "program", "erase"},
                  from : Nat, hidden : Nat, count : Nat, done : Nat,
                  status : {"none", "busy", "error", "success"}],
           media_request' = r, media_sectors' = Media!Untouched, media_nor' = Media!Pristine,
           MediaRange'
    PROVE  MediaInv'
  <1>1. MediaTypes'
    BY MediaConstants DEF MediaTypes, Media!Untouched, Media!Pristine
  <1>2. ASSUME NEW i \in Int PROVE ~MediaDone(i)'
    BY <1>2 DEF MediaDone
  <1>3. MediaSectors'
    BY <1>2, MediaConstants DEF MediaSectors, Media!Untouched
  <1>4. MediaNor'
    BY <1>2, MediaConstants DEF MediaNor
  <1> QED BY <1>1, <1>3, <1>4 DEF MediaInv

LEMMA MediaInitial == Media!Init => MediaInv
  <1> SUFFICES ASSUME Media!Init PROVE MediaInv
    OBVIOUS
  <1>1. MediaTypes
    BY MediaConstants DEF Media!Init, MediaTypes, Media!NoRequest, Media!Untouched, Media!Pristine
  <1>2. MediaRange
    BY MediaConstants DEF Media!Init, MediaRange, Media!NoRequest, MediaTransfers
  <1>3. MediaSectors
    BY MediaConstants DEF Media!Init, MediaSectors, MediaDone, Media!NoRequest, Media!Untouched
  <1>4. MediaNor
    BY MediaConstants DEF Media!Init, MediaNor, MediaDone, Media!NoRequest
  <1> QED BY <1>1, <1>2, <1>3, <1>4 DEF MediaInv

LEMMA MediaRequestStep ==
    ASSUME MediaInv,
           \/ \E sector, hidden, count \in Media!Values :
                 \E does \in {"read", "write"} : Media!DirectRequest(does, sector, hidden, count)
           \/ \E sector, count \in Media!Values :
                 \E does \in {"read", "write", "release"} : Media!LevelxRequest(does, sector, count)
    PROVE  MediaInv'
  <1>1. PICK does \in {"read", "write", "release"}, sector \in Nat, hidden \in Nat, count \in Nat :
            /\ Media!Fresh
            /\ media_request' = [does |-> does, from |-> sector, hidden |-> hidden, count |-> count,
                  done |-> 0, status |-> IF Media!valid_sector_range(sector, hidden, count, Blocks)
                                         THEN "busy" ELSE "error"]
    <2>1. Media!Values \subseteq Nat /\ 0 \in Nat
      BY MediaConstants DEF Media!Values
    <2>2. ASSUME NEW sector \in Media!Values, NEW hidden \in Media!Values,
                 NEW count \in Media!Values, NEW does \in {"read", "write"},
                 Media!DirectRequest(does, sector, hidden, count)
          PROVE  /\ Media!Fresh
                 /\ media_request' = [does |-> does, from |-> sector, hidden |-> hidden, count |-> count,
                      done |-> 0, status |-> IF Media!valid_sector_range(sector, hidden, count, Blocks)
                                             THEN "busy" ELSE "error"]
      BY <2>2 DEF Media!DirectRequest, Media!Served
    <2>3. ASSUME NEW sector \in Media!Values, NEW count \in Media!Values,
                 NEW does \in {"read", "write", "release"}, Media!LevelxRequest(does, sector, count)
          PROVE  /\ Media!Fresh
                 /\ media_request' = [does |-> does, from |-> sector, hidden |-> 0, count |-> count,
                      done |-> 0, status |-> IF Media!valid_sector_range(sector, 0, count, Blocks)
                                             THEN "busy" ELSE "error"]
      BY <2>3 DEF Media!LevelxRequest, Media!Served, Media!NoRequest
    <2> QED BY <2>1, <2>2, <2>3
  <1>2. Media!valid_sector_range(sector, hidden, count, Blocks) => sector + hidden + count <= Blocks
    BY MediaConstants DEF Media!valid_sector_range
  <1>3. MediaRange'
    BY <1>1, <1>2 DEF MediaRange, MediaTransfers
  <1> QED BY <1>1, <1>3, MediaFresh DEF Media!Fresh

LEMMA MediaFlashStep ==
    ASSUME MediaInv,
           \/ \E offset, bytes \in 0 .. FlashSize + Page : Media!Program(offset, bytes)
           \/ \E block \in 0 .. FlashSize \div EraseBlock : Media!Erase(block)
    PROVE  MediaInv'
  <1>1. ASSUME NEW offset \in 0 .. FlashSize + Page, NEW bytes \in 0 .. FlashSize + Page,
               Media!Program(offset, bytes)
        PROVE  MediaInv'
    <2>1. /\ Media!Fresh
          /\ media_request' = [does |-> "program", from |-> offset, hidden |-> 0, count |-> bytes,
                done |-> 0, status |-> IF offset <= FlashSize /\ bytes <= FlashSize - offset
                                       THEN "busy" ELSE "error"]
      BY <1>1 DEF Media!Program, Media!Served, Media!NoRequest
    <2>2. offset \in Nat /\ bytes \in Nat
      BY <1>1, MediaConstants
    <2>3. MediaRange'
      BY <2>1, <2>2, MediaConstants DEF MediaRange, MediaTransfers
    <2> QED BY <2>1, <2>2, <2>3, MediaFresh DEF Media!Fresh
  <1>2. ASSUME NEW block \in 0 .. FlashSize \div EraseBlock, Media!Erase(block)
        PROVE  MediaInv'
    <2> DEFINE start == block * EraseBlock
    <2>1. /\ Media!Fresh
          /\ media_request' = [does |-> "erase", from |-> start, hidden |-> 0, count |-> EraseBlock,
                done |-> 0, status |-> IF start < FlashSize THEN "busy" ELSE "error"]
      BY <1>2 DEF Media!Erase, Media!Served, Media!NoRequest
    <2>2. block \in Nat
      BY <1>2, MediaConstants, DivMod
    <2>3. start \in Nat /\ start = EraseBlock * block
      BY <2>2, MediaConstants
    <2>4. start < FlashSize => start + EraseBlock <= FlashSize
      <3>1. PICK n \in Nat : FlashSize = n * EraseBlock
        BY MediaConstants
      <3> QED BY <2>2, <3>1, MediaConstants, BlockFits
    <2> HIDE DEF start
    <2>5. MediaRange'
      BY <2>1, <2>2, <2>3, <2>4, MediaConstants DEF MediaRange, MediaTransfers
    <2> QED BY <2>1, <2>3, <2>5, MediaFresh, MediaConstants DEF Media!Fresh
  <1> QED BY <1>1, <1>2

LEMMA MediaEndStep ==
    ASSUME MediaInv, Media!Finish \/ Media!Fails
    PROVE  MediaInv'
  <1>1. PICK status \in {"success", "error"} :
            /\ media_request' = [media_request EXCEPT !.status = status]
            /\ media_request.status = "busy"
            /\ status = "success" => media_request.done = media_request.count
            /\ UNCHANGED <<media_sectors, media_nor>>
    BY DEF Media!Finish, Media!Fails, Media!Finished
  <1>2. MediaTypes'
    BY <1>1 DEF MediaInv, MediaTypes
  <1>3. /\ media_request'.does = media_request.does /\ media_request'.from = media_request.from
        /\ media_request'.hidden = media_request.hidden /\ media_request'.count = media_request.count
        /\ media_request'.done = media_request.done /\ media_request'.status = status
    BY <1>1 DEF MediaInv, MediaTypes
  <1>4. MediaRange'
    BY <1>1, <1>3 DEF MediaInv, MediaRange
  <1>5. MediaSectors' /\ MediaNor'
    BY <1>1, <1>3 DEF MediaInv, MediaSectors, MediaNor, MediaDone
  <1> QED BY <1>2, <1>4, <1>5 DEF MediaInv

\* The parts of a request that a step of it leaves alone.
LEMMA MediaProgress ==
    ASSUME MediaInv, media_request.status = "busy", NEW n \in Nat,
           media_request.done + n <= media_request.count,
           media_request' = [media_request EXCEPT !.done = @ + n]
    PROVE  /\ MediaRange'
           /\ media_request' \in [does : {"nothing", "read", "write", "release", "program", "erase"},
                  from : Nat, hidden : Nat, count : Nat, done : Nat,
                  status : {"none", "busy", "error", "success"}]
           /\ media_request'.does = media_request.does /\ media_request'.from = media_request.from
           /\ media_request'.hidden = media_request.hidden
           /\ media_request'.count = media_request.count
           /\ media_request'.done = media_request.done + n
           /\ media_request'.status = "busy"
  BY DEF MediaInv, MediaTypes, MediaRange

LEMMA MediaSectorStep ==
    ASSUME MediaInv, Media!TransferSector
    PROVE  MediaInv'
  <1> DEFINE first == media_request.from + media_request.hidden
  <1>1. /\ media_request.status = "busy" /\ media_request.does \in MediaTransfers
        /\ media_request.done < media_request.count
        /\ media_request.from \in Nat /\ media_request.hidden \in Nat
        /\ media_request.count \in Nat /\ media_request.done \in Nat
        /\ first + media_request.count <= Blocks
    BY DEF Media!TransferSector, Media!Finished, MediaInv, MediaTypes, MediaRange, MediaTransfers
  <1>2. /\ media_request'.does = media_request.does /\ media_request'.from = media_request.from
        /\ media_request'.hidden = media_request.hidden
        /\ media_request'.done = media_request.done + 1
        /\ MediaRange'
        /\ media_request' \in [does : {"nothing", "read", "write", "release", "program", "erase"},
                  from : Nat, hidden : Nat, count : Nat, done : Nat,
                  status : {"none", "busy", "error", "success"}]
    BY <1>1, MediaProgress DEF Media!TransferSector
  <1>3. Media!Address = first + media_request.done /\ Media!Address \in 0 .. Blocks - 1
    <2>1. first + media_request.done \in 0 .. Words - 1
      BY <1>1, MediaConstants
    <2> DEFINE a == first + media_request.done
    <2>2. (Words * 0 + a) % Words = a
      <3> HIDE DEF a, first
      <3> QED BY <2>1, ModUnique, MediaConstants DEF a
    <2>3. Words * 0 + a = a
      BY <2>1, MediaConstants
    <2>4. Media!Address = a
      BY <2>2, <2>3 DEF Media!Address
    <2> QED BY <1>1, <2>4, MediaConstants
  <1>4. media_nor' = media_nor
    BY DEF Media!TransferSector
  <1>5. media_sectors' = IF media_request.does # "read"
                         THEN [media_sectors EXCEPT ![Media!Address] = media_request.does]
                         ELSE media_sectors
    BY <1>3 DEF Media!TransferSector, MediaInv, MediaTypes
  <1>6. MediaTypes'
    BY <1>1, <1>2, <1>4, <1>5 DEF MediaInv, MediaTypes, MediaTransfers
  <1>7. MediaSectors'
    <2>1. /\ media_sectors \in [0 .. Blocks - 1 -> {"old", "write", "release"}] /\ MediaSectors
          /\ media_request.does \in {"read", "write", "release"} /\ first \in Nat
      BY <1>1 DEF MediaInv, MediaTypes, MediaTransfers
    <2>2. PICK address \in 0 .. Blocks - 1 :
              address = Media!Address /\ address = first + media_request.done
      BY <1>3
    <2>3. \A s \in 0 .. Blocks - 1 :
              media_sectors'[s] = IF media_request.does # "read" /\ s = address THEN media_request.does
                                  ELSE media_sectors[s]
      BY <1>5, <2>1, <2>2
    <2>4. \A s \in 0 .. Blocks - 1 : MediaDone(s)' <=> MediaDone(s) \/ s = address
      BY <1>1, <1>2, <2>1, <2>2 DEF MediaDone
    <2> HIDE DEF first
    <2> QED BY <1>2, <2>1, <2>3, <2>4 DEF MediaSectors
  <1>8. MediaNor'
    BY <1>1, <1>2, <1>4 DEF MediaInv, MediaNor, MediaTransfers
  <1> QED BY <1>2, <1>6, <1>7, <1>8 DEF MediaInv

LEMMA MediaPageStep ==
    ASSUME MediaInv, Media!ProgramPage
    PROVE  MediaInv'
  <1> DEFINE first == media_request.from + media_request.done
             left == media_request.count - media_request.done
             room == Page - (first % Page)
             n == Media!PageBytes
             written == {first - (first % Page) + ((first + i) % Page) : i \in 0 .. n - 1}
  <1>1. /\ media_request.status = "busy" /\ media_request.does = "program"
        /\ media_request.done < media_request.count /\ media_request.hidden = 0
        /\ media_request.from \in Nat /\ media_request.count \in Nat /\ media_request.done \in Nat
        /\ media_request.from + media_request.count <= FlashSize
    BY DEF Media!ProgramPage, Media!Finished, MediaInv, MediaTypes, MediaRange
  <1>2. first \in Nat /\ left \in Nat /\ room \in Nat
    <2>1. first \in Nat /\ left \in Nat BY <1>1
    <2>2. first % Page \in 0 .. Page - 1
      <3> HIDE DEF first
      <3> QED BY <2>1, MediaConstants, DivMod
    <2> QED BY <2>1, <2>2, MediaConstants
  <1>3. n \in Nat /\ n <= left /\ n <= room
    <2>1. n = IF left < room THEN left ELSE room
      BY DEF Media!PageBytes
    <2> HIDE DEF n, left, room
    <2> QED BY <2>1, <1>2
  <1>4. /\ media_request'.does = media_request.does /\ media_request'.from = media_request.from
        /\ media_request'.hidden = media_request.hidden
        /\ media_request'.done = media_request.done + n
        /\ MediaRange'
        /\ media_request' \in [does : {"nothing", "read", "write", "release", "program", "erase"},
                  from : Nat, hidden : Nat, count : Nat, done : Nat,
                  status : {"none", "busy", "error", "success"}]
    <2>1. media_request.done + n <= media_request.count
      <3> HIDE DEF n
      <3> QED BY <1>1, <1>3
    <2>2. media_request' = [media_request EXCEPT !.done = @ + n]
      BY DEF Media!ProgramPage
    <2> HIDE DEF n
    <2> QED BY <1>1, <1>3, <2>1, <2>2, MediaProgress
  <1>5. /\ media_nor' = [b \in DOMAIN media_nor |-> IF b \notin written THEN media_nor[b]
                            ELSE IF media_nor[b] = "erased" THEN "data" ELSE "mixed"]
        /\ media_sectors' = media_sectors
    BY DEF Media!ProgramPage
  <1>6. written = first .. first + n - 1
    <2>1. ASSUME NEW i \in 0 .. n - 1
          PROVE  first - (first % Page) + ((first + i) % Page) = first + i
      <3>1. i \in Nat /\ i < room
        <4> HIDE DEF n, room
        <4> QED BY <1>2, <1>3
      <3> HIDE DEF first
      <3>2. first \in Nat /\ i \in Nat /\ i < Page - (first % Page)
        BY <1>2, <3>1
      <3>3. Page \in Nat \ {0}
        BY MediaConstants
      <3> QED BY <3>2, <3>3, PageOrder, Zenon
    <2>2. written = {first + i : i \in 0 .. n - 1}
      BY <2>1
    <2> HIDE DEF written
    <2>3. {first + i : i \in 0 .. n - 1} = first .. first + n - 1
      <3> HIDE DEF first, n
      <3>1. ASSUME NEW x \in first .. first + n - 1
            PROVE  \E i \in 0 .. n - 1 : x = first + i
        <4>1. x - first \in 0 .. n - 1 /\ x = first + (x - first)
          BY <1>2, <1>3
        <4> QED BY <4>1
      <3>2. ASSUME NEW i \in 0 .. n - 1 PROVE first + i \in first .. first + n - 1
        BY <1>2, <1>3
      <3> QED BY <3>1, <3>2
    <2> QED BY <2>2, <2>3
  <1>7. ASSUME NEW b \in Int
        PROVE  MediaDone(b)' <=> MediaDone(b) \/ b \in first .. first + n - 1
    <2> HIDE DEF n
    <2> QED BY <1>1, <1>3, <1>4 DEF MediaDone
  <1> HIDE DEF n, written
  <1>8. MediaTypes'
    BY <1>4, <1>5 DEF MediaInv, MediaTypes
  <1>9. MediaSectors'
    BY <1>1, <1>4, <1>5 DEF MediaInv, MediaSectors
  <1>10. MediaNor'
    <2> SUFFICES ASSUME NEW b \in 0 .. FlashSize - 1
                 PROVE  (IF media_request.does = "program" /\ MediaDone(b) THEN media_nor[b] \in {"data", "mixed"}
                         ELSE IF media_request.does = "erase" /\ MediaDone(b) THEN media_nor[b] = "erased"
                         ELSE media_nor[b] = Media!Pristine[b])'
      BY DEF MediaNor
    <2>1. /\ b \in Int
          /\ IF MediaDone(b) THEN media_nor[b] \in {"data", "mixed"}
             ELSE media_nor[b] = Media!Pristine[b]
          /\ media_nor'[b] = IF b \notin first .. first + n - 1 THEN media_nor[b]
                             ELSE IF media_nor[b] = "erased" THEN "data" ELSE "mixed"
      BY <1>1, <1>5, <1>6, MediaConstants DEF MediaInv, MediaNor, MediaTypes
    <2> QED BY <1>1, <1>4, <1>7, <2>1
  <1> QED BY <1>4, <1>8, <1>9, <1>10 DEF MediaInv

LEMMA MediaEraseStep ==
    ASSUME MediaInv, Media!EraseSector
    PROVE  MediaInv'
  <1> DEFINE n == media_request.count - media_request.done
  <1>1. /\ media_request.status = "busy" /\ media_request.does = "erase"
        /\ media_request.done <= media_request.count /\ media_request.hidden = 0
        /\ media_request.from \in Nat /\ media_request.count \in Nat /\ media_request.done \in Nat
        /\ media_request.from + media_request.count <= FlashSize
        /\ media_request.count = EraseBlock
    BY DEF Media!EraseSector, MediaInv, MediaTypes, MediaRange
  <1>2. PICK k \in Nat : media_request.from = EraseBlock * k
    BY <1>1 DEF MediaInv, MediaRange
  <1>3. /\ n \in Nat /\ media_request.done + n = media_request.count
        /\ media_request' = [media_request EXCEPT !.done = @ + n]
    <2>1. n \in Nat /\ media_request.done + n = media_request.count
      BY <1>1
    <2>2. media_request' = [media_request EXCEPT !.done = media_request.count]
      BY DEF Media!EraseSector
    <2> HIDE DEF n
    <2> QED BY <2>1, <2>2
  <1> HIDE DEF n
  <1>4. /\ media_request'.does = media_request.does /\ media_request'.from = media_request.from
        /\ media_request'.hidden = media_request.hidden
        /\ media_request'.done = EraseBlock
        /\ MediaRange'
        /\ media_request' \in [does : {"nothing", "read", "write", "release", "program", "erase"},
                  from : Nat, hidden : Nat, count : Nat, done : Nat,
                  status : {"none", "busy", "error", "success"}]
    <2>1. media_request.done + n <= media_request.count
      BY <1>1, <1>3
    <2> QED BY <1>1, <1>3, <2>1, MediaProgress
  <1>5. ASSUME NEW b \in 0 .. FlashSize - 1
        PROVE  b \div EraseBlock = media_request.from \div EraseBlock <=> MediaDone(b)'
    <2>1. b \div EraseBlock = (EraseBlock * k) \div EraseBlock
             <=> EraseBlock * k <= b /\ b < EraseBlock * k + EraseBlock
      BY MediaConstants, BlockBytes
    <2>2. b \div EraseBlock = media_request.from \div EraseBlock
             <=> media_request.from <= b /\ b < media_request.from + EraseBlock
      BY <1>2, <2>1
    <2> QED BY <1>1, <1>4, <2>2 DEF MediaDone
  <1>6. /\ media_sectors' = media_sectors
        /\ media_nor' = [b \in DOMAIN media_nor |->
                  IF b \div EraseBlock = media_request.from \div EraseBlock THEN "erased" ELSE media_nor[b]]
        /\ DOMAIN media_nor = 0 .. FlashSize - 1
    BY DEF Media!EraseSector, MediaInv, MediaTypes
  <1>7. ASSUME NEW b \in 0 .. FlashSize - 1
        PROVE  media_nor'[b] = IF MediaDone(b)' THEN "erased" ELSE media_nor[b]
    BY <1>5, <1>6
  <1>8. MediaTypes'
    <2>1. media_nor' = [b \in 0 .. FlashSize - 1 |-> media_nor'[b]]
      BY <1>6
    <2>2. \A b \in 0 .. FlashSize - 1 : media_nor'[b] \in {"erased", "old", "data", "mixed"}
      BY <1>7 DEF MediaInv, MediaTypes
    <2> QED BY <1>4, <1>6, <2>1, <2>2 DEF MediaInv, MediaTypes
  <1>9. MediaSectors'
    BY <1>1, <1>4, <1>6 DEF MediaInv, MediaSectors
  <1>10. MediaNor'
    <2> SUFFICES ASSUME NEW b \in 0 .. FlashSize - 1
                 PROVE  (IF media_request.does = "program" /\ MediaDone(b) THEN media_nor[b] \in {"data", "mixed"}
                         ELSE IF media_request.does = "erase" /\ MediaDone(b) THEN media_nor[b] = "erased"
                         ELSE media_nor[b] = Media!Pristine[b])'
      BY DEF MediaNor
    <2>1. MediaDone(b) => MediaDone(b)'
      BY <1>1, <1>4, MediaConstants DEF MediaDone
    <2>2. ~MediaDone(b) => media_nor[b] = Media!Pristine[b]
      BY <1>1 DEF MediaInv, MediaNor
    <2> QED BY <1>1, <1>4, <1>7, <2>1, <2>2
  <1> QED BY <1>4, <1>8, <1>9, <1>10 DEF MediaInv

LEMMA MediaStep == MediaInv /\ [Media!Next]_media_vars => MediaInv'
  <1> SUFFICES ASSUME MediaInv, [Media!Next]_media_vars PROVE MediaInv'
    OBVIOUS
  <1>1. CASE UNCHANGED media_vars
    BY <1>1 DEF media_vars, MediaInv, MediaTypes, MediaRange, MediaSectors, MediaNor, MediaDone
  <1> QED BY <1>1, MediaRequestStep, MediaFlashStep, MediaEndStep, MediaSectorStep,
             MediaPageStep, MediaEraseStep DEF Media!Next

LEMMA MediaSafe == MediaInv => Media!TransfersStayInside
  <1> SUFFICES ASSUME MediaInv PROVE Media!TransfersStayInside
    OBVIOUS
  <1> DEFINE first == media_request.from + media_request.hidden
  <1>1. /\ media_request.from \in Nat /\ media_request.hidden \in Nat
        /\ media_request.count \in Nat /\ media_request.done \in Nat
        /\ media_request.done <= media_request.count
        /\ DOMAIN media_sectors = 0 .. Blocks - 1 /\ DOMAIN media_nor = 0 .. FlashSize - 1
        /\ Media!Asked = first .. first + media_request.count - 1
    BY DEF MediaInv, MediaTypes, MediaRange, Media!Asked
  <1>2. ASSUME NEW i \in Int, MediaDone(i) PROVE i \in Media!Asked
    BY <1>1, <1>2 DEF MediaDone
  <1>3. Media!Changed \cup Media!Programmed \subseteq Media!Asked
    <2>1. ASSUME NEW s \in Media!Changed PROVE s \in Media!Asked
      BY <1>1, <1>2, <2>1, MediaConstants DEF Media!Changed, MediaInv, MediaSectors
    <2>2. ASSUME NEW b \in Media!Programmed PROVE b \in Media!Asked
      BY <1>1, <1>2, <2>2, MediaConstants DEF Media!Programmed, MediaInv, MediaNor
    <2> QED BY <2>1, <2>2
  <1>4. ASSUME media_request.status = "success"
        PROVE  /\ media_request.does \in MediaTransfers => first + media_request.count <= Blocks
               /\ media_request.does \in {"program", "erase"} => first + media_request.count <= FlashSize
               /\ \A i \in Media!Asked : i \in Int /\ MediaDone(i)
    <2>1. media_request.done = media_request.count
      BY <1>4 DEF MediaInv, MediaRange
    <2>2. /\ media_request.does \in MediaTransfers => first + media_request.count <= Blocks
          /\ media_request.does \in {"program", "erase"} => first + media_request.count <= FlashSize
      BY <1>1, <1>4 DEF MediaInv, MediaRange
    <2> QED BY <1>1, <2>1, <2>2 DEF MediaDone
  <1>5. ASSUME media_request.status = "success", media_request.does \in MediaTransfers
        PROVE  Media!Asked \subseteq DOMAIN media_sectors
    BY <1>1, <1>4, <1>5, MediaConstants
  <1>6. ASSUME media_request.status = "success", media_request.does \in {"write", "release"}
        PROVE  Media!Changed = Media!Asked
    <2>1. Media!Asked \subseteq 0 .. Blocks - 1
      BY <1>1, <1>5, <1>6 DEF MediaTransfers
    <2>2. \A s \in Media!Asked : media_sectors[s] # "old"
      BY <1>4, <1>6, <2>1 DEF MediaInv, MediaSectors
    <2> QED BY <1>1, <1>3, <2>1, <2>2 DEF Media!Changed
  <1>7. ASSUME media_request.status = "success", media_request.does \in {"program", "erase"}
        PROVE  \A b \in Media!Asked : /\ media_request.does = "program" => media_nor[b] \in {"data", "mixed"}
                                      /\ media_request.does = "erase" => media_nor[b] = "erased"
    <2>1. Media!Asked \subseteq 0 .. FlashSize - 1
      BY <1>1, <1>4, <1>7, MediaConstants
    <2> QED BY <1>4, <1>7, <2>1 DEF MediaInv, MediaNor
  <1> QED BY <1>3, <1>5, <1>6, <1>7 DEF Media!TransfersStayInside, MediaTransfers

\* A request changes only the sectors or bytes that it names, all of them when it
\* succeeds, and these are on the device, for every size of the volumes, pages
\* and blocks, and every width of the sector numbers.
THEOREM TransfersStayInsideHolds == Spec => []TransfersStayInside
  <1>1. Init => MediaInv
    BY MediaInitial DEF Init
  <1>2. MediaInv /\ [Next]_vars => MediaInv'
    BY MediaStep DEF Next, vars, media_vars
  <1>3. MediaInv => TransfersStayInside
    BY MediaSafe DEF TransfersStayInside
  <1> QED BY <1>1, <1>2, <1>3, PTL DEF Spec, vars

-----------------------------------------------------------------------------
(* thread_exit.cpp.                                                         *)

ExitIds == 1 .. MaxElements
ExitStates == {"runs", "destroys", "destroyed", "exits", "gone", "walks", "unlocks", "notifies",
               "deletes", "returns", "ended"}
ExitElement == [callback : {"other", "notifier", "garbage"}, next : Nat, allocated : BOOLEAN]
ExitTypes ==
    /\ exit_state \in [Threads -> ExitStates]
    /\ exit_value \in [Threads -> Nat] /\ exit_element \in [Threads -> Nat]
    /\ exit_next \in [Threads -> Nat]
    /\ exit_elements \in Seq(ExitElement) /\ Len(exit_elements) <= MaxElements
    /\ exit_owner \in Threads \cup {"nobody"} /\ exit_promised \in Threads \cup {"nobody"}
    /\ exit_waiters \subseteq Threads /\ exit_told \subseteq Threads
    /\ exit_runs \in [ExitIds -> Nat]

\* Every element has a thread, its home, and is in that thread's list, in the list
\* that the thread walks, or called. The invariant says that such homes and kinds
\* exist; what follows from it does not depend on them.
ExitIn(t, home, kind, list) == {e \in 1 .. Len(exit_elements) : home[e] = t /\ kind[e] = list}
\* A list has all of its elements, from its head on, the latest first.
ExitList(elements, list, head) ==
    /\ head # 0 => head \in list
    /\ \A e \in list : e <= head
    /\ \A e \in list : LET next == elements[e].next
                       IN  /\ next # 0 => next \in list /\ next < e
                           /\ \A f \in list : f < e => f <= next
ExitCalled == {"unlocks", "notifies", "deletes", "returns"}
ExitHead(t) == IF exit_state[t] = "walks" THEN exit_element[t]
               ELSE IF exit_state[t] \in ExitCalled THEN exit_next[t] ELSE 0
ExitKinds(home, kind) ==
    /\ home \in [ExitIds -> Threads] /\ kind \in [ExitIds -> {"listed", "walked", "called"}]
    /\ \A e \in 1 .. Len(exit_elements) :
        IF kind[e] = "called" THEN exit_runs[e] = 1
        ELSE exit_runs[e] = 0 /\ exit_elements[e].allocated /\ exit_elements[e].callback # "garbage"
    /\ \A e \in ExitIds : e > Len(exit_elements) => exit_runs[e] = 0
ExitLists(home, kind) ==
    \A t \in Threads :
        /\ ExitList(exit_elements, ExitIn(t, home, kind, "listed"), exit_value[t])
        /\ ExitList(exit_elements, ExitIn(t, home, kind, "walked"), ExitHead(t))
        /\ exit_state[t] = "walks" => exit_element[t] # 0
        /\ exit_state[t] \in ExitCalled =>
              exit_element[t] \in 1 .. Len(exit_elements) /\ kind[exit_element[t]] = "called"
        /\ exit_state[t] = "ended" => exit_value[t] = 0
\* There is at most one notifier, and its thread has the mutex until it is called.
ExitNotifier(home, kind) ==
    \A e \in 1 .. Len(exit_elements) : exit_elements[e].callback = "notifier" =>
        /\ home[e] = exit_promised
        /\ \A f \in 1 .. Len(exit_elements) : exit_elements[f].callback = "notifier" => f = e
        /\ kind[e] # "called" => exit_owner = exit_promised /\ exit_state[exit_promised] # "unlocks"
ExitPromise(home, kind) ==
    /\ \A t \in Threads : exit_state[t] = "unlocks" => exit_owner = t /\ exit_promised = t
    /\ exit_promised # "nobody" /\ exit_owner # exit_promised =>
          /\ exit_state[exit_promised] \notin {"runs", "destroys"}
          /\ exit_state[exit_promised] # "notifies" => exit_waiters = {}
    /\ exit_promised # "nobody" /\ exit_owner = exit_promised =>
          \/ exit_state[exit_promised] = "unlocks"
          \/ \E e \in 1 .. Len(exit_elements) :
                exit_elements[e].callback = "notifier" /\ kind[e] # "called"
    /\ exit_told # {} => exit_promised # "nobody" /\ exit_owner # exit_promised
ExitHolds(home, kind) ==
    /\ ExitTypes /\ ExitKinds(home, kind) /\ ExitLists(home, kind)
    /\ ExitNotifier(home, kind) /\ ExitPromise(home, kind)
ExitInv == \E home, kind : ExitHolds(home, kind)

LEMMA ExitConstants == Application \in Threads /\ "nobody" \notin Threads /\ MaxElements \in Nat
  BY ConstantsAssumption DEF ConstantsAssumption

LEMMA ExitInitial == Exit!Init => ExitInv
  <1> SUFFICES ASSUME Exit!Init PROVE ExitInv
    OBVIOUS
  <1> DEFINE home == [e \in ExitIds |-> Application]
             kind == [e \in ExitIds |-> "called"]
  <1> USE ExitConstants DEF Exit!Init, Exit!Nobody, Exit!Ids, ExitIds
  <1>1. ExitTypes
    BY DEF ExitTypes, ExitStates
  <1>2. 1 .. Len(exit_elements) = {}
    OBVIOUS
  <1>3. ExitKinds(home, kind)
    BY <1>2 DEF ExitKinds
  <1>4. ExitLists(home, kind)
    BY <1>2 DEF ExitLists, ExitList, ExitIn, ExitHead, ExitCalled
  <1>5. ExitNotifier(home, kind) /\ ExitPromise(home, kind)
    BY <1>2 DEF ExitNotifier, ExitPromise
  <1> HIDE DEF home, kind
  <1> QED BY <1>1, <1>3, <1>4, <1>5 DEF ExitInv, ExitHolds

\* Steps that leave the lists alone.
LEMMA ExitListsKept ==
    ASSUME NEW home, NEW kind, ExitLists(home, kind), ExitTypes,
           UNCHANGED <<exit_value, exit_elements>>,
           \A t \in Threads :
              /\ ExitHead(t)' = ExitHead(t)
              /\ exit_state'[t] = "walks" => exit_element'[t] # 0
              /\ exit_state'[t] \in ExitCalled =>
                    exit_element'[t] = exit_element[t] /\ exit_state[t] \in ExitCalled
              /\ exit_state'[t] = "ended" => exit_value[t] = 0
    PROVE  ExitLists(home, kind)'
  <1>1. ASSUME NEW t \in Threads, NEW list
        PROVE  ExitIn(t, home, kind, list)' = ExitIn(t, home, kind, list)
    BY DEF ExitIn
  <1> SUFFICES ASSUME NEW t \in Threads
               PROVE  (/\ ExitList(exit_elements, ExitIn(t, home, kind, "listed"), exit_value[t])
                       /\ ExitList(exit_elements, ExitIn(t, home, kind, "walked"), ExitHead(t))
                       /\ exit_state[t] = "walks" => exit_element[t] # 0
                       /\ exit_state[t] \in ExitCalled =>
                             exit_element[t] \in 1 .. Len(exit_elements) /\ kind[exit_element[t]] = "called"
                       /\ exit_state[t] = "ended" => exit_value[t] = 0)'
    BY DEF ExitLists
  <1>3. /\ ExitList(exit_elements, ExitIn(t, home, kind, "listed"), exit_value[t])
        /\ ExitList(exit_elements, ExitIn(t, home, kind, "walked"), ExitHead(t))
        /\ exit_state[t] \in ExitCalled =>
              exit_element[t] \in 1 .. Len(exit_elements) /\ kind[exit_element[t]] = "called"
    BY DEF ExitLists
  <1>4. ExitList(exit_elements, ExitIn(t, home, kind, "listed"), exit_value[t])'
    BY <1>3 DEF ExitList, ExitIn
  <1>5. ExitList(exit_elements, ExitIn(t, home, kind, "walked"), ExitHead(t))'
    <2>1. ExitHead(t)' = ExitHead(t)
      OBVIOUS
    <2> HIDE DEF ExitHead
    <2> QED BY <1>3, <2>1 DEF ExitList, ExitIn
  <1> QED BY <1>3, <1>4, <1>5

\* Steps around the mutex, and on the way out while nothing is walked.
LEMMA ExitOutsideStep ==
    ASSUME NEW home, NEW kind, ExitHolds(home, kind), NEW t \in Threads,
           \/ Exit!Lock(t) \/ Exit!Look(t) \/ Exit!Leave(t) \/ Exit!DestroyLocals(t)
           \/ Exit!Exit(t) \/ Exit!Finish(t) \/ Exit!End(t)
    PROVE  ExitHolds(home, kind)'
  <1> USE ExitConstants DEF ExitHolds, Exit!Lock, Exit!Look, Exit!Leave, Exit!DestroyLocals,
          Exit!Exit, Exit!Finish, Exit!End, Exit!Goes, Exit!mutex, Exit!Live, Exit!Nobody
  <1>1. ExitTypes'
    BY DEF ExitTypes, ExitStates
  <1>2. /\ UNCHANGED <<exit_value, exit_elements, exit_element, exit_next, exit_runs>>
        /\ \A u \in Threads : \/ exit_state'[u] = exit_state[u]
                              \/ /\ exit_state[u] \notin ExitCalled \cup {"walks"}
                                 /\ exit_state'[u] \notin ExitCalled \cup {"walks"}
                                 /\ exit_state'[u] = "ended" => exit_value[u] = 0
    BY DEF ExitTypes, ExitCalled
  <1>3. ExitKinds(home, kind)'
    BY <1>2 DEF ExitKinds
  <1>4. ExitLists(home, kind)'
    <2>1. \A u \in Threads : ExitHead(u)' = ExitHead(u)
      BY <1>2 DEF ExitHead, ExitCalled
    <2>2. \A u \in Threads :
              /\ exit_state'[u] = "walks" => exit_element'[u] # 0
              /\ exit_state'[u] \in ExitCalled =>
                    exit_element'[u] = exit_element[u] /\ exit_state[u] \in ExitCalled
              /\ exit_state'[u] = "ended" => exit_value[u] = 0
      BY <1>2 DEF ExitLists, ExitCalled
    <2>3. ExitLists(home, kind) /\ ExitTypes
      OBVIOUS
    <2> QED BY <1>2, <2>1, <2>2, <2>3, ExitListsKept
  <1>5. exit_promised' = exit_promised
    OBVIOUS
  <1>6. \/ exit_owner' = exit_owner
        \/ exit_owner = "nobody" /\ exit_owner' = t /\ exit_state[t] = "runs"
        \/ exit_owner = t /\ exit_owner' = "nobody" /\ exit_promised # t
    OBVIOUS
  <1>7. ~(exit_promised # "nobody" /\ exit_owner # exit_promised /\ exit_owner' = exit_promised)
    BY <1>6 DEF ExitPromise
  <1>8. ExitNotifier(home, kind)'
    <2> SUFFICES ASSUME NEW e \in 1 .. Len(exit_elements), exit_elements[e].callback = "notifier"
                 PROVE  (/\ home[e] = exit_promised
                         /\ \A f \in 1 .. Len(exit_elements) : exit_elements[f].callback = "notifier" => f = e
                         /\ kind[e] # "called" => exit_owner = exit_promised /\ exit_state[exit_promised] # "unlocks")'
      BY <1>2 DEF ExitNotifier
    <2>1. home[e] \in Threads
      BY DEF ExitKinds, ExitTypes, ExitIds
    <2> QED BY <1>2, <1>5, <1>6, <2>1 DEF ExitNotifier, ExitCalled
  <1>9. ExitPromise(home, kind)'
    <2>1. \A u \in Threads : exit_state'[u] = "unlocks" => exit_owner' = u /\ exit_promised' = u
      BY <1>2, <1>5, <1>6 DEF ExitPromise, ExitCalled
    <2>2. ASSUME exit_promised # "nobody", exit_owner' # exit_promised
          PROVE  /\ exit_state'[exit_promised] \notin {"runs", "destroys"}
                 /\ exit_state'[exit_promised] # "notifies" => exit_waiters' = {}
      <3>1. exit_promised \in Threads /\ exit_owner # exit_promised
        BY <1>6, <2>2 DEF ExitTypes
      <3> QED BY <3>1, <2>2 DEF ExitPromise, ExitTypes
    <2>3. ASSUME exit_promised # "nobody", exit_owner' = exit_promised
          PROVE  \/ exit_state'[exit_promised] = "unlocks"
                 \/ \E e \in 1 .. Len(exit_elements) :
                       exit_elements[e].callback = "notifier" /\ kind[e] # "called"
      BY <1>2, <1>7, <2>3 DEF ExitPromise, ExitTypes, ExitCalled
    <2>4. exit_told' # {} => exit_promised # "nobody" /\ exit_owner' # exit_promised
      BY <1>6, <1>7 DEF ExitPromise
    <2> QED BY <1>2, <1>5, <2>1, <2>2, <2>3, <2>4 DEF ExitPromise
  <1> QED BY <1>1, <1>3, <1>4, <1>8, <1>9

\* What the array has is within its bound, so every element has a home.
LEMMA ExitHomes ==
    ASSUME NEW home, NEW kind, ExitTypes, ExitKinds(home, kind)
    PROVE  \A e \in 1 .. Len(exit_elements) : home[e] \in Threads
  <1>1. home \in [ExitIds -> Threads]
    BY DEF ExitKinds
  <1>2. Len(exit_elements) \in Nat /\ Len(exit_elements) <= MaxElements /\ MaxElements \in Nat
    BY ExitConstants DEF ExitTypes
  <1>3. 1 .. Len(exit_elements) \subseteq ExitIds
    BY <1>2 DEF ExitIds
  <1> QED BY <1>1, <1>3

\* The head of a list leaves it, and its successor is the head.
LEMMA ExitListTail ==
    ASSUME NEW elements, NEW S \in SUBSET Nat, NEW e \in S, ExitList(elements, S, e),
           elements[e].next \in Nat
    PROVE  ExitList(elements, S \ {e}, elements[e].next)
  <1>1. PICK next \in Nat : next = elements[e].next
    OBVIOUS
  <1>2. /\ next # 0 => next \in S /\ next < e
        /\ \A f \in S : f <= e
        /\ \A f \in S : f < e => f <= next
    BY <1>1 DEF ExitList
  <1>3. next # 0 => next \in S \ {e}
    BY <1>2
  <1>4. \A f \in S \ {e} : f <= next
    BY <1>2
  <1>5. ASSUME NEW f \in S \ {e}
        PROVE  /\ elements[f].next # 0 => elements[f].next \in S \ {e} /\ elements[f].next < f
               /\ \A g \in S \ {e} : g < f => g <= elements[f].next
    <2>1. PICK n : n = elements[f].next
      OBVIOUS
    <2>2. /\ n # 0 => n \in S /\ n < f
          /\ \A g \in S : g < f => g <= n
      BY <2>1 DEF ExitList
    <2>3. f \in Nat /\ e \in Nat /\ f <= e
      BY <1>2
    <2>4. n # 0 => n \in S \ {e}
      BY <2>2, <2>3
    <2> QED BY <2>1, <2>2, <2>4
  <1> QED BY <1>1, <1>3, <1>4, <1>5 DEF ExitList

\* The notifier unlocks the mutex and wakes the waiters.
LEMMA ExitNotifyStep ==
    ASSUME NEW home, NEW kind, ExitHolds(home, kind), NEW t \in Threads,
           Exit!Unlock(t) \/ Exit!notify_all(t)
    PROVE  ExitHolds(home, kind)'
  <1> USE ExitConstants DEF ExitHolds, Exit!Unlock, Exit!notify_all, Exit!Goes, Exit!Nobody
  <1>1. ExitTypes'
    BY DEF ExitTypes, ExitStates
  <1>2. /\ UNCHANGED <<exit_value, exit_elements, exit_element, exit_next, exit_runs, exit_promised, exit_told>>
        /\ \A u \in Threads : exit_state'[u] = IF u = t THEN IF exit_state[t] = "unlocks" THEN "notifies" ELSE "deletes"
                                               ELSE exit_state[u]
        /\ exit_state[t] \in {"unlocks", "notifies"}
    BY DEF ExitTypes
  <1>3. ExitKinds(home, kind)'
    BY <1>2 DEF ExitKinds
  <1>4. ExitLists(home, kind)'
    <2>1. \A u \in Threads : ExitHead(u)' = ExitHead(u)
      BY <1>2 DEF ExitHead, ExitCalled
    <2>2. \A u \in Threads :
              /\ exit_state'[u] = "walks" => exit_element'[u] # 0
              /\ exit_state'[u] \in ExitCalled =>
                    exit_element'[u] = exit_element[u] /\ exit_state[u] \in ExitCalled
              /\ exit_state'[u] = "ended" => exit_value[u] = 0
      BY <1>2 DEF ExitLists, ExitCalled
    <2>3. ExitLists(home, kind) /\ ExitTypes
      OBVIOUS
    <2> QED BY <1>2, <2>1, <2>2, <2>3, ExitListsKept
  <1>5. CASE exit_state[t] = "unlocks"
    <2>1. exit_owner = t /\ exit_promised = t /\ exit_owner' = "nobody" /\ exit_waiters' = exit_waiters
      BY <1>5 DEF ExitPromise
    <2>2. \A e \in 1 .. Len(exit_elements) : exit_elements[e].callback = "notifier" => kind[e] = "called"
      BY <1>5, <2>1 DEF ExitNotifier
    <2>3. ExitNotifier(home, kind)'
      BY <1>2, <2>2 DEF ExitNotifier
    <2>4. ExitPromise(home, kind)'
      BY <1>2, <1>5, <2>1 DEF ExitPromise
    <2> QED BY <1>1, <1>3, <1>4, <2>3, <2>4
  <1>6. CASE exit_state[t] = "notifies"
    <2>1. exit_owner' = exit_owner /\ exit_waiters' = {}
      BY <1>6
    <2>2. ExitNotifier(home, kind)'
      <3>1. \A e \in 1 .. Len(exit_elements) : home[e] \in Threads
        BY ExitHomes
      <3>2. \A u \in Threads : exit_state[u] # "unlocks" => exit_state'[u] # "unlocks"
        BY <1>2, <1>6
      <3> QED BY <1>2, <2>1, <3>1, <3>2 DEF ExitNotifier
    <2>3. ExitPromise(home, kind)'
      BY <1>2, <1>6, <2>1 DEF ExitPromise, ExitTypes
    <2> QED BY <1>1, <1>3, <1>4, <2>2, <2>3
  <1> QED BY <1>2, <1>5, <1>6

\* A new element is the head of its thread's list.
LEMMA ExitPushStep ==
    ASSUME NEW home, NEW kind, ExitHolds(home, kind), NEW t \in Threads,
           Exit!__at_thread_exit(t) \/ Exit!notify_all_at_thread_exit(t)
    PROVE  ExitInv'
  <1>0. PICK n \in Nat : n = Len(exit_elements) + 1
    <2>1. Len(exit_elements) \in Nat
      BY DEF ExitHolds, ExitTypes
    <2> QED BY <2>1
  <1> USE ExitConstants
  <1>1. PICK callback \in {"other", "notifier"} :
            /\ Len(exit_elements) < MaxElements
            /\ exit_elements' = Append(exit_elements,
                  [callback |-> callback, next |-> exit_value[t], allocated |-> TRUE])
            /\ exit_value' = [exit_value EXCEPT ![t] = n]
            /\ UNCHANGED <<exit_state, exit_element, exit_next, exit_owner, exit_waiters, exit_told, exit_runs>>
            /\ callback = "other" => exit_promised' = exit_promised
            /\ callback = "notifier" => /\ exit_state[t] = "runs" /\ exit_owner = t
                                        /\ exit_promised = "nobody" /\ exit_promised' = t
            /\ exit_state[t] # "ended"
    BY <1>0 DEF Exit!__at_thread_exit, Exit!notify_all_at_thread_exit, Exit!Push, Exit!mutex, Exit!Live,
           Exit!Nobody
  <1>2. /\ ExitTypes /\ ExitKinds(home, kind) /\ ExitLists(home, kind)
        /\ ExitNotifier(home, kind) /\ ExitPromise(home, kind)
    BY DEF ExitHolds
  <1>3. /\ Len(exit_elements) \in Nat /\ n \in ExitIds
        /\ exit_elements' \in Seq(ExitElement) /\ Len(exit_elements') = n
        /\ \A e \in 1 .. Len(exit_elements) : exit_elements'[e] = exit_elements[e]
        /\ exit_elements'[n] = [callback |-> callback, next |-> exit_value[t], allocated |-> TRUE]
    <2>1. PICK entry : entry = [callback |-> callback, next |-> exit_value[t], allocated |-> TRUE]
      OBVIOUS
    <2>2. exit_value[t] \in Nat
      BY <1>2 DEF ExitTypes
    <2>3. entry \in ExitElement
      BY <2>1, <2>2 DEF ExitElement
    <2>4. exit_elements \in Seq(ExitElement) /\ Len(exit_elements) \in Nat
      BY <1>2 DEF ExitTypes
    <2>5. exit_elements' = Append(exit_elements, entry)
      BY <1>1, <2>1
    <2>6. /\ exit_elements' \in Seq(ExitElement) /\ Len(exit_elements') = n /\ exit_elements'[n] = entry
          /\ \A e \in 1 .. Len(exit_elements) : exit_elements'[e] = exit_elements[e]
      BY <1>0, <2>3, <2>4, <2>5
    <2>7. n \in ExitIds
      BY <1>0, <1>1, <2>4 DEF ExitIds
    <2> QED BY <2>1, <2>4, <2>6, <2>7
  <1>4. ExitTypes'
    <2>1. exit_value' \in [Threads -> Nat]
      BY <1>1, <1>2 DEF ExitTypes
    <2>2. exit_promised' \in Threads \cup {"nobody"}
      BY <1>1, <1>2 DEF ExitTypes
    <2>3. Len(exit_elements') <= MaxElements
      BY <1>3 DEF ExitIds
    <2>4. UNCHANGED <<exit_state, exit_element, exit_next, exit_owner, exit_waiters, exit_told, exit_runs>>
      BY <1>1
    <2> QED BY <1>2, <1>3, <2>1, <2>2, <2>3, <2>4 DEF ExitTypes
  <1>5. /\ 1 .. Len(exit_elements) \subseteq ExitIds \ {n}
        /\ 1 .. n = (1 .. Len(exit_elements)) \cup {n} /\ n \notin 1 .. Len(exit_elements)
    <2>1. n \in 1 .. MaxElements /\ MaxElements \in Nat
      BY <1>3 DEF ExitIds
    <2>2. Len(exit_elements) = n - 1
      BY <1>0, <1>3
    <2>3. /\ 1 .. n - 1 \subseteq (1 .. MaxElements) \ {n}
          /\ 1 .. n = (1 .. n - 1) \cup {n} /\ n \notin 1 .. n - 1
      BY <2>1
    <2> QED BY <2>2, <2>3 DEF ExitIds
  <1>51. PICK home2 \in [ExitIds -> Threads], kind2 \in [ExitIds -> {"listed", "walked", "called"}] :
            /\ home2[n] = t /\ kind2[n] = "listed"
            /\ \A e \in ExitIds \ {n} : home2[e] = home[e] /\ kind2[e] = kind[e]
    <2>1. home \in [ExitIds -> Threads] /\ kind \in [ExitIds -> {"listed", "walked", "called"}]
      BY <1>2 DEF ExitKinds
    <2> DEFINE h == [home EXCEPT ![n] = t]
               k == [kind EXCEPT ![n] = "listed"]
    <2>2. /\ h \in [ExitIds -> Threads] /\ k \in [ExitIds -> {"listed", "walked", "called"}]
          /\ h[n] = t /\ k[n] = "listed"
          /\ \A e \in ExitIds \ {n} : h[e] = home[e] /\ k[e] = kind[e]
      BY <1>3, <2>1
    <2> HIDE DEF h, k
    <2> QED BY <2>2
  <1>6. ExitKinds(home2, kind2)'
    <2>1. exit_runs'[n] = 0
      BY <1>0, <1>1, <1>2, <1>3 DEF ExitKinds
    <2>2. ASSUME NEW e \in 1 .. n
          PROVE  IF kind2[e] = "called" THEN exit_runs'[e] = 1
                 ELSE exit_runs'[e] = 0 /\ exit_elements'[e].allocated
                      /\ exit_elements'[e].callback # "garbage"
      BY <1>1, <1>2, <1>3, <1>5, <1>51, <2>1 DEF ExitKinds
    <2>3. \A e \in ExitIds : e > n => exit_runs'[e] = 0
      BY <1>1, <1>2, <1>0, <1>3 DEF ExitKinds, ExitIds
    <2> QED BY <1>3, <1>51, <2>2, <2>3 DEF ExitKinds
  <1>7. /\ ExitIn(t, home2, kind2, "listed")' = ExitIn(t, home, kind, "listed") \cup {n}
        /\ ExitIn(t, home2, kind2, "walked")' = ExitIn(t, home, kind, "walked")
        /\ \A u \in Threads \ {t} : \A list \in {"listed", "walked"} :
              ExitIn(u, home2, kind2, list)' = ExitIn(u, home, kind, list)
    BY <1>3, <1>5, <1>51 DEF ExitIn
  <1>8. ASSUME NEW S \in SUBSET (1 .. Len(exit_elements)), NEW head, ExitList(exit_elements, S, head)
        PROVE  ExitList(exit_elements', S, head)
    BY <1>3, <1>8 DEF ExitList
  <1>9. ExitLists(home2, kind2)'
    <2> SUFFICES ASSUME NEW u \in Threads
                 PROVE  (/\ ExitList(exit_elements, ExitIn(u, home2, kind2, "listed"), exit_value[u])
                         /\ ExitList(exit_elements, ExitIn(u, home2, kind2, "walked"), ExitHead(u))
                         /\ exit_state[u] = "walks" => exit_element[u] # 0
                         /\ exit_state[u] \in ExitCalled =>
                               exit_element[u] \in 1 .. Len(exit_elements) /\ kind2[exit_element[u]] = "called"
                         /\ exit_state[u] = "ended" => exit_value[u] = 0)'
      BY DEF ExitLists
    <2>1. /\ ExitList(exit_elements, ExitIn(u, home, kind, "listed"), exit_value[u])
          /\ ExitList(exit_elements, ExitIn(u, home, kind, "walked"), ExitHead(u))
          /\ exit_state[u] = "walks" => exit_element[u] # 0
          /\ exit_state[u] \in ExitCalled =>
                exit_element[u] \in 1 .. Len(exit_elements) /\ kind[exit_element[u]] = "called"
          /\ exit_state[u] = "ended" => exit_value[u] = 0
      BY <1>2 DEF ExitLists
    <2>2. /\ ExitIn(u, home, kind, "listed") \in SUBSET (1 .. Len(exit_elements))
          /\ ExitIn(u, home, kind, "walked") \in SUBSET (1 .. Len(exit_elements))
      BY DEF ExitIn
    <2>3. ExitHead(u)' = ExitHead(u)
      BY <1>1 DEF ExitHead
    <2>4. ExitList(exit_elements', ExitIn(u, home2, kind2, "walked")', ExitHead(u)')
      <3>1. ExitIn(u, home2, kind2, "walked")' = ExitIn(u, home, kind, "walked")
        BY <1>7
      <3> QED BY <1>8, <2>1, <2>2, <2>3, <3>1
    <2>5. ExitList(exit_elements', ExitIn(u, home2, kind2, "listed")', exit_value'[u])
      <3>1. CASE u # t
        <4>1. ExitIn(u, home2, kind2, "listed")' = ExitIn(u, home, kind, "listed") /\ exit_value'[u] = exit_value[u]
          BY <1>1, <1>2, <1>7, <3>1 DEF ExitTypes
        <4> QED BY <1>8, <2>1, <2>2, <4>1
      <3>2. CASE u = t
        <4> DEFINE S == ExitIn(t, home, kind, "listed")
        <4>1. ExitIn(u, home2, kind2, "listed")' = S \cup {n} /\ exit_value'[u] = n
          BY <1>1, <1>2, <1>7, <3>2 DEF ExitTypes
        <4>2. ExitList(exit_elements', S, exit_value[t]) /\ S \subseteq 1 .. Len(exit_elements)
          BY <1>8, <2>1, <2>2, <3>2
        <4>3. exit_elements'[n].next = exit_value[t] /\ exit_value[t] \in Nat
          BY <1>2, <1>3 DEF ExitTypes
        <4>4. \A e \in S : e \in Nat /\ e < n
          BY <1>0, <1>3, <4>2
        <4> HIDE DEF S
        <4>5. ExitList(exit_elements', S \cup {n}, n)
          <5>1. \A e \in S \cup {n} : e <= n
            BY <4>4
          <5>2. ASSUME NEW e \in S
                PROVE  /\ exit_elements'[e].next # 0 =>
                             exit_elements'[e].next \in S \cup {n} /\ exit_elements'[e].next < e
                       /\ \A f \in S \cup {n} : f < e => f <= exit_elements'[e].next
            <6>1. /\ exit_elements'[e].next # 0 =>
                        exit_elements'[e].next \in S /\ exit_elements'[e].next < e
                  /\ \A f \in S : f < e => f <= exit_elements'[e].next
              BY <4>2 DEF ExitList
            <6> QED BY <4>4, <6>1
          <5>3. /\ exit_value[t] # 0 => exit_value[t] \in S \cup {n} /\ exit_value[t] < n
                /\ \A f \in S \cup {n} : f < n => f <= exit_value[t]
            <6>1. /\ exit_value[t] # 0 => exit_value[t] \in S
                  /\ \A f \in S : f <= exit_value[t]
              BY <4>2 DEF ExitList
            <6> QED BY <1>0, <4>4, <6>1
          <5> QED BY <4>3, <5>1, <5>2, <5>3 DEF ExitList
        <4> QED BY <4>1, <4>5
      <3> QED BY <3>1, <3>2
    <2>6. exit_state'[u] \in ExitCalled =>
             exit_element'[u] \in 1 .. Len(exit_elements') /\ kind2[exit_element'[u]] = "called"
      <3> SUFFICES ASSUME exit_state[u] \in ExitCalled
                   PROVE  exit_element[u] \in 1 .. n /\ kind2[exit_element[u]] = "called"
        BY <1>1, <1>3
      <3> QED BY <1>5, <1>51, <2>1
    <2>7. exit_state'[u] = "ended" => exit_value'[u] = 0
      BY <1>1, <1>2, <2>1 DEF ExitTypes
    <2> QED BY <1>1, <2>1, <2>4, <2>5, <2>6, <2>7
  <1>10. ExitNotifier(home2, kind2)'
    <2>1. ASSUME NEW e \in 1 .. Len(exit_elements)
          PROVE  /\ exit_elements'[e] = exit_elements[e] /\ home2[e] = home[e] /\ kind2[e] = kind[e]
                 /\ home[e] \in Threads
      BY <1>2, <1>3, <1>5, <1>51 DEF ExitKinds
    <2>2. CASE callback = "other"
      <3>1. exit_elements'[n].callback # "notifier"
        BY <1>3, <2>2
      <3> QED BY <1>1, <1>2, <1>3, <1>5, <2>1, <2>2, <3>1 DEF ExitNotifier
    <2>3. CASE callback = "notifier"
      <3>1. \A e \in 1 .. Len(exit_elements) : exit_elements'[e].callback # "notifier"
        BY <1>1, <1>2, <2>1, <2>3 DEF ExitNotifier
      <3> QED BY <1>1, <1>3, <1>5, <1>51, <2>3, <3>1 DEF ExitNotifier
    <2> QED BY <2>2, <2>3
  <1>11. ExitPromise(home2, kind2)'
    <2>1. CASE callback = "other"
      <3>1. UNCHANGED <<exit_state, exit_owner, exit_promised, exit_waiters, exit_told>>
        BY <1>1, <2>1
      <3>2. ASSUME NEW e \in 1 .. Len(exit_elements),
                   exit_elements[e].callback = "notifier", kind[e] # "called"
            PROVE  \E f \in 1 .. Len(exit_elements') :
                      exit_elements'[f].callback = "notifier" /\ kind2[f] # "called"
        BY <1>3, <1>5, <1>51, <3>2
      <3> QED BY <1>2, <3>1, <3>2 DEF ExitPromise
    <2>2. CASE callback = "notifier"
      <3>1. /\ exit_elements'[n].callback = "notifier" /\ kind2[n] # "called"
            /\ n \in 1 .. Len(exit_elements')
        BY <1>3, <1>5, <1>51, <2>2
      <3>2. exit_told' = {} /\ \A u \in Threads : exit_state'[u] # "unlocks"
        BY <1>1, <1>2, <2>2 DEF ExitPromise
      <3> QED BY <1>1, <2>2, <3>1, <3>2 DEF ExitPromise
    <2> QED BY <2>1, <2>2
  <1>12. ExitHolds(home2, kind2)'
    BY <1>4, <1>6, <1>9, <1>10, <1>11 DEF ExitHolds
  <1> QED BY <1>12 DEF ExitInv

\* A pass over the key takes the thread's list, and leaves none.
LEMMA ExitTakeStep ==
    ASSUME NEW home, NEW kind, ExitHolds(home, kind), NEW t \in Threads,
           Exit!TakeValue(t, "destroyed") \/ Exit!TakeValue(t, "exits")
    PROVE  ExitInv'
  <1>1. /\ exit_state[t] \in {"destroyed", "exits"} /\ exit_value[t] # 0
        /\ exit_element' = [exit_element EXCEPT ![t] = exit_value[t]]
        /\ exit_value' = [exit_value EXCEPT ![t] = 0]
        /\ exit_state' = [exit_state EXCEPT ![t] = "walks"]
        /\ UNCHANGED <<exit_elements, exit_next, exit_owner, exit_promised, exit_waiters, exit_told, exit_runs>>
    BY DEF Exit!TakeValue, Exit!Goes, Exit!mutex
  <1>2. /\ ExitTypes /\ ExitKinds(home, kind) /\ ExitLists(home, kind)
        /\ ExitNotifier(home, kind) /\ ExitPromise(home, kind)
    BY DEF ExitHolds
  <1>3. ExitTypes'
    BY <1>1, <1>2 DEF ExitTypes, ExitStates
  <1>4. PICK kind2 \in [ExitIds -> {"listed", "walked", "called"}] :
            \A e \in ExitIds : kind2[e] = IF home[e] = t /\ kind[e] = "listed" THEN "walked" ELSE kind[e]
    <2> DEFINE k == [e \in ExitIds |-> IF home[e] = t /\ kind[e] = "listed" THEN "walked" ELSE kind[e]]
    <2>1. k \in [ExitIds -> {"listed", "walked", "called"}]
      BY <1>2 DEF ExitKinds
    <2> QED BY <2>1
  <1>5. /\ Len(exit_elements) \in Nat /\ 1 .. Len(exit_elements) \subseteq ExitIds
        /\ home \in [ExitIds -> Threads] /\ kind \in [ExitIds -> {"listed", "walked", "called"}]
    BY <1>2, ExitConstants DEF ExitTypes, ExitKinds, ExitIds
  <1>6. \A e \in ExitIds : kind2[e] = "called" <=> kind[e] = "called"
    BY <1>4
  <1>7. ExitIn(t, home, kind, "walked") = {}
    <2>1. ExitList(exit_elements, ExitIn(t, home, kind, "walked"), ExitHead(t)) /\ ExitHead(t) = 0
      BY <1>1, <1>2 DEF ExitLists, ExitHead, ExitCalled
    <2>2. \A e \in ExitIn(t, home, kind, "walked") : e \in Nat /\ e # 0 /\ e <= 0
      BY <1>5, <2>1 DEF ExitList, ExitIn
    <2> QED BY <2>2
  <1>8. /\ ExitIn(t, home, kind2, "listed") = {}
        /\ ExitIn(t, home, kind2, "walked") = ExitIn(t, home, kind, "listed")
        /\ \A u \in Threads \ {t} : \A list \in {"listed", "walked"} :
              ExitIn(u, home, kind2, list) = ExitIn(u, home, kind, list)
    <2>1. ExitIn(t, home, kind2, "listed") = {}
      BY <1>4, <1>5 DEF ExitIn
    <2>2. ExitIn(t, home, kind2, "walked") = ExitIn(t, home, kind, "listed") \cup ExitIn(t, home, kind, "walked")
      BY <1>4, <1>5 DEF ExitIn
    <2>3. \A u \in Threads \ {t} : \A list \in {"listed", "walked"} :
              ExitIn(u, home, kind2, list) = ExitIn(u, home, kind, list)
      BY <1>4, <1>5 DEF ExitIn
    <2> QED BY <1>7, <2>1, <2>2, <2>3
  <1>9. ExitKinds(home, kind2)'
    BY <1>1, <1>2, <1>4, <1>5, <1>6 DEF ExitKinds
  <1>10. ExitLists(home, kind2)'
    <2> SUFFICES ASSUME NEW u \in Threads
                 PROVE  (/\ ExitList(exit_elements, ExitIn(u, home, kind2, "listed"), exit_value[u])
                         /\ ExitList(exit_elements, ExitIn(u, home, kind2, "walked"), ExitHead(u))
                         /\ exit_state[u] = "walks" => exit_element[u] # 0
                         /\ exit_state[u] \in ExitCalled =>
                               exit_element[u] \in 1 .. Len(exit_elements) /\ kind2[exit_element[u]] = "called"
                         /\ exit_state[u] = "ended" => exit_value[u] = 0)'
      BY DEF ExitLists
    <2>1. /\ ExitList(exit_elements, ExitIn(u, home, kind, "listed"), exit_value[u])
          /\ ExitList(exit_elements, ExitIn(u, home, kind, "walked"), ExitHead(u))
          /\ exit_state[u] = "walks" => exit_element[u] # 0
          /\ exit_state[u] \in ExitCalled =>
                exit_element[u] \in 1 .. Len(exit_elements) /\ kind[exit_element[u]] = "called"
          /\ exit_state[u] = "ended" => exit_value[u] = 0
      BY <1>2 DEF ExitLists
    <2>2. /\ ExitIn(u, home, kind2, "listed")' = ExitIn(u, home, kind2, "listed")
          /\ ExitIn(u, home, kind2, "walked")' = ExitIn(u, home, kind2, "walked")
      BY <1>1 DEF ExitIn
    <2>3. CASE u # t
      <3>1. /\ exit_state'[u] = exit_state[u] /\ exit_value'[u] = exit_value[u]
            /\ exit_element'[u] = exit_element[u] /\ ExitHead(u)' = ExitHead(u)
        BY <1>1, <1>2, <2>3 DEF ExitTypes, ExitHead
      <3>2. exit_state[u] \in ExitCalled => kind2[exit_element[u]] = "called"
        BY <1>5, <1>6, <2>1
      <3> QED BY <1>1, <1>8, <2>1, <2>2, <2>3, <3>1, <3>2
    <2>4. CASE u = t
      <3>1. /\ exit_state'[u] = "walks" /\ exit_value'[u] = 0 /\ exit_element'[u] = exit_value[u]
            /\ ExitHead(u)' = exit_value[u]
        BY <1>1, <1>2, <2>4 DEF ExitTypes, ExitHead
      <3>2. ExitList(exit_elements, {}, 0)
        BY DEF ExitList
      <3> QED BY <1>1, <1>8, <2>1, <2>2, <2>4, <3>1, <3>2 DEF ExitCalled
    <2> QED BY <2>3, <2>4
  <1>11. \A u \in Threads : \/ exit_state'[u] = exit_state[u]
                            \/ exit_state[u] \in {"destroyed", "exits"} /\ exit_state'[u] = "walks"
    BY <1>1, <1>2 DEF ExitTypes
  <1>12. ExitNotifier(home, kind2)'
    <2>1. \A e \in 1 .. Len(exit_elements) : home[e] \in Threads /\ (kind2[e] = "called" <=> kind[e] = "called")
      BY <1>5, <1>6
    <2> QED BY <1>1, <1>2, <1>11, <2>1 DEF ExitNotifier
  <1>13. ExitPromise(home, kind2)'
    <2>1. \A e \in 1 .. Len(exit_elements) : kind2[e] = "called" <=> kind[e] = "called"
      BY <1>5, <1>6
    <2> QED BY <1>1, <1>2, <1>11, <2>1 DEF ExitPromise, ExitTypes
  <1>14. ExitHolds(home, kind2)'
    BY <1>3, <1>9, <1>10, <1>12, <1>13 DEF ExitHolds
  <1> QED BY <1>14 DEF ExitInv

\* Each callback is taken off the walked list before it is called.
LEMMA ExitCallStep ==
    ASSUME NEW home, NEW kind, ExitHolds(home, kind), NEW t \in Threads, Exit!Call(t)
    PROVE  ExitInv'
  <1>1. PICK e \in Nat : e = exit_element[t]
    BY DEF ExitHolds, ExitTypes
  <1>2. /\ ExitTypes /\ ExitKinds(home, kind) /\ ExitLists(home, kind)
        /\ ExitNotifier(home, kind) /\ ExitPromise(home, kind)
    BY DEF ExitHolds
  <1>3. /\ exit_state[t] = "walks" /\ e # 0
        /\ exit_next' = [exit_next EXCEPT ![t] = exit_elements[e].next]
        /\ exit_runs' = [exit_runs EXCEPT ![e] = @ + 1]
        /\ exit_state' = [exit_state EXCEPT ![t] =
              IF exit_elements[e].callback = "notifier" THEN "unlocks" ELSE "deletes"]
        /\ UNCHANGED <<exit_value, exit_elements, exit_element, exit_owner, exit_promised, exit_waiters, exit_told>>
    BY <1>1 DEF Exit!Call, Exit!Goes, Exit!mutex
  <1>4. /\ Len(exit_elements) \in Nat /\ 1 .. Len(exit_elements) \subseteq ExitIds
        /\ home \in [ExitIds -> Threads] /\ kind \in [ExitIds -> {"listed", "walked", "called"}]
    BY <1>2, ExitConstants DEF ExitTypes, ExitKinds, ExitIds
  <1>5. /\ ExitList(exit_elements, ExitIn(t, home, kind, "walked"), e)
        /\ e \in 1 .. Len(exit_elements) /\ home[e] = t /\ kind[e] = "walked"
    <2>1. ExitList(exit_elements, ExitIn(t, home, kind, "walked"), e)
      BY <1>1, <1>2, <1>3 DEF ExitLists, ExitHead
    <2>2. e \in ExitIn(t, home, kind, "walked")
      BY <1>3, <2>1 DEF ExitList
    <2> QED BY <2>1, <2>2 DEF ExitIn
  <1>6. /\ exit_elements[e].next \in Nat /\ exit_runs[e] = 0
        /\ e \in ExitIds
    <2>1. exit_elements[e] \in ExitElement
      BY <1>2, <1>5 DEF ExitTypes
    <2>2. exit_elements[e].next \in Nat
      BY <2>1 DEF ExitElement
    <2> QED BY <1>2, <1>4, <1>5, <2>2 DEF ExitKinds
  <1>7. ExitTypes'
    BY <1>2, <1>3, <1>6 DEF ExitTypes, ExitStates
  <1>8. PICK kind2 \in [ExitIds -> {"listed", "walked", "called"}] :
            \A f \in ExitIds : kind2[f] = IF f = e THEN "called" ELSE kind[f]
    <2> DEFINE k == [f \in ExitIds |-> IF f = e THEN "called" ELSE kind[f]]
    <2>1. k \in [ExitIds -> {"listed", "walked", "called"}]
      BY <1>4
    <2> QED BY <2>1
  <1>9. /\ ExitIn(t, home, kind2, "listed") = ExitIn(t, home, kind, "listed")
        /\ ExitIn(t, home, kind2, "walked") = ExitIn(t, home, kind, "walked") \ {e}
        /\ \A u \in Threads \ {t} : \A list \in {"listed", "walked"} :
              ExitIn(u, home, kind2, list) = ExitIn(u, home, kind, list)
    BY <1>4, <1>5, <1>8 DEF ExitIn
  <1>10. ExitKinds(home, kind2)'
    <2>1. ASSUME NEW f \in ExitIds
          PROVE  exit_runs'[f] = IF f = e THEN 1 ELSE exit_runs[f]
      BY <1>2, <1>3, <1>6 DEF ExitTypes
    <2>2. ASSUME NEW f \in 1 .. Len(exit_elements)
          PROVE  IF kind2[f] = "called" THEN exit_runs'[f] = 1
                 ELSE exit_runs'[f] = 0 /\ exit_elements[f].allocated
                      /\ exit_elements[f].callback # "garbage"
      BY <1>2, <1>4, <1>8, <2>1 DEF ExitKinds
    <2>3. ASSUME NEW f \in ExitIds, f > Len(exit_elements) PROVE exit_runs'[f] = 0
      BY <1>2, <1>5, <2>1, <2>3 DEF ExitKinds
    <2> QED BY <1>3, <1>4, <1>8, <2>2, <2>3 DEF ExitKinds
  <1>11. ASSUME NEW u \in Threads, u # t
         PROVE  /\ exit_state'[u] = exit_state[u] /\ exit_next'[u] = exit_next[u]
                /\ ExitHead(u)' = ExitHead(u)
    BY <1>2, <1>3, <1>11 DEF ExitTypes, ExitHead
  <1>12. /\ exit_state'[t] = IF exit_elements[e].callback = "notifier" THEN "unlocks" ELSE "deletes"
         /\ exit_next'[t] = exit_elements[e].next
         /\ ExitHead(t)' = exit_elements[e].next
    BY <1>2, <1>3 DEF ExitTypes, ExitHead, ExitCalled
  <1>13. ExitLists(home, kind2)'
    <2> SUFFICES ASSUME NEW u \in Threads
                 PROVE  (/\ ExitList(exit_elements, ExitIn(u, home, kind2, "listed"), exit_value[u])
                         /\ ExitList(exit_elements, ExitIn(u, home, kind2, "walked"), ExitHead(u))
                         /\ exit_state[u] = "walks" => exit_element[u] # 0
                         /\ exit_state[u] \in ExitCalled =>
                               exit_element[u] \in 1 .. Len(exit_elements) /\ kind2[exit_element[u]] = "called"
                         /\ exit_state[u] = "ended" => exit_value[u] = 0)'
      BY DEF ExitLists
    <2>1. /\ ExitList(exit_elements, ExitIn(u, home, kind, "listed"), exit_value[u])
          /\ ExitList(exit_elements, ExitIn(u, home, kind, "walked"), ExitHead(u))
          /\ exit_state[u] = "walks" => exit_element[u] # 0
          /\ exit_state[u] \in ExitCalled =>
                exit_element[u] \in 1 .. Len(exit_elements) /\ kind[exit_element[u]] = "called"
          /\ exit_state[u] = "ended" => exit_value[u] = 0
      BY <1>2 DEF ExitLists
    <2>2. /\ ExitIn(u, home, kind2, "listed")' = ExitIn(u, home, kind2, "listed")
          /\ ExitIn(u, home, kind2, "walked")' = ExitIn(u, home, kind2, "walked")
      BY <1>3 DEF ExitIn
    <2>3. CASE u # t
      <3>1. exit_state[u] \in ExitCalled => kind2[exit_element[u]] = "called"
        BY <1>4, <1>8, <2>1
      <3> QED BY <1>3, <1>9, <1>11, <2>1, <2>2, <2>3, <3>1
    <2>4. CASE u = t
      <3> DEFINE S == ExitIn(t, home, kind, "walked")
      <3>1. ExitList(exit_elements, S, e) /\ e \in S /\ S \in SUBSET Nat
        BY <1>4, <1>5 DEF ExitIn
      <3> HIDE DEF S
      <3>2. ExitList(exit_elements, S \ {e}, exit_elements[e].next)
        BY <1>6, <3>1, ExitListTail
      <3>3. ExitList(exit_elements, ExitIn(t, home, kind2, "walked"), exit_elements[e].next)
        BY <1>9, <3>2 DEF S
      <3>4. kind2[e] = "called" /\ exit_element[t] = e
        BY <1>1, <1>4, <1>5, <1>8
      <3> QED BY <1>3, <1>5, <1>9, <1>12, <2>1, <2>2, <2>4, <3>3, <3>4
    <2> QED BY <2>3, <2>4
  <1>14. \A f \in 1 .. Len(exit_elements) :
            home[f] \in Threads /\ (kind2[f] # "called" <=> kind[f] # "called" /\ f # e)
    BY <1>4, <1>5, <1>8
  <1>15. CASE exit_elements[e].callback = "notifier"
    <2>1. /\ exit_promised = t /\ exit_owner = t
          /\ \A f \in 1 .. Len(exit_elements) : exit_elements[f].callback = "notifier" => f = e
      BY <1>2, <1>5, <1>15 DEF ExitNotifier
    <2>2. ExitNotifier(home, kind2)'
      BY <1>3, <1>5, <1>14, <2>1 DEF ExitNotifier
    <2>3. ExitPromise(home, kind2)'
      <3>1. exit_state'[t] = "unlocks"
        BY <1>12, <1>15
      <3>2. \A u \in Threads : exit_state'[u] = "unlocks" => u = t
        BY <1>2, <1>11, <2>1 DEF ExitPromise
      <3>3. exit_told = {}
        BY <1>2, <2>1 DEF ExitPromise
      <3> QED BY <1>3, <2>1, <3>1, <3>2, <3>3 DEF ExitPromise
    <2> QED BY <1>7, <1>10, <1>13, <2>2, <2>3 DEF ExitInv, ExitHolds
  <1>16. CASE exit_elements[e].callback # "notifier"
    <2>1. \A u \in Threads : exit_state'[u] = exit_state[u]
                             \/ (exit_state[u] = "walks" /\ exit_state'[u] = "deletes")
      BY <1>3, <1>11, <1>12, <1>16
    <2>2. ExitNotifier(home, kind2)'
      BY <1>2, <1>3, <1>14, <2>1 DEF ExitNotifier
    <2>3. ExitPromise(home, kind2)'
      BY <1>2, <1>3, <1>14, <1>16, <2>1 DEF ExitPromise, ExitTypes
    <2> QED BY <1>7, <1>10, <1>13, <2>2, <2>3 DEF ExitInv, ExitHolds
  <1> QED BY <1>15, <1>16

\* A deleted element was called, so it is in no list.
LEMMA ExitDeleteStep ==
    ASSUME NEW home, NEW kind, ExitHolds(home, kind), NEW t \in Threads, Exit!Delete(t)
    PROVE  ExitHolds(home, kind)'
  <1>1. PICK e \in Nat : e = exit_element[t]
    BY DEF ExitHolds, ExitTypes
  <1>2. /\ ExitTypes /\ ExitKinds(home, kind) /\ ExitLists(home, kind)
        /\ ExitNotifier(home, kind) /\ ExitPromise(home, kind)
    BY DEF ExitHolds
  <1>3. /\ exit_state[t] = "deletes" /\ exit_state' = [exit_state EXCEPT ![t] = "returns"]
        /\ exit_elements' = [exit_elements EXCEPT ![e] =
              [callback |-> "garbage", next |-> 0, allocated |-> FALSE]]
        /\ UNCHANGED <<exit_value, exit_element, exit_next, exit_owner, exit_promised, exit_waiters, exit_told, exit_runs>>
    BY <1>1 DEF Exit!Delete, Exit!Goes, Exit!mutex
  <1>4. /\ Len(exit_elements) \in Nat /\ 1 .. Len(exit_elements) \subseteq ExitIds
        /\ home \in [ExitIds -> Threads] /\ kind \in [ExitIds -> {"listed", "walked", "called"}]
    BY <1>2, ExitConstants DEF ExitTypes, ExitKinds, ExitIds
  <1>5. e \in 1 .. Len(exit_elements) /\ kind[e] = "called"
    BY <1>1, <1>2, <1>3 DEF ExitLists, ExitCalled
  <1>6. /\ exit_elements' \in Seq(ExitElement) /\ Len(exit_elements') = Len(exit_elements)
        /\ \A f \in 1 .. Len(exit_elements) : f # e => exit_elements'[f] = exit_elements[f]
        /\ exit_elements'[e] = [callback |-> "garbage", next |-> 0, allocated |-> FALSE]
    BY <1>2, <1>3, <1>4, <1>5 DEF ExitTypes, ExitElement
  <1>7. ExitTypes'
    BY <1>2, <1>3, <1>6 DEF ExitTypes, ExitStates
  <1>8. ExitKinds(home, kind)'
    BY <1>2, <1>3, <1>5, <1>6 DEF ExitKinds
  <1>9. \A u \in Threads : \/ exit_state'[u] = exit_state[u]
                           \/ u = t /\ exit_state[u] = "deletes" /\ exit_state'[u] = "returns"
    BY <1>2, <1>3 DEF ExitTypes
  <1>10. ExitLists(home, kind)'
    <2> SUFFICES ASSUME NEW u \in Threads
                 PROVE  (/\ ExitList(exit_elements, ExitIn(u, home, kind, "listed"), exit_value[u])
                         /\ ExitList(exit_elements, ExitIn(u, home, kind, "walked"), ExitHead(u))
                         /\ exit_state[u] = "walks" => exit_element[u] # 0
                         /\ exit_state[u] \in ExitCalled =>
                               exit_element[u] \in 1 .. Len(exit_elements) /\ kind[exit_element[u]] = "called"
                         /\ exit_state[u] = "ended" => exit_value[u] = 0)'
      BY DEF ExitLists
    <2>1. /\ ExitList(exit_elements, ExitIn(u, home, kind, "listed"), exit_value[u])
          /\ ExitList(exit_elements, ExitIn(u, home, kind, "walked"), ExitHead(u))
          /\ exit_state[u] = "walks" => exit_element[u] # 0
          /\ exit_state[u] \in ExitCalled =>
                exit_element[u] \in 1 .. Len(exit_elements) /\ kind[exit_element[u]] = "called"
          /\ exit_state[u] = "ended" => exit_value[u] = 0
      BY <1>2 DEF ExitLists
    <2>2. \A list \in {"listed", "walked"} :
             /\ ExitIn(u, home, kind, list)' = ExitIn(u, home, kind, list)
             /\ ExitIn(u, home, kind, list) \subseteq (1 .. Len(exit_elements)) \ {e}
      BY <1>5, <1>6 DEF ExitIn
    <2>3. ASSUME NEW S \in SUBSET ((1 .. Len(exit_elements)) \ {e}), NEW head, ExitList(exit_elements, S, head)
          PROVE  ExitList(exit_elements', S, head)
      BY <1>6, <2>3 DEF ExitList
    <2>4. ExitHead(u)' = ExitHead(u)
      BY <1>3, <1>9 DEF ExitHead, ExitCalled
    <2>5. ExitList(exit_elements', ExitIn(u, home, kind, "listed"), exit_value[u])
      BY <2>1, <2>2, <2>3
    <2>6. ExitList(exit_elements', ExitIn(u, home, kind, "walked"), ExitHead(u))
      BY <2>1, <2>2, <2>3
    <2> QED BY <1>3, <1>6, <1>9, <2>1, <2>2, <2>4, <2>5, <2>6 DEF ExitCalled
  <1>11. \A f \in 1 .. Len(exit_elements) :
            /\ home[f] \in Threads
            /\ f # e => exit_elements'[f].callback = exit_elements[f].callback
            /\ exit_elements'[e].callback # "notifier"
    BY <1>4, <1>6
  <1>12. ExitNotifier(home, kind)'
    BY <1>2, <1>3, <1>6, <1>9, <1>11 DEF ExitNotifier
  <1>13. ExitPromise(home, kind)'
    <2>1. ASSUME NEW f \in 1 .. Len(exit_elements),
                 exit_elements[f].callback = "notifier", kind[f] # "called"
          PROVE  exit_elements'[f].callback = "notifier" /\ f \in 1 .. Len(exit_elements')
      BY <1>5, <1>6, <2>1
    <2> QED BY <1>2, <1>3, <1>9, <2>1 DEF ExitPromise, ExitTypes
  <1> QED BY <1>7, <1>8, <1>10, <1>12, <1>13 DEF ExitHolds

\* The walk goes on with what it read before the call.
LEMMA ExitAdvanceStep ==
    ASSUME NEW home, NEW kind, ExitHolds(home, kind), NEW t \in Threads, Exit!Advance(t)
    PROVE  ExitHolds(home, kind)'
  <1>1. /\ ExitTypes /\ ExitKinds(home, kind) /\ ExitLists(home, kind)
        /\ ExitNotifier(home, kind) /\ ExitPromise(home, kind)
    BY DEF ExitHolds
  <1>2. PICK where \in {"walks", "gone", "destroyed"} :
            /\ exit_state[t] = "returns" /\ exit_state' = [exit_state EXCEPT ![t] = where]
            /\ where = "walks" <=> exit_next[t] # 0
            /\ exit_element' = [exit_element EXCEPT ![t] = exit_next[t]]
            /\ exit_next' = [exit_next EXCEPT ![t] = 0]
            /\ UNCHANGED <<exit_value, exit_elements, exit_owner, exit_promised, exit_waiters, exit_told, exit_runs>>
    BY DEF Exit!Advance, Exit!Goes, Exit!Following, Exit!mutex
  <1>3. ExitTypes'
    BY <1>1, <1>2 DEF ExitTypes, ExitStates
  <1>4. ExitKinds(home, kind)'
    BY <1>1, <1>2 DEF ExitKinds
  <1>5. ASSUME NEW u \in Threads
        PROVE  /\ u # t => /\ exit_state'[u] = exit_state[u] /\ exit_element'[u] = exit_element[u]
                           /\ exit_next'[u] = exit_next[u]
               /\ exit_state'[t] = where /\ exit_element'[t] = exit_next[t] /\ exit_next'[t] = 0
    BY <1>1, <1>2 DEF ExitTypes
  <1>6. ExitLists(home, kind)'
    <2>1. ASSUME NEW u \in Threads PROVE ExitHead(u)' = ExitHead(u)
      BY <1>2, <1>5 DEF ExitHead, ExitCalled
    <2>2. \A u \in Threads :
              /\ exit_state'[u] = "walks" => exit_element'[u] # 0
              /\ exit_state'[u] \in ExitCalled =>
                    exit_element'[u] = exit_element[u] /\ exit_state[u] \in ExitCalled
              /\ exit_state'[u] = "ended" => exit_value[u] = 0
      BY <1>1, <1>2, <1>5 DEF ExitLists, ExitCalled
    <2> QED BY <1>1, <1>2, <2>1, <2>2, ExitListsKept
  <1>7. \A u \in Threads : \/ exit_state'[u] = exit_state[u]
                           \/ /\ exit_state[u] = "returns"
                              /\ exit_state'[u] \in {"walks", "gone", "destroyed"}
    BY <1>2, <1>5
  <1>8. ExitNotifier(home, kind)'
    <2>1. \A e \in 1 .. Len(exit_elements) : home[e] \in Threads
      <3>1. 1 .. Len(exit_elements) \subseteq ExitIds /\ home \in [ExitIds -> Threads]
        BY <1>1, ExitConstants DEF ExitTypes, ExitKinds, ExitIds
      <3> QED BY <3>1
    <2> QED BY <1>1, <1>2, <1>7, <2>1 DEF ExitNotifier
  <1>9. ExitPromise(home, kind)'
    BY <1>1, <1>2, <1>7 DEF ExitPromise, ExitTypes
  <1> QED BY <1>3, <1>4, <1>6, <1>8, <1>9 DEF ExitHolds

LEMMA ExitStep == ExitInv /\ [Exit!Next]_exit_vars => ExitInv'
  <1> SUFFICES ASSUME ExitInv, [Exit!Next]_exit_vars PROVE ExitInv'
    OBVIOUS
  <1>1. PICK home, kind : ExitHolds(home, kind)
    BY DEF ExitInv
  <1>2. CASE UNCHANGED exit_vars
    <2>1. ExitHolds(home, kind)'
      BY <1>1, <1>2
      DEF exit_vars, ExitHolds, ExitTypes, ExitKinds, ExitLists, ExitNotifier, ExitPromise,
          ExitIn, ExitHead
    <2> QED BY <2>1 DEF ExitInv
  <1>3. ASSUME NEW t \in Threads, ExitHolds(home, kind)' PROVE ExitInv'
    BY <1>3 DEF ExitInv
  <1> QED BY <1>1, <1>2, ExitOutsideStep, ExitNotifyStep, ExitPushStep, ExitTakeStep,
             ExitCallStep, ExitDeleteStep, ExitAdvanceStep DEF Exit!Next, ExitInv

LEMMA ExitSafe == ExitInv => Exit!CallbacksRunOnce
  <1> SUFFICES ASSUME NEW home, NEW kind, ExitHolds(home, kind) PROVE Exit!CallbacksRunOnce
    BY DEF ExitInv
  <1>1. /\ ExitTypes /\ ExitKinds(home, kind) /\ ExitLists(home, kind)
        /\ ExitNotifier(home, kind) /\ ExitPromise(home, kind)
    BY DEF ExitHolds
  <1>2. /\ DOMAIN exit_elements = 1 .. Len(exit_elements) /\ Len(exit_elements) \in Nat
        /\ \A e \in DOMAIN exit_elements : e \in ExitIds /\ home[e] \in Threads
    <2>1. 1 .. Len(exit_elements) \subseteq ExitIds /\ home \in [ExitIds -> Threads]
      BY <1>1, ExitConstants DEF ExitTypes, ExitKinds, ExitIds
    <2>2. DOMAIN exit_elements = 1 .. Len(exit_elements) /\ Len(exit_elements) \in Nat
      BY <1>1 DEF ExitTypes
    <2> QED BY <2>1, <2>2
  <1>3. \A e \in DOMAIN exit_elements :
            exit_runs[e] <= 1 /\ (exit_elements[e].allocated \/ exit_runs[e] = 1)
    BY <1>1, <1>2 DEF ExitKinds
  <1>4. ASSUME NEW t \in Threads, exit_state[t] = "walks"
        PROVE  exit_elements[exit_element[t]].allocated
    <2>1. ExitList(exit_elements, ExitIn(t, home, kind, "walked"), exit_element[t]) /\ exit_element[t] # 0
      BY <1>1, <1>4 DEF ExitLists, ExitHead
    <2>2. exit_element[t] \in 1 .. Len(exit_elements) /\ kind[exit_element[t]] # "called"
      BY <2>1 DEF ExitList, ExitIn
    <2> QED BY <1>1, <2>2 DEF ExitKinds
  <1>5. \A t \in Threads : exit_state[t] = "unlocks" => exit_owner = t
    BY <1>1 DEF ExitPromise
  <1>6. ASSUME NEW t \in Threads, exit_state[t] = "ended",
               NEW e \in DOMAIN exit_elements, home[e] = t
        PROVE  kind[e] = "called"
    <2>1. /\ ExitList(exit_elements, ExitIn(t, home, kind, "listed"), 0)
          /\ ExitList(exit_elements, ExitIn(t, home, kind, "walked"), 0)
      BY <1>1, <1>6 DEF ExitLists, ExitHead, ExitCalled
    <2>2. ASSUME kind[e] \in {"listed", "walked"} PROVE FALSE
      <3>1. e \in ExitIn(t, home, kind, kind[e]) /\ ExitList(exit_elements, ExitIn(t, home, kind, kind[e]), 0)
        BY <1>2, <1>6, <2>1, <2>2 DEF ExitIn
      <3> QED BY <1>2, <3>1 DEF ExitList
    <2> QED BY <1>1, <1>2, <2>2 DEF ExitKinds
  <1>7. ASSUME \A t \in Threads : exit_state[t] = "ended"
        PROVE  \A e \in DOMAIN exit_elements : exit_runs[e] = 1
    BY <1>1, <1>2, <1>6, <1>7 DEF ExitKinds
  <1>8. exit_told # {} => exit_state[exit_promised] \notin {"runs", "destroys"} /\ exit_owner # exit_promised
    BY <1>1 DEF ExitPromise
  <1>9. ASSUME exit_promised # "nobody", exit_state[exit_promised] = "ended"
        PROVE  exit_waiters = {}
    <2>1. exit_promised \in Threads
      BY <1>1, <1>9 DEF ExitTypes
    <2>2. ASSUME NEW e \in 1 .. Len(exit_elements), exit_elements[e].callback = "notifier"
          PROVE  kind[e] = "called"
      BY <1>1, <1>2, <1>6, <1>9, <2>1, <2>2 DEF ExitNotifier
    <2> QED BY <1>1, <1>9, <2>2 DEF ExitPromise
  <1> QED BY <1>3, <1>4, <1>5, <1>7, <1>8, <1>9 DEF Exit!CallbacksRunOnce, Exit!Nobody

\* Each callback runs once, before its thread has ended, its element is not touched
\* when it is deleted, and whoever was told of a thread's end saw the end of its
\* thread_local objects, for any number of threads and registrations.
THEOREM CallbacksRunOnceHolds == Spec => []CallbacksRunOnce
  <1>1. Init => ExitInv
    BY ExitInitial DEF Init
  <1>2. ExitInv /\ [Next]_vars => ExitInv'
    BY ExitStep DEF Next, vars, exit_vars
  <1>3. ExitInv => CallbacksRunOnce
    BY ExitSafe DEF CallbacksRunOnce
  <1> QED BY <1>1, <1>2, <1>3, PTL DEF Spec, vars

-----------------------------------------------------------------------------
(* tls.cpp.                                                                 *)

LocalContexts == Threads \cup {"startup"}
LocalAddresses == {<<>>} \cup {<<c, o>> : c \in LocalContexts, o \in LocalObjects}
LocalBlocks == {<<>>, <<"image">>, <<"own">>}
LocalDestructor == [object : LocalAddresses, fate : {"listed", "running", "gone"}]
LocalTypes ==
    /\ local_phase \in {"startup", "kernel"}
    /\ local_state \in [Threads -> {"none", "runs", "drains", "ended"}]
    /\ local_block \in [LocalContexts -> LocalBlocks]
    /\ local_destructors \in [LocalContexts -> Seq(Nat)]
    /\ local_emutls \in [LocalContexts -> Seq(LocalAddresses)]
    /\ local_location \in [LocalObjects -> Nat] /\ local_emutls_object_count \in Nat
    /\ local_pending \in [LocalContexts -> LocalObjects \cup {"none"}]
    /\ local_running \in [LocalContexts -> Nat]
    /\ local_used \in [LocalContexts -> [LocalObjects \cup {"static"} -> LocalAddresses \cup LocalBlocks]]
    /\ local_registered \in Seq(LocalDestructor)
\* Each object has an offset of its own.
LocalOffsets ==
    /\ \A o \in LocalObjects : local_location[o] <= local_emutls_object_count
    /\ \A o, p \in LocalObjects : local_location[o] = local_location[p] /\ local_location[o] # 0 => o = p
\* What a context has got is still there.
LocalUsed ==
    \A c \in LocalContexts :
        /\ local_used[c]["static"] \in {<<>>, local_block[c]}
        /\ \A o \in LocalObjects : local_used[c][o] # <<>> =>
              /\ local_location[o] \in 1 .. Len(local_emutls[c])
              /\ local_emutls[c][local_location[o]] = local_used[c][o]
              /\ local_used[c][o] \in LocalAddresses
LocalSorted ==
    \A c \in LocalContexts : \A i, j \in 1 .. Len(local_destructors[c]) :
        i < j => local_destructors[c][i] > local_destructors[c][j]
LocalHas(c, d) ==
    /\ d \in 1 .. Len(local_registered) /\ local_registered[d].object # <<>>
    /\ \E i \in 1 .. Len(local_emutls[c]) : local_emutls[c][i] = local_registered[d].object
\* A destructor that is listed or runs is so in one context, which has its object.
LocalLists ==
    /\ \A c \in LocalContexts :
        /\ \A d \in Locals!Listed(c) : LocalHas(c, d) /\ local_registered[d].fate = "listed"
        /\ local_running[c] # 0 =>
              LocalHas(c, local_running[c]) /\ local_registered[local_running[c]].fate = "running"
    /\ \A c, e \in LocalContexts : c # e =>
        /\ Locals!Listed(c) \cap Locals!Listed(e) = {}
        /\ local_running[c] # 0 => local_running[c] # local_running[e]
    /\ \A d \in 1 .. Len(local_registered) : local_registered[d].fate = "listed" =>
          \E c \in LocalContexts : d \in Locals!Listed(c)
\* Before the kernel runs, and after it was deleted, a thread has no destructors.
LocalPhases ==
    /\ local_running["startup"] = 0 /\ local_block["startup"] = <<"image">>
    /\ \A t \in Threads : local_phase = "startup" \/ local_state[t] = "none" =>
          /\ local_state[t] \in {"none", "runs"}
          /\ local_destructors[t] = <<>> /\ local_running[t] = 0
LocalInv == LocalTypes /\ LocalOffsets /\ LocalUsed /\ LocalSorted /\ LocalLists /\ LocalPhases

LEMMA LocalConstants ==
    /\ Application \in Threads /\ "startup" \notin Threads /\ "none" \notin Threads
    /\ "none" \notin LocalObjects /\ "static" \notin LocalObjects
    /\ Spare \in Nat /\ MaxDestructors \in Nat
    /\ Locals!Contexts = LocalContexts
  BY ConstantsAssumption DEF ConstantsAssumption, Locals!Contexts, Locals!StartUp, LocalContexts

LEMMA LocalAddress ==
    /\ <<>> \in LocalAddresses
    /\ \A c \in LocalContexts, o \in LocalObjects : <<c, o>> \in LocalAddresses /\ <<c, o>> # <<>>
  BY DEF LocalAddresses

LEMMA LocalListed ==
    ASSUME NEW c, LocalTypes, c \in LocalContexts
    PROVE  \A d : d \in Locals!Listed(c) <=> \E i \in 1 .. Len(local_destructors[c]) : local_destructors[c][i] = d
  BY DEF Locals!Listed, LocalTypes

\* A function on the first numbers is a sequence.
LEMMA LocalSequence ==
    ASSUME NEW S, NEW n \in Nat, NEW f \in [1 .. n -> S]
    PROVE  f \in Seq(S) /\ Len(f) = n
  OBVIOUS

LEMMA LocalInitial == Locals!Init => LocalInv
  <1> SUFFICES ASSUME Locals!Init PROVE LocalInv
    OBVIOUS
  <1> USE LocalConstants DEF Locals!Init, Locals!StartUp, Locals!Null, Locals!None
  <1>0. "startup" \in LocalContexts /\ \A c \in LocalContexts : local_destructors[c] = <<>>
    BY DEF LocalContexts
  <1>1. LocalTypes
    <2>1. local_block \in [LocalContexts -> LocalBlocks]
      BY DEF LocalBlocks
    <2>2. Locals!Unknown \in [LocalObjects \cup {"static"} -> LocalAddresses \cup LocalBlocks]
      BY LocalAddress DEF Locals!Unknown
    <2>3. local_destructors \in [LocalContexts -> Seq(Nat)] /\ local_emutls \in [LocalContexts -> Seq(LocalAddresses)]
      OBVIOUS
    <2>4. local_registered \in Seq(LocalDestructor)
      OBVIOUS
    <2>5. local_used \in [LocalContexts -> [LocalObjects \cup {"static"} -> LocalAddresses \cup LocalBlocks]]
      BY <2>2
    <2> QED BY <2>1, <2>3, <2>4, <2>5 DEF LocalTypes
  <1>2. LocalOffsets
    BY DEF LocalOffsets
  <1>3. LocalUsed
    BY DEF LocalUsed, Locals!Unknown
  <1>4. LocalSorted
    BY <1>0 DEF LocalSorted
  <1>5. LocalLists
    <2>1. \A c \in LocalContexts : Locals!Listed(c) = {}
      BY <1>0 DEF Locals!Listed
    <2>2. 1 .. Len(local_registered) = {} /\ \A c \in LocalContexts : local_running[c] = 0
      OBVIOUS
    <2> QED BY <2>1, <2>2 DEF LocalLists
  <1>6. LocalPhases
    BY <1>0 DEF LocalPhases, LocalContexts
  <1> QED BY <1>1, <1>2, <1>3, <1>4, <1>5, <1>6 DEF LocalInv

\* Reaching an object's entry grows the array and changes no address in it.
LEMMA LocalReach ==
    ASSUME LocalTypes, NEW c \in LocalContexts, NEW o \in LocalObjects, NEW offset \in Nat \ {0},
           Locals!Reach(c, o, offset)
    PROVE  /\ local_emutls' \in [LocalContexts -> Seq(LocalAddresses)]
           /\ local_used' \in [LocalContexts -> [LocalObjects \cup {"static"} -> LocalAddresses \cup LocalBlocks]]
           /\ \A e \in LocalContexts \ {c} :
                 local_emutls'[e] = local_emutls[e] /\ local_used'[e] = local_used[e]
           /\ offset <= Len(local_emutls'[c]) /\ Len(local_emutls[c]) <= Len(local_emutls'[c])
           /\ \A i \in 1 .. Len(local_emutls[c]) : local_emutls[c][i] # <<>> =>
                 local_emutls'[c][i] = local_emutls[c][i]
           /\ local_used'[c][o] = local_emutls'[c][offset]
           /\ local_used'[c][o] \in LocalAddresses
           /\ \A p \in (LocalObjects \cup {"static"}) \ {o} : local_used'[c][p] = local_used[c][p]
  <1> DEFINE old == local_emutls[c]
             array == Locals!Grown(local_emutls[c], offset)
             address == IF array[offset] = <<>> THEN <<c, o>> ELSE array[offset]
  <1>1. old \in Seq(LocalAddresses) /\ Len(old) \in Nat
    BY DEF LocalTypes
  <1>2. /\ array \in Seq(LocalAddresses) /\ Len(array) \in Nat
        /\ Len(array) >= offset /\ Len(array) >= Len(old)
        /\ \A i \in 1 .. Len(old) : array[i] = old[i]
    <2>1. CASE Len(old) >= offset
      <3>1. array = old
        BY <2>1 DEF Locals!Grown
      <3> QED BY <1>1, <2>1, <3>1
    <2>2. CASE ~(Len(old) >= offset)
      <3> DEFINE n == Locals!Capacity(Len(old), offset)
      <3>1. n \in Nat /\ n >= offset
        BY <1>1, <2>2, LocalConstants DEF Locals!Capacity
      <3>2. array = [i \in 1 .. n |-> IF i <= Len(old) THEN old[i] ELSE <<>>]
        BY <2>2 DEF Locals!Grown, Locals!Null
      <3> HIDE DEF n, array, old
      <3>3. \A i \in 1 .. n : (IF i <= Len(old) THEN old[i] ELSE <<>>) \in LocalAddresses
        BY <1>1, LocalAddress
      <3>4. array \in [1 .. n -> LocalAddresses]
        BY <3>2, <3>3
      <3>5. array \in Seq(LocalAddresses) /\ Len(array) = n
        BY <3>1, <3>4, LocalSequence
      <3> QED BY <1>1, <2>2, <3>1, <3>2, <3>5
    <2> QED BY <2>1, <2>2
  <1>3. /\ local_emutls' = [local_emutls EXCEPT ![c] = [array EXCEPT ![offset] = address]]
        /\ local_used' = [local_used EXCEPT ![c][o] = address]
    BY DEF Locals!Reach, Locals!Null
  <1> HIDE DEF array
  <1>4. address \in LocalAddresses /\ (array[offset] # <<>> => address = array[offset])
    BY <1>2, LocalAddress
  <1> HIDE DEF address, old
  <1>5. /\ [array EXCEPT ![offset] = address] \in Seq(LocalAddresses)
        /\ Len([array EXCEPT ![offset] = address]) = Len(array)
        /\ [array EXCEPT ![offset] = address][offset] = address
        /\ \A i \in 1 .. Len(old) : old[i] # <<>> => [array EXCEPT ![offset] = address][i] = old[i]
    BY <1>1, <1>2, <1>4
  <1>6. local_emutls'[c] = [array EXCEPT ![offset] = address]
    BY <1>3 DEF LocalTypes
  <1>7. local_emutls' \in [LocalContexts -> Seq(LocalAddresses)]
    BY <1>3, <1>5 DEF LocalTypes
  <1>8. /\ local_used' \in [LocalContexts -> [LocalObjects \cup {"static"} -> LocalAddresses \cup LocalBlocks]]
        /\ local_used'[c][o] = address
        /\ \A p \in (LocalObjects \cup {"static"}) \ {o} : local_used'[c][p] = local_used[c][p]
        /\ \A e \in LocalContexts \ {c} : local_used'[e] = local_used[e]
    BY <1>3, <1>4 DEF LocalTypes
  <1>9. \A e \in LocalContexts \ {c} : local_emutls'[e] = local_emutls[e]
    BY <1>3 DEF LocalTypes
  <1> QED BY <1>2, <1>4, <1>5, <1>6, <1>7, <1>8, <1>9 DEF old

\* Steps that only add addresses.
LEMMA LocalListsKept ==
    ASSUME LocalInv, UNCHANGED <<local_destructors, local_running, local_registered>>,
           \A c \in LocalContexts :
              /\ Len(local_emutls[c]) <= Len(local_emutls'[c])
              /\ \A i \in 1 .. Len(local_emutls[c]) : local_emutls[c][i] # <<>> =>
                    local_emutls'[c][i] = local_emutls[c][i],
           local_emutls' \in [LocalContexts -> Seq(LocalAddresses)]
    PROVE  LocalLists' /\ LocalSorted'
  <1>1. LocalLists /\ LocalSorted /\ LocalTypes
    BY DEF LocalInv
  <1>2. \A c \in LocalContexts : Locals!Listed(c)' = Locals!Listed(c)
    BY DEF Locals!Listed
  <1>3. ASSUME NEW c \in LocalContexts, NEW d, LocalHas(c, d)
        PROVE  LocalHas(c, d)'
    <2>1. PICK i \in 1 .. Len(local_emutls[c]) : local_emutls[c][i] = local_registered[d].object
      BY <1>3 DEF LocalHas
    <2>2. i \in 1 .. Len(local_emutls'[c]) /\ local_emutls'[c][i] = local_registered[d].object
      <3>1. local_emutls[c] \in Seq(LocalAddresses) /\ local_emutls'[c] \in Seq(LocalAddresses)
        BY <1>1 DEF LocalTypes
      <3>2. Len(local_emutls[c]) \in Nat /\ Len(local_emutls'[c]) \in Nat
        BY <3>1
      <3> QED BY <1>3, <2>1, <3>2 DEF LocalHas
    <2> QED BY <1>3, <2>2 DEF LocalHas
  <1>4. LocalLists'
    BY <1>1, <1>2, <1>3 DEF LocalLists
  <1>5. LocalSorted'
    BY <1>1 DEF LocalSorted
  <1> QED BY <1>4, <1>5

LEMMA LocalAddressStep ==
    ASSUME LocalInv, NEW c \in LocalContexts,
           \/ \E o \in LocalObjects : Locals!__emutls_get_address(c, o)
           \/ Locals!emutls_offset(c)
    PROVE  LocalInv'
  <1>1. LocalTypes /\ LocalOffsets /\ LocalUsed /\ LocalPhases
    BY DEF LocalInv
  <1>2. /\ UNCHANGED <<local_phase, local_state, local_block, local_destructors, local_running, local_registered>>
    BY DEF Locals!__emutls_get_address, Locals!emutls_offset, Locals!context
  <1>3. LocalPhases'
    BY <1>1, <1>2 DEF LocalPhases
  <1>4. CASE UNCHANGED <<local_emutls, local_used, local_location, local_emutls_object_count>>
             /\ local_pending' \in [LocalContexts -> LocalObjects \cup {"none"}]
    <2>1. LocalTypes' /\ LocalOffsets' /\ LocalUsed'
      BY <1>1, <1>2, <1>4 DEF LocalTypes, LocalOffsets, LocalUsed
    <2>2. \A e \in LocalContexts :
              /\ Len(local_emutls[e]) <= Len(local_emutls'[e])
              /\ \A i \in 1 .. Len(local_emutls[e]) : local_emutls[e][i] # <<>> =>
                    local_emutls'[e][i] = local_emutls[e][i]
      BY <1>1, <1>4 DEF LocalTypes
    <2>3. LocalLists' /\ LocalSorted'
      BY <1>1, <1>2, <1>4, <2>2, LocalListsKept DEF LocalTypes
    <2> QED BY <1>3, <2>1, <2>3 DEF LocalInv
  <1>5. ASSUME NEW o \in LocalObjects, NEW offset \in Nat \ {0}, Locals!Reach(c, o, offset),
               \/ local_location[o] = offset
                  /\ UNCHANGED <<local_location, local_emutls_object_count>>
               \/ local_location[o] = 0 /\ offset = local_emutls_object_count + 1
                  /\ local_emutls_object_count' = offset
                  /\ local_location' = [local_location EXCEPT ![o] = offset],
               local_pending' \in [LocalContexts -> LocalObjects \cup {"none"}]
        PROVE  LocalInv'
    <2>1. /\ local_emutls' \in [LocalContexts -> Seq(LocalAddresses)]
          /\ local_used' \in [LocalContexts -> [LocalObjects \cup {"static"} -> LocalAddresses \cup LocalBlocks]]
          /\ \A e \in LocalContexts \ {c} :
                local_emutls'[e] = local_emutls[e] /\ local_used'[e] = local_used[e]
          /\ offset <= Len(local_emutls'[c]) /\ Len(local_emutls[c]) <= Len(local_emutls'[c])
          /\ \A i \in 1 .. Len(local_emutls[c]) : local_emutls[c][i] # <<>> =>
                local_emutls'[c][i] = local_emutls[c][i]
          /\ local_used'[c][o] = local_emutls'[c][offset] /\ local_used'[c][o] \in LocalAddresses
          /\ \A p \in (LocalObjects \cup {"static"}) \ {o} : local_used'[c][p] = local_used[c][p]
      BY <1>1, <1>5, LocalReach
    <2>2. /\ local_location' \in [LocalObjects -> Nat] /\ local_emutls_object_count' \in Nat
          /\ local_location'[o] = offset
          /\ \A p \in LocalObjects \ {o} : local_location'[p] = local_location[p]
          /\ local_location[o] \in {0, offset}
      BY <1>1, <1>5 DEF LocalTypes
    <2>3. LocalTypes'
      BY <1>1, <1>2, <1>5, <2>1, <2>2 DEF LocalTypes
    <2>4. LocalOffsets'
      <3>1. CASE UNCHANGED <<local_location, local_emutls_object_count>>
        BY <1>1, <3>1 DEF LocalOffsets
      <3>2. CASE /\ local_location[o] = 0 /\ offset = local_emutls_object_count + 1
                 /\ local_emutls_object_count' = offset
        <4>1. local_emutls_object_count \in Nat /\ \A p \in LocalObjects : local_location[p] \in Nat
          BY <1>1 DEF LocalTypes
        <4>2. \A p \in LocalObjects \ {o} :
                  local_location'[p] = local_location[p] /\ local_location'[p] < offset
          BY <1>1, <2>2, <3>2, <4>1 DEF LocalOffsets
        <4>3. \A p \in LocalObjects : local_location'[p] <= local_emutls_object_count'
          BY <2>2, <3>2, <4>1, <4>2
        <4>4. ASSUME NEW p \in LocalObjects, NEW q \in LocalObjects,
                     local_location'[p] = local_location'[q], local_location'[p] # 0
              PROVE  p = q
          <5>1. CASE p = o \/ q = o
            BY <2>2, <4>2, <4>4, <5>1
          <5>2. CASE p # o /\ q # o
            BY <1>1, <4>2, <4>4, <5>2 DEF LocalOffsets
          <5> QED BY <5>1, <5>2
        <4> QED BY <4>3, <4>4 DEF LocalOffsets
      <3> QED BY <1>5, <3>1, <3>2
    <2>5. \A e \in LocalContexts : Len(local_emutls[e]) \in Nat /\ Len(local_emutls'[e]) \in Nat
      BY <1>1, <2>1 DEF LocalTypes
    <2>6. LocalUsed'
      <3> SUFFICES ASSUME NEW e \in LocalContexts
                   PROVE  (/\ local_used[e]["static"] \in {<<>>, local_block[e]}
                           /\ \A p \in LocalObjects : local_used[e][p] # <<>> =>
                                 /\ local_location[p] \in 1 .. Len(local_emutls[e])
                                 /\ local_emutls[e][local_location[p]] = local_used[e][p]
                                 /\ local_used[e][p] \in LocalAddresses)'
        BY DEF LocalUsed
      <3>1. local_used'[e]["static"] \in {<<>>, local_block'[e]}
        BY <1>1, <1>2, <2>1, LocalConstants DEF LocalUsed
      <3>2. ASSUME NEW p \in LocalObjects, local_used'[e][p] # <<>>
            PROVE  /\ local_location'[p] \in 1 .. Len(local_emutls'[e])
                   /\ local_emutls'[e][local_location'[p]] = local_used'[e][p]
                   /\ local_used'[e][p] \in LocalAddresses
        <4>1. CASE e = c /\ p = o
          BY <2>1, <2>2, <2>5, <4>1
        <4>2. CASE ~(e = c /\ p = o)
          <5>1. local_used'[e][p] = local_used[e][p]
            BY <2>1, <4>2
          <5>2. /\ local_location[p] \in 1 .. Len(local_emutls[e])
                /\ local_emutls[e][local_location[p]] = local_used[e][p]
                /\ local_used[e][p] \in LocalAddresses
            BY <1>1, <3>2, <5>1 DEF LocalUsed
          <5>3. local_location'[p] = local_location[p]
            BY <2>2, <2>5, <5>2
          <5>4. /\ local_location[p] \in 1 .. Len(local_emutls'[e])
                /\ local_emutls'[e][local_location[p]] = local_emutls[e][local_location[p]]
            BY <2>1, <2>5, <3>2, <5>1, <5>2
          <5> QED BY <5>1, <5>2, <5>3, <5>4
        <4> QED BY <4>1, <4>2
      <3> QED BY <3>1, <3>2
    <2>7. \A e \in LocalContexts :
              /\ Len(local_emutls[e]) <= Len(local_emutls'[e])
              /\ \A i \in 1 .. Len(local_emutls[e]) : local_emutls[e][i] # <<>> =>
                    local_emutls'[e][i] = local_emutls[e][i]
      BY <2>1, <2>5
    <2>8. LocalLists' /\ LocalSorted'
      BY <1>2, <2>1, <2>7, LocalListsKept
    <2> QED BY <1>3, <2>3, <2>4, <2>6, <2>8 DEF LocalInv
  <1>6. ASSUME NEW o \in LocalObjects, Locals!__emutls_get_address(c, o) PROVE LocalInv'
    <2>1. CASE local_location[o] = 0
      <3>1. UNCHANGED <<local_emutls, local_used, local_location, local_emutls_object_count>>
            /\ local_pending' \in [LocalContexts -> LocalObjects \cup {"none"}]
        BY <1>1, <1>6, <2>1 DEF Locals!__emutls_get_address, LocalTypes
      <3> QED BY <1>4, <3>1
    <2>2. CASE local_location[o] # 0
      <3>1. /\ Locals!Reach(c, o, local_location[o]) /\ local_location[o] \in Nat \ {0}
            /\ UNCHANGED <<local_location, local_emutls_object_count, local_pending>>
        BY <1>1, <1>6, <2>2 DEF Locals!__emutls_get_address, LocalTypes
      <3>2. local_pending' \in [LocalContexts -> LocalObjects \cup {"none"}]
        BY <1>1, <3>1 DEF LocalTypes
      <3> QED BY <1>5, <3>1, <3>2
    <2> QED BY <2>1, <2>2
  <1>7. CASE Locals!emutls_offset(c)
    <2> DEFINE o == local_pending[c]
    <2>1. /\ o \in LocalObjects
          /\ local_pending' = [local_pending EXCEPT ![c] = "none"]
      BY <1>1, <1>7, LocalConstants DEF Locals!emutls_offset, Locals!None, LocalTypes
    <2>2. local_pending' \in [LocalContexts -> LocalObjects \cup {"none"}]
      BY <1>1, <2>1 DEF LocalTypes
    <2>3. CASE local_location[o] # 0
      <3>1. /\ Locals!Reach(c, o, local_location[o]) /\ local_emutls_object_count' = local_emutls_object_count
            /\ local_location' = [local_location EXCEPT ![o] = local_location[o]]
        BY <1>7, <2>3 DEF Locals!emutls_offset, Locals!Assigned
      <3>2. local_location' = local_location /\ local_location[o] \in Nat \ {0}
        BY <1>1, <2>1, <2>3, <3>1 DEF LocalTypes
      <3> HIDE DEF o
      <3> QED BY <1>5, <2>1, <2>2, <3>1, <3>2
    <2>4. CASE local_location[o] = 0
      <3>1. /\ Locals!Reach(c, o, local_emutls_object_count + 1)
            /\ local_emutls_object_count' = local_emutls_object_count + 1
            /\ local_location' = [local_location EXCEPT ![o] = local_emutls_object_count + 1]
        BY <1>7, <2>4 DEF Locals!emutls_offset, Locals!Assigned
      <3>2. local_emutls_object_count + 1 \in Nat \ {0}
        BY <1>1 DEF LocalTypes
      <3> HIDE DEF o
      <3> QED BY <1>5, <2>1, <2>2, <2>4, <3>1, <3>2
    <2> QED BY <2>3, <2>4
  <1> QED BY <1>6, <1>7

LEMMA LocalPointerStep ==
    ASSUME LocalInv, NEW c \in LocalContexts, Locals!runtime_tls_read_thread_pointer(c)
    PROVE  LocalInv'
  <1>1. LocalTypes /\ LocalOffsets /\ LocalUsed /\ LocalPhases
    BY DEF LocalInv
  <1>2. /\ UNCHANGED <<local_phase, local_state, local_block, local_destructors, local_running,
                       local_registered, local_emutls, local_location, local_emutls_object_count, local_pending>>
        /\ local_used' = [local_used EXCEPT ![c]["static"] = local_block[c]]
    BY DEF Locals!runtime_tls_read_thread_pointer, Locals!context
  <1>3. /\ local_used' \in [LocalContexts -> [LocalObjects \cup {"static"} -> LocalAddresses \cup LocalBlocks]]
        /\ local_used'[c]["static"] = local_block[c]
        /\ \A o \in LocalObjects : local_used'[c][o] = local_used[c][o]
        /\ \A e \in LocalContexts \ {c} : local_used'[e] = local_used[e]
    BY <1>1, <1>2, LocalConstants DEF LocalTypes
  <1>4. LocalTypes' /\ LocalOffsets' /\ LocalPhases'
    <2>1. LocalTypes'
      BY <1>1, <1>2, <1>3 DEF LocalTypes
    <2>2. LocalOffsets'
      BY <1>1, <1>2 DEF LocalOffsets
    <2>3. LocalPhases'
      BY <1>1, <1>2 DEF LocalPhases
    <2> QED BY <2>1, <2>2, <2>3
  <1>5. LocalUsed'
    BY <1>1, <1>2, <1>3 DEF LocalUsed
  <1>6. LocalLists' /\ LocalSorted'
    <2>1. \A e \in LocalContexts :
              /\ Len(local_emutls[e]) <= Len(local_emutls'[e])
              /\ \A i \in 1 .. Len(local_emutls[e]) : local_emutls[e][i] # <<>> =>
                    local_emutls'[e][i] = local_emutls[e][i]
      BY <1>1, <1>2 DEF LocalTypes
    <2> QED BY <1>1, <1>2, <2>1, LocalListsKept DEF LocalTypes
  <1> QED BY <1>4, <1>5, <1>6 DEF LocalInv

\* Lists of destructors.
LocalElements(list) == {list[i] : i \in DOMAIN list}
LocalOrdered(list) == \A i, j \in 1 .. Len(list) : i < j => list[i] > list[j]

LEMMA LocalPut ==
    ASSUME NEW list \in Seq(Nat), NEW n \in Nat
    PROVE  /\ <<n>> \o list \in Seq(Nat)
           /\ LocalElements(<<n>> \o list) = {n} \cup LocalElements(list)
           /\ LocalOrdered(list) /\ (\A d \in LocalElements(list) : d < n) => LocalOrdered(<<n>> \o list)
  <1> DEFINE longer == <<n>> \o list
  <1>1. /\ longer \in Seq(Nat) /\ Len(longer) = Len(list) + 1 /\ longer[1] = n /\ Len(list) \in Nat
        /\ \A i \in 1 .. Len(list) : longer[i + 1] = list[i]
    OBVIOUS
  <1> HIDE DEF longer
  <1>2. /\ DOMAIN longer = 1 .. Len(list) + 1 /\ DOMAIN list = 1 .. Len(list)
        /\ \A i \in 2 .. Len(list) + 1 : i - 1 \in 1 .. Len(list) /\ longer[i] = list[i - 1]
    <2>1. ASSUME NEW i \in 2 .. Len(list) + 1
          PROVE  i - 1 \in 1 .. Len(list) /\ longer[i] = list[i - 1]
      <3>1. i - 1 \in 1 .. Len(list) /\ (i - 1) + 1 = i
        BY <1>1
      <3> QED BY <1>1, <3>1
    <2> QED BY <1>1, <2>1
  <1>3. LocalElements(longer) = {n} \cup LocalElements(list)
    <2>1. ASSUME NEW d \in LocalElements(longer) PROVE d \in {n} \cup LocalElements(list)
      <3>1. PICK i \in 1 .. Len(list) + 1 : d = longer[i]
        BY <1>2, <2>1 DEF LocalElements
      <3>2. CASE i = 1
        BY <1>1, <3>1, <3>2
      <3>3. CASE i # 1
        <4>1. i \in 2 .. Len(list) + 1
          BY <1>1, <3>3
        <4> QED BY <1>2, <3>1, <4>1 DEF LocalElements
      <3> QED BY <3>2, <3>3
    <2>2. ASSUME NEW d \in {n} \cup LocalElements(list) PROVE d \in LocalElements(longer)
      <3>1. CASE d = n
        <4>1. 1 \in DOMAIN longer
          BY <1>1, <1>2
        <4> QED BY <1>1, <3>1, <4>1 DEF LocalElements
      <3>2. CASE d # n
        <4>1. PICK i \in 1 .. Len(list) : d = list[i]
          BY <1>2, <2>2, <3>2 DEF LocalElements
        <4>2. i + 1 \in DOMAIN longer /\ longer[i + 1] = d
          BY <1>1, <1>2, <4>1
        <4> QED BY <4>2 DEF LocalElements
      <3> QED BY <3>1, <3>2
    <2> QED BY <2>1, <2>2
  <1>4. ASSUME LocalOrdered(list), \A d \in LocalElements(list) : d < n
        PROVE  LocalOrdered(longer)
    <2> SUFFICES ASSUME NEW i \in 1 .. Len(longer), NEW j \in 1 .. Len(longer), i < j
                 PROVE  longer[i] > longer[j]
      BY DEF LocalOrdered
    <2>1. j - 1 \in 1 .. Len(list) /\ longer[j] = list[j - 1] /\ list[j - 1] \in Nat
      BY <1>1, <1>2
    <2>2. CASE i = 1
      <3>1. list[j - 1] < n
        BY <1>2, <1>4, <2>1 DEF LocalElements
      <3> QED BY <1>1, <2>1, <2>2, <3>1
    <2>3. CASE i # 1
      <3>1. i \in 2 .. Len(list) + 1 /\ i - 1 < j - 1
        BY <1>1, <2>3
      <3> QED BY <1>2, <1>4, <2>1, <3>1 DEF LocalOrdered
    <2> QED BY <2>2, <2>3
  <1> QED BY <1>1, <1>3, <1>4 DEF longer

LEMMA LocalTake ==
    ASSUME NEW list \in Seq(Nat), list # <<>>, LocalOrdered(list)
    PROVE  /\ Tail(list) \in Seq(Nat) /\ Head(list) \in Nat
           /\ LocalElements(list) = {Head(list)} \cup LocalElements(Tail(list))
           /\ Head(list) \notin LocalElements(Tail(list))
           /\ LocalOrdered(Tail(list))
  <1> DEFINE n == Head(list)
             rest == Tail(list)
  <1>1. /\ rest \in Seq(Nat) /\ Len(list) \in Nat \ {0} /\ Len(rest) = Len(list) - 1 /\ n = list[1]
        /\ \A i \in 1 .. Len(rest) : rest[i] = list[i + 1]
    OBVIOUS
  <1> HIDE DEF n, rest
  <1>2. /\ DOMAIN list = 1 .. Len(list) /\ DOMAIN rest = 1 .. Len(rest) /\ 1 \in DOMAIN list
        /\ \A i \in DOMAIN rest : i + 1 \in DOMAIN list
        /\ \A i \in DOMAIN list \ {1} : i - 1 \in DOMAIN rest /\ rest[i - 1] = list[i]
    <2>1. ASSUME NEW i \in (1 .. Len(list)) \ {1}
          PROVE  i - 1 \in 1 .. Len(rest) /\ rest[i - 1] = list[i]
      <3>1. i - 1 \in 1 .. Len(rest) /\ (i - 1) + 1 = i
        BY <1>1
      <3> QED BY <1>1, <3>1
    <2> QED BY <1>1, <2>1
  <1>3. LocalElements(list) = {n} \cup LocalElements(rest)
    <2>1. ASSUME NEW d \in LocalElements(list) PROVE d \in {n} \cup LocalElements(rest)
      <3>1. PICK i \in DOMAIN list : d = list[i]
        BY <2>1 DEF LocalElements
      <3>2. CASE i = 1
        BY <1>1, <3>1, <3>2
      <3>3. CASE i # 1
        BY <1>2, <3>1, <3>3 DEF LocalElements
      <3> QED BY <3>2, <3>3
    <2>2. ASSUME NEW d \in LocalElements(rest) PROVE d \in LocalElements(list)
      BY <1>1, <1>2, <2>2 DEF LocalElements
    <2>3. n \in LocalElements(list)
      BY <1>1, <1>2 DEF LocalElements
    <2> QED BY <2>1, <2>2, <2>3
  <1>4. n \notin LocalElements(rest)
    <2> SUFFICES ASSUME NEW i \in DOMAIN rest, n = rest[i] PROVE FALSE
      BY DEF LocalElements
    <2>1. i + 1 \in 1 .. Len(list) /\ 1 < i + 1 /\ list[i + 1] = list[1]
      <3>1. i \in 1 .. Len(rest) /\ i + 1 \in 1 .. Len(list)
        BY <1>2
      <3>2. list[i + 1] = rest[i]
        BY <1>1, <3>1
      <3>3. 1 < i + 1
        BY <3>1
      <3> QED BY <1>1, <3>1, <3>2, <3>3
    <2>2. 1 \in 1 .. Len(list) /\ list[1] \in Nat
      BY <1>1, <1>2
    <2>3. list[1] > list[i + 1]
      BY <2>1, <2>2 DEF LocalOrdered
    <2> QED BY <2>1, <2>2, <2>3
  <1>5. LocalOrdered(rest)
    <2> SUFFICES ASSUME NEW i \in 1 .. Len(rest), NEW j \in 1 .. Len(rest), i < j
                 PROVE  rest[i] > rest[j]
      BY DEF LocalOrdered
    <2>1. i + 1 \in 1 .. Len(list) /\ j + 1 \in 1 .. Len(list) /\ i + 1 < j + 1
      BY <1>1
    <2> QED BY <1>1, <2>1 DEF LocalOrdered
  <1> QED BY <1>1, <1>3, <1>4, <1>5 DEF n, rest

LEMMA LocalView ==
    /\ \A c : Locals!Listed(c) = LocalElements(local_destructors[c])
    /\ LocalSorted <=> \A c \in LocalContexts : LocalOrdered(local_destructors[c])
  BY DEF Locals!Listed, LocalElements, LocalSorted, LocalOrdered

\* Steps that leave everything but a thread's state.
LEMMA LocalStateStep ==
    ASSUME LocalInv, NEW t \in Threads, Locals!Leave(t) \/ Locals!End(t) \/ Locals!Terminate(t)
    PROVE  LocalInv'
  <1>1. LocalTypes /\ LocalOffsets /\ LocalUsed /\ LocalSorted /\ LocalLists /\ LocalPhases
    BY DEF LocalInv
  <1>2. UNCHANGED <<local_phase, local_block, local_destructors, local_emutls, local_location,
                    local_emutls_object_count, local_pending, local_running, local_used, local_registered>>
    BY DEF Locals!Leave, Locals!End, Locals!Terminate
  <1>3. t \in LocalContexts /\ t # "startup"
    BY LocalConstants DEF LocalContexts
  <1>4. /\ local_phase = "kernel" /\ local_state[t] # "none"
        /\ \/ local_state' = [local_state EXCEPT ![t] = "drains"]
           \/ local_state' = [local_state EXCEPT ![t] = "ended"]
    <2>1. CASE Locals!End(t)
      <3>1. local_state[t] = "drains" /\ local_state' = [local_state EXCEPT ![t] = "ended"]
        BY <2>1 DEF Locals!End
      <3>2. local_phase # "startup"
        BY <1>1, <3>1 DEF LocalPhases
      <3> QED BY <1>1, <3>1, <3>2 DEF LocalTypes
    <2>2. CASE Locals!Leave(t) \/ Locals!Terminate(t)
      BY <1>3, <2>2 DEF Locals!Leave, Locals!Terminate, Locals!Active, Locals!StartUp
    <2> QED BY <2>1, <2>2
  <1>5. LocalTypes'
    BY <1>1, <1>2, <1>4 DEF LocalTypes
  <1>6. LocalOffsets' /\ LocalUsed' /\ LocalSorted' /\ LocalLists'
    <2>1. \A c \in LocalContexts : Locals!Listed(c)' = Locals!Listed(c)
      BY <1>2 DEF Locals!Listed
    <2>2. \A c \in LocalContexts : \A d : LocalHas(c, d)' <=> LocalHas(c, d)
      BY <1>2 DEF LocalHas
    <2>3. LocalLists'
      BY <1>1, <1>2, <2>1, <2>2 DEF LocalLists
    <2> QED BY <1>1, <1>2, <2>3 DEF LocalOffsets, LocalUsed, LocalSorted
  <1>7. LocalPhases'
    BY <1>1, <1>2, <1>4 DEF LocalPhases, LocalTypes
  <1> QED BY <1>5, <1>6, <1>7 DEF LocalInv

\* A new destructor is first in its context's list.
LEMMA LocalRegisterStep ==
    ASSUME LocalInv, NEW c \in LocalContexts, NEW o \in LocalObjects, Locals!__cxa_thread_atexit(c, o)
    PROVE  LocalInv'
  <1>1. LocalTypes /\ LocalOffsets /\ LocalUsed /\ LocalSorted /\ LocalLists /\ LocalPhases
    BY DEF LocalInv
  <1>2. PICK n \in Nat : n = Len(local_registered) + 1
    BY <1>1 DEF LocalTypes
  <1>3. PICK entry : entry = [object |-> local_used[c][o], fate |-> "listed"]
    OBVIOUS
  <1>4. /\ UNCHANGED <<local_phase, local_state, local_block, local_emutls, local_location,
                       local_emutls_object_count, local_pending, local_running, local_used>>
        /\ local_registered' = Append(local_registered, entry)
        /\ local_destructors' = [local_destructors EXCEPT ![c] = <<n>> \o local_destructors[c]]
        /\ local_used[c][o] # <<>> /\ Locals!Active(c)
    BY <1>2, <1>3 DEF Locals!__cxa_thread_atexit, Locals!Null
  <1>5. entry \in LocalDestructor /\ entry.object = local_used[c][o] /\ entry.fate = "listed"
    BY <1>1, <1>3, <1>4 DEF LocalUsed, LocalDestructor
  <1>6. /\ local_registered' \in Seq(LocalDestructor) /\ Len(local_registered') = n
        /\ local_registered'[n] = entry
        /\ \A d \in 1 .. Len(local_registered) : local_registered'[d] = local_registered[d]
        /\ \A d \in 1 .. n : d = n \/ d \in 1 .. Len(local_registered)
        /\ \A d \in 1 .. Len(local_registered) : d < n /\ d \in 1 .. n
        /\ n \in 1 .. n
    <2>1. local_registered \in Seq(LocalDestructor) /\ Len(local_registered) \in Nat
      BY <1>1 DEF LocalTypes
    <2> QED BY <1>2, <1>4, <1>5, <2>1
  <1>7. local_destructors[c] \in Seq(Nat)
    BY <1>1 DEF LocalTypes
  <1>8. /\ local_destructors' \in [LocalContexts -> Seq(Nat)]
        /\ local_destructors'[c] = <<n>> \o local_destructors[c]
        /\ \A e \in LocalContexts \ {c} : local_destructors'[e] = local_destructors[e]
    BY <1>1, <1>4, <1>7, LocalPut DEF LocalTypes
  <1>9. /\ Locals!Listed(c)' = {n} \cup Locals!Listed(c)
        /\ \A e \in LocalContexts \ {c} : Locals!Listed(e)' = Locals!Listed(e)
    <2>1. \A e \in LocalContexts : Locals!Listed(e)' = LocalElements(local_destructors'[e])
      BY DEF Locals!Listed, LocalElements
    <2> QED BY <1>7, <1>8, <2>1, LocalPut, LocalView
  <1>10. \A e \in LocalContexts : \A d \in Locals!Listed(e) :
             d \in 1 .. Len(local_registered) /\ d < n
    BY <1>1, <1>6 DEF LocalLists, LocalHas
  <1>11. LocalTypes'
    BY <1>1, <1>4, <1>6, <1>8 DEF LocalTypes
  <1>12. LocalOffsets' /\ LocalUsed'
    BY <1>1, <1>4 DEF LocalOffsets, LocalUsed
  <1>13. LocalSorted'
    <2>1. LocalSorted' <=> \A e \in LocalContexts : LocalOrdered(local_destructors'[e])
      BY DEF LocalSorted, LocalOrdered
    <2>2. \A e \in LocalContexts : LocalOrdered(local_destructors[e])
      BY <1>1, LocalView
    <2>3. LocalOrdered(<<n>> \o local_destructors[c])
      BY <1>7, <1>10, <2>2, LocalPut, LocalView
    <2> QED BY <1>8, <2>1, <2>2, <2>3
  <1>14. LocalLists'
    <2>1. ASSUME NEW e \in LocalContexts, NEW d, LocalHas(e, d) PROVE LocalHas(e, d)'
      BY <1>4, <1>6, <2>1 DEF LocalHas
    <2>2. LocalHas(c, n)'
      <3>1. /\ local_location[o] \in 1 .. Len(local_emutls[c])
            /\ local_emutls[c][local_location[o]] = local_used[c][o]
        BY <1>1, <1>4 DEF LocalUsed
      <3> QED BY <1>4, <1>5, <1>6, <3>1 DEF LocalHas
    <2>3. \A e \in LocalContexts :
              /\ \A d \in Locals!Listed(e)' : LocalHas(e, d)' /\ local_registered'[d].fate = "listed"
              /\ local_running'[e] # 0 =>
                    LocalHas(e, local_running[e])' /\ local_registered'[local_running[e]].fate = "running"
      <3>1. SUFFICES ASSUME NEW e \in LocalContexts
                     PROVE  /\ \A d \in Locals!Listed(e)' : LocalHas(e, d)' /\ local_registered'[d].fate = "listed"
                            /\ local_running'[e] # 0 =>
                                  /\ LocalHas(e, local_running[e])'
                                  /\ local_registered'[local_running[e]].fate = "running"
        OBVIOUS
      <3>2. ASSUME NEW d \in Locals!Listed(e) PROVE LocalHas(e, d)' /\ local_registered'[d].fate = "listed"
        BY <1>1, <1>6, <1>10, <2>1 DEF LocalLists
      <3>3. ASSUME local_running[e] # 0
            PROVE  LocalHas(e, local_running[e])' /\ local_registered'[local_running[e]].fate = "running"
        <4>1. LocalHas(e, local_running[e]) /\ local_registered[local_running[e]].fate = "running"
          BY <1>1, <3>3 DEF LocalLists
        <4>2. local_running[e] \in 1 .. Len(local_registered)
          BY <4>1 DEF LocalHas
        <4>3. LocalHas(e, local_running[e])'
          BY <1>4, <1>6, <4>1 DEF LocalHas
        <4> QED BY <1>6, <4>1, <4>2, <4>3
      <3> QED BY <1>4, <1>5, <1>6, <1>9, <2>2, <3>2, <3>3
    <2>4. \A e, f \in LocalContexts : e # f =>
              /\ Locals!Listed(e)' \cap Locals!Listed(f)' = {}
              /\ local_running'[e] # 0 => local_running'[e] # local_running'[f]
      BY <1>1, <1>2, <1>4, <1>9, <1>10 DEF LocalLists
    <2>5. \A d \in 1 .. Len(local_registered') : local_registered'[d].fate = "listed" =>
              \E e \in LocalContexts : d \in Locals!Listed(e)'
      BY <1>1, <1>6, <1>9 DEF LocalLists
    <2>6. UNCHANGED local_running
      BY <1>4
    <2> QED BY <2>3, <2>4, <2>5, <2>6 DEF LocalLists
  <1>15. LocalPhases'
    <2>1. ASSUME NEW t \in Threads, local_phase = "startup" \/ local_state[t] = "none" PROVE t # c
      BY <1>4, <2>1, LocalConstants DEF Locals!Active, Locals!StartUp
    <2> QED BY <1>1, <1>4, <1>8, <2>1 DEF LocalPhases, LocalContexts
  <1> QED BY <1>11, <1>12, <1>13, <1>14, <1>15 DEF LocalInv

\* A thread that is created, deleted or reset has nothing.
LEMMA LocalClearStep ==
    ASSUME LocalInv, NEW t \in Threads, NEW s \in {"none", "runs"},
           local_state' = [local_state EXCEPT ![t] = s],
           \E b \in LocalBlocks : local_block' = [local_block EXCEPT ![t] = b],
           local_destructors' = [local_destructors EXCEPT ![t] = <<>>],
           local_emutls' = [local_emutls EXCEPT ![t] = <<>>],
           local_pending' = [local_pending EXCEPT ![t] = "none"],
           local_running' = [local_running EXCEPT ![t] = 0],
           local_used' = [local_used EXCEPT ![t] = Locals!Unknown],
           local_registered' = Locals!Discarded(t),
           UNCHANGED <<local_phase, local_location, local_emutls_object_count>>
    PROVE  LocalInv'
  <1>1. LocalTypes /\ LocalOffsets /\ LocalUsed /\ LocalSorted /\ LocalLists /\ LocalPhases
    BY DEF LocalInv
  <1>2. t \in LocalContexts /\ t # "startup" /\ "startup" \in LocalContexts
    BY LocalConstants DEF LocalContexts
  <1>3. PICK b \in LocalBlocks : local_block' = [local_block EXCEPT ![t] = b]
    OBVIOUS
  <1>4. Locals!Unknown \in [LocalObjects \cup {"static"} -> LocalAddresses \cup LocalBlocks]
    BY LocalAddress DEF Locals!Unknown, Locals!Null
  <1>5. /\ local_destructors' \in [LocalContexts -> Seq(Nat)] /\ local_emutls' \in [LocalContexts -> Seq(LocalAddresses)]
        /\ local_block' \in [LocalContexts -> LocalBlocks] /\ local_running' \in [LocalContexts -> Nat]
        /\ local_used' \in [LocalContexts -> [LocalObjects \cup {"static"} -> LocalAddresses \cup LocalBlocks]]
        /\ local_state' \in [Threads -> {"none", "runs", "drains", "ended"}]
        /\ local_pending' \in [LocalContexts -> LocalObjects \cup {"none"}]
    <2>1. <<>> \in Seq(Nat) /\ <<>> \in Seq(LocalAddresses)
      OBVIOUS
    <2>2. local_block' \in [LocalContexts -> LocalBlocks]
      BY <1>1, <1>3 DEF LocalTypes
    <2>3. local_used' \in [LocalContexts -> [LocalObjects \cup {"static"} -> LocalAddresses \cup LocalBlocks]]
      BY <1>1, <1>4 DEF LocalTypes
    <2> QED BY <1>1, <2>1, <2>2, <2>3 DEF LocalTypes
  <1>6. /\ local_destructors'[t] = <<>> /\ local_emutls'[t] = <<>> /\ local_running'[t] = 0
        /\ local_used'[t] = Locals!Unknown /\ local_state'[t] = s
    BY <1>1, <1>2 DEF LocalTypes
  <1>7. \A e \in LocalContexts \ {t} :
            /\ local_destructors'[e] = local_destructors[e] /\ local_emutls'[e] = local_emutls[e]
            /\ local_running'[e] = local_running[e] /\ local_used'[e] = local_used[e]
            /\ local_block'[e] = local_block[e]
    BY <1>1, <1>3 DEF LocalTypes
  <1>8. /\ Locals!Listed(t)' = {}
        /\ \A e \in LocalContexts \ {t} : Locals!Listed(e)' = Locals!Listed(e)
    BY <1>6, <1>7 DEF Locals!Listed
  <1>9. /\ local_registered' \in Seq(LocalDestructor) /\ Len(local_registered') = Len(local_registered)
        /\ \A d \in 1 .. Len(local_registered) :
              local_registered'[d] = IF local_running[t] = d \/ d \in Locals!Listed(t) THEN [object |-> <<>>, fate |-> "gone"]
                                     ELSE local_registered[d]
    <2> DEFINE n == Len(local_registered)
               value(d) == IF local_running[t] = d \/ d \in Locals!Listed(t) THEN [object |-> <<>>, fate |-> "gone"]
                           ELSE local_registered[d]
    <2>1. n \in Nat /\ DOMAIN local_registered = 1 .. n /\ \A d \in 1 .. n : local_registered[d] \in LocalDestructor
      BY <1>1 DEF LocalTypes
    <2>2. local_registered' = [d \in 1 .. n |-> value(d)]
      BY <2>1 DEF Locals!Discarded, Locals!Listed, Locals!Gone, Locals!Null
    <2>3. [object |-> <<>>, fate |-> "gone"] \in LocalDestructor
      BY LocalAddress DEF LocalDestructor
    <2>4. \A d \in 1 .. n : value(d) \in LocalDestructor
      BY <2>1, <2>3
    <2> HIDE DEF n, value
    <2>5. local_registered' \in [1 .. n -> LocalDestructor]
      BY <2>2, <2>4
    <2>6. local_registered' \in Seq(LocalDestructor) /\ Len(local_registered') = n
      BY <2>1, <2>5, LocalSequence
    <2>7. \A d \in 1 .. n : local_registered'[d] = value(d)
      BY <2>2
    <2> QED BY <2>6, <2>7 DEF n, value
  <1>10. LocalTypes'
    BY <1>1, <1>5, <1>9 DEF LocalTypes
  <1>11. LocalOffsets'
    BY <1>1 DEF LocalOffsets
  <1>12. LocalUsed'
    <2>1. /\ local_used'[t]["static"] = <<>>
          /\ \A o \in LocalObjects : local_used'[t][o] = <<>>
      BY <1>6 DEF Locals!Unknown, Locals!Null
    <2> QED BY <1>1, <1>7, <2>1 DEF LocalUsed
  <1>13. LocalSorted'
    BY <1>1, <1>6, <1>7 DEF LocalSorted
  <1>14. ASSUME NEW e \in LocalContexts \ {t}, NEW d, LocalHas(e, d),
                d # local_running[t], d \notin Locals!Listed(t)
         PROVE  LocalHas(e, d)' /\ local_registered'[d] = local_registered[d]
    BY <1>7, <1>9, <1>14 DEF LocalHas
  <1>15. LocalLists'
    <2>1. ASSUME NEW e \in LocalContexts, NEW d \in Locals!Listed(e)'
          PROVE  LocalHas(e, d)' /\ local_registered'[d].fate = "listed"
      <3>1. e # t /\ d \in Locals!Listed(e)
        BY <1>8, <2>1
      <3>2. LocalHas(e, d) /\ local_registered[d].fate = "listed" /\ d \notin Locals!Listed(t)
        BY <1>1, <1>2, <3>1 DEF LocalLists
      <3>3. d # local_running[t]
        <4>1. CASE local_running[t] = 0
          BY <1>1, <3>2, <4>1 DEF LocalHas
        <4>2. CASE local_running[t] # 0
          BY <1>1, <1>2, <3>2, <4>2 DEF LocalLists
        <4> QED BY <4>1, <4>2
      <3> QED BY <1>14, <3>1, <3>2, <3>3
    <2>2. ASSUME NEW e \in LocalContexts, local_running'[e] # 0
          PROVE  LocalHas(e, local_running[e])' /\ local_registered'[local_running'[e]].fate = "running"
      <3>1. e # t /\ local_running'[e] = local_running[e] /\ local_running[e] # 0
        BY <1>6, <1>7, <2>2
      <3>2. PICK d : d = local_running[e]
        OBVIOUS
      <3>3. LocalHas(e, d) /\ local_registered[d].fate = "running" /\ d # local_running[t]
        BY <1>1, <1>2, <3>1, <3>2 DEF LocalLists
      <3>4. d \notin Locals!Listed(t)
        BY <1>1, <1>2, <3>3 DEF LocalLists
      <3>5. LocalHas(e, d)' /\ local_registered'[d] = local_registered[d]
        BY <1>14, <3>1, <3>3, <3>4
      <3>6. local_running'[e] = d
        BY <3>1, <3>2
      <3> QED BY <3>3, <3>5, <3>6 DEF LocalHas
    <2>3. \A e, f \in LocalContexts : e # f =>
              /\ Locals!Listed(e)' \cap Locals!Listed(f)' = {}
              /\ local_running'[e] # 0 => local_running'[e] # local_running'[f]
      BY <1>1, <1>6, <1>7, <1>8 DEF LocalLists
    <2>4. ASSUME NEW d \in 1 .. Len(local_registered'), local_registered'[d].fate = "listed"
          PROVE  \E e \in LocalContexts : d \in Locals!Listed(e)'
      <3>1. d \in 1 .. Len(local_registered) /\ d \notin Locals!Listed(t) /\ local_registered[d].fate = "listed"
        BY <1>9, <2>4
      <3>2. PICK e \in LocalContexts : d \in Locals!Listed(e)
        BY <1>1, <3>1 DEF LocalLists
      <3> QED BY <1>8, <3>1, <3>2
    <2>5. \A e \in LocalContexts : local_running'[e] # 0 =>
              LocalHas(e, local_running[e])' /\ local_registered'[local_running'[e]].fate = "running"
      BY <2>2
    <2> QED BY <2>1, <2>3, <2>4, <2>5 DEF LocalLists
  <1>16. LocalPhases'
    <2>1. \A p \in Threads \ {t} : local_state'[p] = local_state[p] /\ p \in LocalContexts
      BY <1>1 DEF LocalTypes, LocalContexts
    <2> QED BY <1>1, <1>2, <1>6, <1>7, <2>1 DEF LocalPhases
  <1> QED BY <1>10, <1>11, <1>12, <1>13, <1>15, <1>16 DEF LocalInv

LEMMA LocalThreadStep ==
    ASSUME LocalInv, NEW t \in Threads,
           \/ Locals!runtime_tls_thread_create(t)
           \/ Locals!runtime_tls_thread_delete(t)
           \/ Locals!Reset(t)
    PROVE  LocalInv'
  <1> USE DEF Locals!Null, Locals!None
  <1>1. <<>> \in LocalBlocks /\ <<"own">> \in LocalBlocks
    BY DEF LocalBlocks
  <1>2. CASE Locals!runtime_tls_thread_create(t)
    <2>1. local_registered = Locals!Discarded(t)
      <3>1. local_destructors[t] = <<>> /\ local_running[t] = 0
        BY <1>2 DEF LocalInv, LocalPhases, Locals!runtime_tls_thread_create
      <3>2. DOMAIN local_registered = 1 .. Len(local_registered)
            /\ local_registered = [d \in DOMAIN local_registered |-> local_registered[d]]
        BY DEF LocalInv, LocalTypes
      <3>3. DOMAIN local_destructors[t] = {} /\ 0 \notin DOMAIN local_registered
        BY <3>1, <3>2
      <3> QED BY <3>1, <3>2, <3>3 DEF Locals!Discarded
    <2>2. local_registered' = Locals!Discarded(t)
      BY <1>2, <2>1 DEF Locals!runtime_tls_thread_create
    <2> QED BY <1>1, <1>2, <2>2, LocalClearStep DEF Locals!runtime_tls_thread_create, Locals!Fresh
  <1>3. CASE Locals!runtime_tls_thread_delete(t)
    BY <1>1, <1>3, LocalClearStep DEF Locals!runtime_tls_thread_delete
  <1>4. CASE Locals!Reset(t)
    BY <1>1, <1>4, LocalClearStep DEF Locals!Reset, Locals!Fresh
  <1> QED BY <1>2, <1>3, <1>4

\* A destructor leaves its thread's list to run.
LEMMA LocalRunStep ==
    ASSUME LocalInv, NEW t \in Threads, Locals!RunDestructor(t)
    PROVE  LocalInv'
  <1>1. LocalTypes /\ LocalOffsets /\ LocalUsed /\ LocalSorted /\ LocalLists /\ LocalPhases
    BY DEF LocalInv
  <1>2. t \in LocalContexts /\ t # "startup"
    BY LocalConstants DEF LocalContexts
  <1>3. PICK list, n : list = local_destructors[t] /\ n = Head(list)
    OBVIOUS
  <1>4. /\ UNCHANGED <<local_phase, local_state, local_block, local_emutls, local_location,
                       local_emutls_object_count, local_pending, local_used>>
        /\ local_state[t] = "drains" /\ local_running[t] = 0 /\ list # <<>>
        /\ local_running' = [local_running EXCEPT ![t] = n]
        /\ local_destructors' = [local_destructors EXCEPT ![t] = Tail(list)]
        /\ local_registered' = [local_registered EXCEPT ![n].fate = "running"]
    BY <1>3 DEF Locals!RunDestructor
  <1>5. list \in Seq(Nat) /\ LocalOrdered(list)
    BY <1>1, <1>2, <1>3, LocalView DEF LocalTypes
  <1>6. /\ Tail(list) \in Seq(Nat) /\ n \in Nat /\ n \notin LocalElements(Tail(list))
        /\ Locals!Listed(t) = {n} \cup LocalElements(Tail(list)) /\ LocalOrdered(Tail(list))
    BY <1>3, <1>4, <1>5, LocalTake, LocalView
  <1>7. /\ local_destructors' \in [LocalContexts -> Seq(Nat)] /\ local_running' \in [LocalContexts -> Nat]
        /\ local_destructors'[t] = Tail(list) /\ local_running'[t] = n
        /\ \A e \in LocalContexts \ {t} :
              local_destructors'[e] = local_destructors[e] /\ local_running'[e] = local_running[e]
    BY <1>1, <1>2, <1>4, <1>6 DEF LocalTypes
  <1>8. /\ Locals!Listed(t)' = LocalElements(Tail(list))
        /\ \A e \in LocalContexts \ {t} : Locals!Listed(e)' = Locals!Listed(e)
    <2>1. \A e \in LocalContexts : Locals!Listed(e)' = LocalElements(local_destructors'[e])
      BY DEF Locals!Listed, LocalElements
    <2> QED BY <1>2, <1>7, <2>1, LocalView
  <1>9. LocalHas(t, n) /\ local_registered[n].fate = "listed" /\ n # 0 /\ n \in 1 .. Len(local_registered)
    <2>1. LocalHas(t, n) /\ local_registered[n].fate = "listed"
      BY <1>1, <1>2, <1>6 DEF LocalLists
    <2> QED BY <2>1 DEF LocalHas
  <1>10. /\ local_registered' \in Seq(LocalDestructor) /\ Len(local_registered') = Len(local_registered)
         /\ local_registered'[n].fate = "running" /\ local_registered'[n].object = local_registered[n].object
         /\ \A d \in (1 .. Len(local_registered)) \ {n} : local_registered'[d] = local_registered[d]
    <2>1. local_registered \in Seq(LocalDestructor) /\ local_registered[n] \in LocalDestructor
      BY <1>1, <1>9 DEF LocalTypes
    <2>2. PICK entry : entry = [local_registered[n] EXCEPT !.fate = "running"]
      OBVIOUS
    <2>3. entry \in LocalDestructor /\ entry.fate = "running" /\ entry.object = local_registered[n].object
      BY <2>1, <2>2 DEF LocalDestructor
    <2>4. local_registered' = [local_registered EXCEPT ![n] = entry]
      BY <1>4, <2>2
    <2> QED BY <1>9, <2>1, <2>3, <2>4
  <1>11. LocalTypes' /\ LocalOffsets' /\ LocalUsed'
    <2>1. LocalTypes'
      BY <1>1, <1>4, <1>7, <1>10 DEF LocalTypes
    <2>2. LocalOffsets'
      BY <1>1, <1>4 DEF LocalOffsets
    <2>3. LocalUsed'
      BY <1>1, <1>4 DEF LocalUsed
    <2> QED BY <2>1, <2>2, <2>3
  <1>12. LocalSorted'
    <2>1. LocalSorted' <=> \A e \in LocalContexts : LocalOrdered(local_destructors'[e])
      BY DEF LocalSorted, LocalOrdered
    <2> QED BY <1>1, <1>6, <1>7, <2>1, LocalView
  <1>13. ASSUME NEW e \in LocalContexts, NEW d, LocalHas(e, d) PROVE LocalHas(e, d)'
    <2>1. d \in 1 .. Len(local_registered') /\ local_registered'[d].object = local_registered[d].object
      BY <1>10, <1>13 DEF LocalHas
    <2> QED BY <1>4, <1>13, <2>1 DEF LocalHas
  <1>14. LocalLists'
    <2>1. ASSUME NEW e \in LocalContexts, NEW d \in Locals!Listed(e)'
          PROVE  LocalHas(e, d)' /\ local_registered'[d].fate = "listed"
      <3>1. d \in Locals!Listed(e) /\ d # n
        <4>1. CASE e = t
          BY <1>6, <1>8, <2>1, <4>1
        <4>2. CASE e # t
          BY <1>1, <1>2, <1>6, <1>8, <2>1, <4>2 DEF LocalLists
        <4> QED BY <4>1, <4>2
      <3>2. LocalHas(e, d) /\ local_registered[d].fate = "listed"
        BY <1>1, <3>1 DEF LocalLists
      <3>3. d \in 1 .. Len(local_registered)
        BY <3>2 DEF LocalHas
      <3> QED BY <1>10, <1>13, <3>1, <3>2, <3>3
    <2>2. ASSUME NEW e \in LocalContexts, local_running'[e] # 0
          PROVE  LocalHas(e, local_running[e])' /\ local_registered'[local_running'[e]].fate = "running"
      <3>1. CASE e = t
        <4>1. local_running'[e] = n /\ LocalHas(t, n)'
          BY <1>2, <1>7, <1>9, <1>13, <3>1
        <4> QED BY <1>10, <3>1, <4>1 DEF LocalHas
      <3>2. CASE e # t
        <4>1. PICK d : d = local_running[e]
          OBVIOUS
        <4>2. local_running'[e] = d /\ d # 0
          BY <1>7, <2>2, <3>2, <4>1
        <4>3. LocalHas(e, d) /\ local_registered[d].fate = "running" /\ d # n
          BY <1>1, <1>9, <4>1, <4>2 DEF LocalLists
        <4>4. LocalHas(e, d)' /\ local_registered'[d] = local_registered[d]
          BY <1>10, <1>13, <4>3 DEF LocalHas
        <4> QED BY <4>2, <4>3, <4>4 DEF LocalHas
      <3> QED BY <3>1, <3>2
    <2>3. ASSUME NEW e \in LocalContexts, NEW f \in LocalContexts, e # f
          PROVE  /\ Locals!Listed(e)' \cap Locals!Listed(f)' = {}
                 /\ local_running'[e] # 0 => local_running'[e] # local_running'[f]
      <3>1. Locals!Listed(e)' \subseteq Locals!Listed(e) /\ Locals!Listed(f)' \subseteq Locals!Listed(f)
        BY <1>6, <1>8
      <3>2. \A g \in LocalContexts \ {t} : local_running[g] # 0 => local_running[g] # n
        BY <1>1, <1>9 DEF LocalLists
      <3>3. local_running'[e] # 0 => local_running'[e] # local_running'[f]
        <4>1. CASE e = t
          BY <1>7, <1>9, <2>3, <3>2, <4>1
        <4>2. CASE f = t
          BY <1>7, <1>9, <2>3, <3>2, <4>2
        <4>3. CASE e # t /\ f # t
          <5>1. local_running[e] # 0 => local_running[e] # local_running[f]
            BY <1>1, <2>3 DEF LocalLists
          <5> QED BY <1>7, <4>3, <5>1
        <4> QED BY <4>1, <4>2, <4>3
      <3> QED BY <1>1, <2>3, <3>1, <3>3 DEF LocalLists
    <2>4. ASSUME NEW d \in 1 .. Len(local_registered'), local_registered'[d].fate = "listed"
          PROVE  \E e \in LocalContexts : d \in Locals!Listed(e)'
      <3>1. d # n /\ d \in 1 .. Len(local_registered) /\ local_registered[d].fate = "listed"
        BY <1>10, <2>4
      <3>2. PICK e \in LocalContexts : d \in Locals!Listed(e)
        BY <1>1, <3>1 DEF LocalLists
      <3> QED BY <1>6, <1>8, <3>1, <3>2
    <2> QED BY <2>1, <2>2, <2>3, <2>4 DEF LocalLists
  <1>15. LocalPhases'
    <2>1. ASSUME NEW p \in Threads, local_phase = "startup" \/ local_state[p] = "none" PROVE p # t
      BY <1>1, <1>4, <2>1 DEF LocalPhases
    <2> QED BY <1>1, <1>2, <1>4, <1>7, <2>1 DEF LocalPhases, LocalContexts
  <1> QED BY <1>11, <1>12, <1>14, <1>15 DEF LocalInv

LEMMA LocalReturnStep ==
    ASSUME LocalInv, NEW t \in Threads, Locals!DestructorReturns(t)
    PROVE  LocalInv'
  <1>1. LocalTypes /\ LocalOffsets /\ LocalUsed /\ LocalSorted /\ LocalLists /\ LocalPhases
    BY DEF LocalInv
  <1>2. t \in LocalContexts /\ t # "startup"
    BY LocalConstants DEF LocalContexts
  <1>3. PICK n : n = local_running[t]
    OBVIOUS
  <1>4. /\ UNCHANGED <<local_phase, local_state, local_block, local_destructors, local_emutls, local_location,
                       local_emutls_object_count, local_pending, local_used>>
        /\ n # 0
        /\ local_running' = [local_running EXCEPT ![t] = 0]
        /\ local_registered' = [local_registered EXCEPT ![n] = [object |-> <<>>, fate |-> "gone"]]
    BY <1>3 DEF Locals!DestructorReturns, Locals!Gone, Locals!Null
  <1>5. n \in 1 .. Len(local_registered) /\ local_registered[n].fate = "running"
    BY <1>1, <1>2, <1>3, <1>4 DEF LocalLists, LocalHas
  <1>6. /\ local_registered' \in Seq(LocalDestructor) /\ Len(local_registered') = Len(local_registered)
        /\ local_registered'[n].fate = "gone"
        /\ \A d \in (1 .. Len(local_registered)) \ {n} : local_registered'[d] = local_registered[d]
    <2>1. PICK entry : entry = [object |-> <<>>, fate |-> "gone"]
      OBVIOUS
    <2>2. entry \in LocalDestructor /\ entry.fate = "gone"
      BY <2>1, LocalAddress DEF LocalDestructor
    <2>3. local_registered \in Seq(LocalDestructor)
      BY <1>1 DEF LocalTypes
    <2> QED BY <1>4, <1>5, <2>1, <2>2, <2>3
  <1>7. /\ local_running' \in [LocalContexts -> Nat] /\ local_running'[t] = 0
        /\ \A e \in LocalContexts \ {t} : local_running'[e] = local_running[e]
    BY <1>1, <1>2, <1>4 DEF LocalTypes
  <1>8. LocalTypes' /\ LocalOffsets' /\ LocalUsed' /\ LocalSorted'
    <2>1. LocalTypes'
      BY <1>1, <1>4, <1>6, <1>7 DEF LocalTypes
    <2> QED BY <1>1, <1>4, <2>1 DEF LocalOffsets, LocalUsed, LocalSorted
  <1>9. \A e \in LocalContexts : Locals!Listed(e)' = Locals!Listed(e)
    BY <1>4 DEF Locals!Listed
  <1>10. ASSUME NEW e \in LocalContexts, NEW d, LocalHas(e, d), d # n
         PROVE  LocalHas(e, d)' /\ local_registered'[d] = local_registered[d]
    BY <1>4, <1>6, <1>10 DEF LocalHas
  <1>11. LocalLists'
    <2>1. ASSUME NEW e \in LocalContexts, NEW d \in Locals!Listed(e)'
          PROVE  LocalHas(e, d)' /\ local_registered'[d].fate = "listed"
      <3>1. LocalHas(e, d) /\ local_registered[d].fate = "listed"
        BY <1>1, <1>9, <2>1 DEF LocalLists
      <3> QED BY <1>5, <1>10, <3>1
    <2>2. ASSUME NEW e \in LocalContexts, local_running'[e] # 0
          PROVE  LocalHas(e, local_running[e])' /\ local_registered'[local_running'[e]].fate = "running"
      <3>1. PICK d : d = local_running[e]
        OBVIOUS
      <3>2. e # t /\ local_running'[e] = d /\ d # 0
        BY <1>7, <2>2, <3>1
      <3>3. LocalHas(e, d) /\ local_registered[d].fate = "running" /\ d # n
        BY <1>1, <1>2, <1>3, <3>1, <3>2 DEF LocalLists
      <3>4. LocalHas(e, d)' /\ local_registered'[d] = local_registered[d]
        BY <1>10, <3>3
      <3> QED BY <3>2, <3>3, <3>4 DEF LocalHas
    <2>3. \A e, f \in LocalContexts : e # f =>
              /\ Locals!Listed(e)' \cap Locals!Listed(f)' = {}
              /\ local_running'[e] # 0 => local_running'[e] # local_running'[f]
      BY <1>1, <1>7, <1>9 DEF LocalLists
    <2>4. ASSUME NEW d \in 1 .. Len(local_registered'), local_registered'[d].fate = "listed"
          PROVE  \E e \in LocalContexts : d \in Locals!Listed(e)'
      BY <1>1, <1>6, <1>9, <2>4 DEF LocalLists
    <2> QED BY <2>1, <2>2, <2>3, <2>4 DEF LocalLists
  <1>12. LocalPhases'
    BY <1>1, <1>2, <1>4, <1>7 DEF LocalPhases, LocalContexts
  <1> QED BY <1>8, <1>11, <1>12 DEF LocalInv

\* The application's thread continues with what the start-up code has.
LEMMA LocalAdoptStep ==
    ASSUME LocalInv, Locals!runtime_tls_adopt_startup
    PROVE  LocalInv'
  <1>1. LocalTypes /\ LocalOffsets /\ LocalUsed /\ LocalSorted /\ LocalLists /\ LocalPhases
    BY DEF LocalInv
  <1>2. PICK a, b : a = Application /\ b = "startup"
    OBVIOUS
  <1>3. a \in Threads /\ a \in LocalContexts /\ b \in LocalContexts /\ a # b /\ b \notin Threads
    BY <1>2, LocalConstants DEF LocalContexts
  <1>4. /\ UNCHANGED <<local_state, local_location, local_emutls_object_count, local_pending,
                       local_running, local_registered>>
        /\ local_phase = "startup" /\ local_phase' = "kernel" /\ local_state[a] # "none"
        /\ local_block' = [local_block EXCEPT ![a] = <<"image">>]
        /\ local_destructors' = [local_destructors EXCEPT ![a] = local_destructors[b], ![b] = <<>>]
        /\ local_emutls' = [local_emutls EXCEPT ![a] = local_emutls[b], ![b] = <<>>]
        /\ local_used' = [local_used EXCEPT ![a] = local_used[b], ![b] = Locals!Unknown]
    BY <1>2 DEF Locals!runtime_tls_adopt_startup, Locals!StartUp
  <1>5. /\ local_block' \in [LocalContexts -> LocalBlocks] /\ local_block'[a] = <<"image">>
        /\ \A e \in LocalContexts \ {a} : local_block'[e] = local_block[e]
    <2>1. <<"image">> \in LocalBlocks
      BY DEF LocalBlocks
    <2> QED BY <1>1, <1>3, <1>4, <2>1 DEF LocalTypes
  <1>6. /\ local_destructors' \in [LocalContexts -> Seq(Nat)]
        /\ local_destructors'[a] = local_destructors[b] /\ local_destructors'[b] = <<>>
        /\ \A e \in LocalContexts \ {a, b} : local_destructors'[e] = local_destructors[e]
    <2>1. <<>> \in Seq(Nat)
      OBVIOUS
    <2> QED BY <1>1, <1>3, <1>4, <2>1 DEF LocalTypes
  <1>7. /\ local_emutls' \in [LocalContexts -> Seq(LocalAddresses)]
        /\ local_emutls'[a] = local_emutls[b]
        /\ \A e \in LocalContexts \ {a, b} : local_emutls'[e] = local_emutls[e]
    <2>1. <<>> \in Seq(LocalAddresses)
      OBVIOUS
    <2> QED BY <1>1, <1>3, <1>4, <2>1 DEF LocalTypes
  <1>8. /\ local_used' \in [LocalContexts -> [LocalObjects \cup {"static"} -> LocalAddresses \cup LocalBlocks]]
        /\ local_used'[a] = local_used[b] /\ local_used'[b] = Locals!Unknown
        /\ \A e \in LocalContexts \ {a, b} : local_used'[e] = local_used[e]
    <2>1. Locals!Unknown \in [LocalObjects \cup {"static"} -> LocalAddresses \cup LocalBlocks]
      BY LocalAddress DEF Locals!Unknown, Locals!Null
    <2> QED BY <1>1, <1>3, <1>4, <2>1 DEF LocalTypes
  <1>9. local_destructors[a] = <<>> /\ local_running[a] = 0 /\ local_running[b] = 0
    BY <1>1, <1>2, <1>3, <1>4 DEF LocalPhases
  <1>10. /\ Locals!Listed(a)' = Locals!Listed(b) /\ Locals!Listed(b)' = {} /\ Locals!Listed(a) = {}
         /\ \A e \in LocalContexts \ {a, b} : Locals!Listed(e)' = Locals!Listed(e)
    BY <1>6, <1>9 DEF Locals!Listed
  <1>11. LocalTypes' /\ LocalOffsets'
    BY <1>1, <1>4, <1>5, <1>6, <1>7, <1>8 DEF LocalTypes, LocalOffsets
  <1>12. LocalUsed'
    <2>1. local_used[b]["static"] \in {<<>>, <<"image">>}
      BY <1>1, <1>2, <1>3 DEF LocalUsed, LocalPhases
    <2>2. \A p \in LocalObjects \cup {"static"} : local_used'[b][p] = <<>>
      BY <1>8 DEF Locals!Unknown, Locals!Null
    <2> SUFFICES ASSUME NEW e \in LocalContexts
                 PROVE  (/\ local_used[e]["static"] \in {<<>>, local_block[e]}
                         /\ \A p \in LocalObjects : local_used[e][p] # <<>> =>
                               /\ local_location[p] \in 1 .. Len(local_emutls[e])
                               /\ local_emutls[e][local_location[p]] = local_used[e][p]
                               /\ local_used[e][p] \in LocalAddresses)'
      BY DEF LocalUsed
    <2>3. CASE e = a
      BY <1>1, <1>3, <1>4, <1>5, <1>7, <1>8, <2>1, <2>3 DEF LocalUsed
    <2>4. CASE e = b
      BY <2>2, <2>4
    <2>5. CASE e \notin {a, b}
      BY <1>1, <1>4, <1>5, <1>7, <1>8, <2>5 DEF LocalUsed
    <2> QED BY <2>3, <2>4, <2>5
  <1>13. LocalSorted'
    <2>1. \A e \in LocalContexts \ {b} :
              \E f \in LocalContexts : local_destructors'[e] = local_destructors[f]
      BY <1>3, <1>6
    <2>2. \A e \in LocalContexts \ {b} : LocalOrdered(local_destructors'[e])
      BY <1>1, <2>1, LocalView
    <2>3. LocalOrdered(local_destructors'[b])
      BY <1>6 DEF LocalOrdered
    <2> QED BY <2>2, <2>3 DEF LocalSorted, LocalOrdered
  <1>14. \A d : LocalHas(b, d) => LocalHas(a, d)'
    BY <1>4, <1>7 DEF LocalHas
  <1>15. \A e \in LocalContexts \ {a, b} : \A d : LocalHas(e, d) => LocalHas(e, d)'
    BY <1>4, <1>7 DEF LocalHas
  <1>16. LocalLists'
    <2>1. ASSUME NEW e \in LocalContexts, NEW d \in Locals!Listed(e)'
          PROVE  LocalHas(e, d)' /\ local_registered'[d].fate = "listed"
      <3>1. CASE e = a
        BY <1>1, <1>3, <1>4, <1>10, <1>14, <2>1, <3>1 DEF LocalLists
      <3>2. CASE e = b
        BY <1>10, <2>1, <3>2
      <3>3. CASE e \notin {a, b}
        BY <1>1, <1>4, <1>10, <1>15, <2>1, <3>3 DEF LocalLists
      <3> QED BY <3>1, <3>2, <3>3
    <2>2. ASSUME NEW e \in LocalContexts, local_running'[e] # 0
          PROVE  LocalHas(e, local_running[e])' /\ local_registered'[local_running'[e]].fate = "running"
      <3>1. PICK d : d = local_running[e]
        OBVIOUS
      <3>2. e \notin {a, b} /\ local_running'[e] = d /\ d # 0
        BY <1>4, <1>9, <2>2, <3>1
      <3>3. LocalHas(e, d) /\ local_registered[d].fate = "running"
        BY <1>1, <3>1, <3>2 DEF LocalLists
      <3>4. LocalHas(e, d)'
        BY <1>15, <3>2, <3>3
      <3> QED BY <1>4, <3>2, <3>3, <3>4 DEF LocalHas
    <2>3. ASSUME NEW e \in LocalContexts, NEW f \in LocalContexts, e # f
          PROVE  /\ Locals!Listed(e)' \cap Locals!Listed(f)' = {}
                 /\ local_running'[e] # 0 => local_running'[e] # local_running'[f]
      <3>1. local_running'[e] # 0 => local_running'[e] # local_running'[f]
        BY <1>1, <1>4, <2>3 DEF LocalLists
      <3>2. \A g, h \in LocalContexts : g # h => Locals!Listed(g) \cap Locals!Listed(h) = {}
        BY <1>1 DEF LocalLists
      <3>3. Locals!Listed(e)' \cap Locals!Listed(f)' = {}
        BY <1>3, <1>10, <2>3, <3>2
      <3> QED BY <3>1, <3>3
    <2>4. ASSUME NEW d \in 1 .. Len(local_registered'), local_registered'[d].fate = "listed"
          PROVE  \E e \in LocalContexts : d \in Locals!Listed(e)'
      <3>1. PICK e \in LocalContexts : d \in Locals!Listed(e)
        BY <1>1, <1>4, <2>4 DEF LocalLists
      <3> QED BY <1>3, <1>10, <3>1
    <2> QED BY <2>1, <2>2, <2>3, <2>4 DEF LocalLists
  <1>17. LocalPhases'
    <2>1. local_block'["startup"] = <<"image">> /\ local_running'["startup"] = 0
      BY <1>1, <1>2, <1>3, <1>4, <1>5 DEF LocalPhases
    <2>2. ASSUME NEW t \in Threads, local_state[t] = "none"
          PROVE  local_destructors'[t] = <<>> /\ local_running'[t] = 0
      <3>1. t \in LocalContexts \ {a, b}
        BY <1>3, <1>4, <2>2 DEF LocalContexts
      <3> QED BY <1>1, <1>4, <1>6, <2>2, <3>1 DEF LocalPhases
    <2> QED BY <1>4, <2>1, <2>2 DEF LocalPhases
  <1> QED BY <1>11, <1>12, <1>13, <1>16, <1>17 DEF LocalInv

LEMMA LocalStep == LocalInv /\ [Locals!Next]_(Locals!vars) => LocalInv'
  <1> SUFFICES ASSUME LocalInv, [Locals!Next]_(Locals!vars) PROVE LocalInv'
    OBVIOUS
  <1>1. CASE UNCHANGED Locals!vars
    <2>1. UNCHANGED <<local_phase, local_state, local_block, local_destructors, local_emutls, local_location,
                      local_emutls_object_count, local_pending, local_running, local_used, local_registered>>
      BY <1>1 DEF Locals!vars
    <2>2. LocalTypes /\ LocalOffsets /\ LocalUsed /\ LocalSorted /\ LocalLists /\ LocalPhases
      BY DEF LocalInv
    <2>3. \A c \in LocalContexts : Locals!Listed(c)' = Locals!Listed(c)
      BY <2>1 DEF Locals!Listed
    <2>4. \A c \in LocalContexts : \A d : LocalHas(c, d)' <=> LocalHas(c, d)
      BY <2>1 DEF LocalHas
    <2>5. LocalLists'
      BY <2>1, <2>2, <2>3, <2>4 DEF LocalLists
    <2>6. LocalTypes' /\ LocalOffsets' /\ LocalUsed' /\ LocalSorted' /\ LocalPhases'
      BY <2>1, <2>2 DEF LocalTypes, LocalOffsets, LocalUsed, LocalSorted, LocalPhases
    <2> QED BY <2>5, <2>6 DEF LocalInv
  <1>2. CASE \E c \in Locals!Contexts :
                 \/ \E o \in LocalObjects : Locals!__emutls_get_address(c, o) \/ Locals!__cxa_thread_atexit(c, o)
                 \/ Locals!emutls_offset(c)
                 \/ Locals!runtime_tls_read_thread_pointer(c)
    BY <1>2, LocalConstants, LocalAddressStep, LocalRegisterStep, LocalPointerStep
  <1>3. CASE \E t \in Threads :
                 \/ Locals!runtime_tls_thread_create(t)
                 \/ Locals!Leave(t)
                 \/ Locals!RunDestructor(t)
                 \/ Locals!DestructorReturns(t)
                 \/ Locals!End(t)
                 \/ Locals!Terminate(t)
                 \/ Locals!runtime_tls_thread_delete(t)
                 \/ Locals!Reset(t)
    BY <1>3, LocalThreadStep, LocalStateStep, LocalRunStep, LocalReturnStep
  <1>4. CASE Locals!runtime_tls_adopt_startup
    BY <1>4, LocalAdoptStep
  <1> QED BY <1>1, <1>2, <1>3, <1>4 DEF Locals!Next

LEMMA LocalSafe == LocalInv => Locals!LocalsKeepTheirIdentity
  <1> SUFFICES ASSUME LocalInv PROVE Locals!LocalsKeepTheirIdentity
    OBVIOUS
  <1>1. LocalTypes /\ LocalUsed /\ LocalSorted /\ LocalLists
    BY DEF LocalInv
  <1>2. \A c \in LocalContexts :
            /\ DOMAIN local_emutls[c] = 1 .. Len(local_emutls[c])
            /\ DOMAIN local_destructors[c] = 1 .. Len(local_destructors[c])
    BY <1>1 DEF LocalTypes
  <1>3. DOMAIN local_registered = 1 .. Len(local_registered)
    BY <1>1 DEF LocalTypes
  <1>4. \A c \in LocalContexts : \A d : LocalHas(c, d) =>
            d \in DOMAIN local_registered /\ Locals!Has(c, local_registered[d].object)
    BY <1>2, <1>3 DEF LocalHas, Locals!Has
  <1>5. ASSUME NEW c \in LocalContexts
        PROVE  /\ local_used[c]["static"] \in {<<>>, local_block[c]}
               /\ \A o \in LocalObjects : local_used[c][o] # <<>> =>
                     /\ local_location[o] \in DOMAIN local_emutls[c]
                     /\ local_emutls[c][local_location[o]] = local_used[c][o]
    BY <1>1, <1>2 DEF LocalUsed
  <1>6. ASSUME NEW c \in LocalContexts
        PROVE  \A i, j \in DOMAIN local_destructors[c] : i < j => local_destructors[c][i] > local_destructors[c][j]
    BY <1>1, <1>2 DEF LocalSorted
  <1>7. ASSUME NEW c \in LocalContexts
        PROVE  /\ \A d \in Locals!Listed(c) : Locals!Has(c, local_registered[d].object)
               /\ local_running[c] # 0 => Locals!Has(c, local_registered[local_running[c]].object)
    BY <1>1, <1>4 DEF LocalLists
  <1>8. ASSUME NEW d \in DOMAIN local_registered
        PROVE  (local_registered[d].fate = "listed") <=> (\E c \in LocalContexts : d \in Locals!Listed(c))
    BY <1>1, <1>3 DEF LocalLists
  <1> QED BY <1>5, <1>6, <1>7, <1>8, LocalConstants DEF Locals!LocalsKeepTheirIdentity, Locals!Null

LEMMA AttrSafe == AttrInv => Attributes!AttributesReachTheirThread
  BY DEF AttrInv, AttrTypes, AttrPlaces, AttrCreated, Attributes!AttributesReachTheirThread,
         Attributes!Pending, Attributes!Own

\* An address that a thread has got of a thread_local object stays the object's, its
\* destructors are in one list each and find their objects, and a thread gets the
\* attributes that were published for it: for every set of threads, objects and
\* attributes, and however often the threads and the arrays come and go.
THEOREM ThreadsKeepTheirOwnHolds == Spec => []ThreadsKeepTheirOwn
  <1>1. Init => LocalInv /\ AttrInv
    BY LocalInitial, AttrInitial DEF Init
  <1>2. LocalInv /\ AttrInv /\ [Next]_vars => (LocalInv /\ AttrInv)'
    <2> SUFFICES ASSUME LocalInv, AttrInv, [Next]_vars PROVE (LocalInv /\ AttrInv)'
      OBVIOUS
    <2>1. [Locals!Next]_local_vars /\ [Attributes!Next]_attr_vars
      BY DEF Next, vars
    <2>2. UNCHANGED local_vars => UNCHANGED Locals!vars
      BY DEF local_vars, Locals!vars
    <2> QED BY <2>1, <2>2, LocalStep, AttrStep
  <1>3. LocalInv /\ AttrInv => ThreadsKeepTheirOwn
    BY LocalSafe, AttrSafe DEF ThreadsKeepTheirOwn
  <1> QED BY <1>1, <1>2, <1>3, PTL DEF Spec, vars

-----------------------------------------------------------------------------
(* storage_media.cpp: initialize.                                           *)

MountLater == {"sd 4 bit", "sd 1 bit", "open sd", "return", "done"}
MountInv ==
    /\ mount_at \in {"start", "qspi", "levelx", "probe", "format", "formats", "open flash"} \cup MountLater
    /\ mount_flash \in {"blank", "unfinished", "filex", "other"}
    /\ mount_card \in {"none", "filex", "other"}
    /\ mount_width \in {0, 1, 4}
    /\ mount_initialization_attempted <=> mount_at = "done"
    \* the flash is formatted when it is blank, and mounted once it has been opened
    /\ mount_at = "format" => mount_flash = "blank"
    /\ mount_at = "open flash" => mount_flash # "blank"
    /\ mount_flash_mounted => mount_flash = "filex" /\ mount_nor_open /\ mount_at \in MountLater
    /\ mount_at \in MountLater /\ mount_flash \in {"blank", "filex"} /\ "flash" \notin mount_faults =>
          mount_flash_mounted
    \* the card is given up only after one bit has failed, too
    /\ mount_at = "open sd" => mount_width # 0
    /\ mount_sd_mounted => mount_card = "filex" /\ mount_width # 0 /\ mount_at \in {"return", "done"}
    /\ mount_at \in {"return", "done"} /\ mount_card = "filex" /\ "card" \notin mount_faults =>
          mount_sd_mounted

LEMMA MountInitial == Mounts!Init => MountInv
  BY DEF Mounts!Init, MountInv, MountLater

LEMMA MountStep == MountInv /\ [Mounts!Next]_mount_vars => MountInv'
  <1> SUFFICES ASSUME MountInv, [Mounts!Next]_mount_vars PROVE MountInv'
    OBVIOUS
  <1>0. 1 # 0 /\ 4 # 0 /\ 1 # 4
    OBVIOUS
  <1> USE DEF Mounts!Goes, Mounts!Fault, Mounts!media, Mounts!mounts, Mounts!counts
  <1>1. CASE UNCHANGED mount_vars
    <2>1. /\ mount_at' = mount_at /\ mount_flash' = mount_flash /\ mount_card' = mount_card
          /\ mount_width' = mount_width /\ mount_faults' = mount_faults
          /\ mount_nor_open' = mount_nor_open
          /\ mount_initialization_attempted' = mount_initialization_attempted
          /\ mount_flash_mounted' = mount_flash_mounted /\ mount_sd_mounted' = mount_sd_mounted
      BY <1>1 DEF mount_vars
    <2> QED BY <2>1, ZenonT(30) DEF MountInv
  <1>2. CASE Mounts!Boot
    BY <1>2 DEF MountInv, Mounts!Boot, MountLater
  <1>3. CASE Mounts!initialize
    BY <1>3 DEF MountInv, Mounts!initialize, MountLater
  <1>4. CASE Mounts!initialize_qspi
    BY <1>4 DEF MountInv, Mounts!initialize_qspi, MountLater
  <1>12. CASE Mounts!open_levelx
    BY <1>12 DEF MountInv, Mounts!open_levelx, MountLater
  <1>5. CASE Mounts!Probe
    BY <1>5 DEF MountInv, Mounts!Probe, Mounts!Empty, MountLater
  <1>6. CASE Mounts!FormatBegins
    BY <1>6 DEF MountInv, Mounts!FormatBegins, MountLater
  <1>7. CASE Mounts!FormatEnds
    BY <1>7 DEF MountInv, Mounts!FormatEnds, MountLater
  <1>8. CASE Mounts!OpenFlash
    BY <1>8 DEF MountInv, Mounts!OpenFlash, MountLater
  <1>9. CASE Mounts!InitCard(4, "sd 1 bit")
    <2>1. mount_at = "sd 4 bit" /\ UNCHANGED <<Mounts!media, mount_nor_open, Mounts!mounts>>
      BY <1>9 DEF Mounts!InitCard
    <2>2. CASE mount_card # "none" /\ mount_width' = 4 /\ mount_at' = "open sd" /\ mount_faults' = mount_faults
      BY <1>0, <2>1, <2>2 DEF MountInv, MountLater
    <2>3. CASE mount_card = "none" /\ mount_width' = 0 /\ mount_at' = "sd 1 bit" /\ mount_faults' = mount_faults
      BY <2>1, <2>3 DEF MountInv, MountLater
    <2>4. CASE mount_width' = 0 /\ mount_at' = "sd 1 bit" /\ mount_faults' = mount_faults \cup {"4 bit"}
      BY <2>1, <2>4 DEF MountInv, MountLater
    <2> QED BY <1>9, <2>2, <2>3, <2>4 DEF Mounts!InitCard
  <1>13. CASE Mounts!InitCard(1, "return")
    <2>1. mount_at = "sd 1 bit" /\ UNCHANGED <<Mounts!media, mount_nor_open, Mounts!mounts>>
      BY <1>0, <1>13 DEF Mounts!InitCard
    <2>2. CASE mount_card # "none" /\ mount_width' = 1 /\ mount_at' = "open sd" /\ mount_faults' = mount_faults
      BY <1>0, <2>1, <2>2 DEF MountInv, MountLater
    <2>3. CASE mount_card = "none" /\ mount_width' = 0 /\ mount_at' = "return" /\ mount_faults' = mount_faults
      BY <2>1, <2>3 DEF MountInv, MountLater
    <2>4. CASE mount_width' = 0 /\ mount_at' = "return" /\ mount_faults' = mount_faults \cup {"card"}
      BY <2>1, <2>4 DEF MountInv, MountLater
    <2> QED BY <1>0, <1>13, <2>2, <2>3, <2>4 DEF Mounts!InitCard
  <1>10. CASE Mounts!OpenSd
    BY <1>10 DEF MountInv, Mounts!OpenSd, Mounts!Retried, MountLater
  <1>11. CASE Mounts!Return
    BY <1>11 DEF MountInv, Mounts!Return, MountLater
  <1> QED
    BY <1>1, <1>2, <1>3, <1>4, <1>5, <1>6, <1>7, <1>8, <1>9, <1>10, <1>11, <1>12, <1>13
       DEF Mounts!Next

\* Only a blank flash is formatted.
LEMMA MountFlash ==
    ASSUME MountInv, [Mounts!Next]_mount_vars
    PROVE  mount_flash' # mount_flash => mount_flash = "blank" \/ mount_at = "formats"
  BY DEF MountInv, mount_vars, Mounts!Next, Mounts!Boot, Mounts!initialize,
         Mounts!initialize_qspi, Mounts!open_levelx, Mounts!Probe, Mounts!FormatBegins,
         Mounts!FormatEnds, Mounts!OpenFlash, Mounts!InitCard, Mounts!OpenSd, Mounts!Return,
         Mounts!media

\* A mounted volume is one, open and initialised; a flash that is not blank is never
\* formatted; a volume or a card that can be read is mounted, whatever fails beside
\* it: for any number of faults and boots.
THEOREM VolumesAreKeptHolds == Spec => VolumesAreKept
  <1> DEFINE Mounted ==
        /\ mount_flash_mounted => mount_flash = "filex" /\ mount_nor_open
        /\ mount_sd_mounted => mount_card = "filex" /\ mount_width # 0
        /\ mount_at = "done" /\ mount_card = "filex" /\ "card" \notin mount_faults =>
              mount_sd_mounted
        /\ mount_at = "done" /\ mount_flash \in {"blank", "filex"} /\ "flash" \notin mount_faults =>
              mount_flash_mounted
      Kept == mount_flash' # mount_flash => mount_flash = "blank" \/ mount_at = "formats"
  <1>1. Init => MountInv
    BY MountInitial DEF Init
  <1>2. [Next]_vars => [Mounts!Next]_mount_vars
    BY DEF Next, vars
  <1>3. MountInv /\ [Next]_vars => MountInv'
    BY <1>2, MountStep
  <1>4. MountInv => Mounted
    BY DEF MountInv, MountLater
  <1>5. MountInv /\ [Next]_vars => [Kept]_(Mounts!vars)
    BY <1>2, MountFlash
  <1>6. Spec => [][Kept]_(Mounts!vars) /\ []Mounted
    <2> HIDE DEF Kept, Mounted
    <2> QED BY <1>1, <1>3, <1>4, <1>5, PTL DEF Spec
  <1> QED
    BY <1>6 DEF VolumesAreKept, Mounts!VolumesAreKept

-----------------------------------------------------------------------------
(* libc.c: the locks of Newlib.                                             *)

LockEntry == [created : BOOLEAN, allocated : BOOLEAN, owner : Threads \cup {"nobody"}]
LockContexts == Threads \cup {"startup"}
LockPlaces == {"idle", "opens", "closes", "searches", "frees", "links", "unlocks", "allocates"}
LockTypes ==
    /\ lock_phase \in {"startup", "initialized", "kernel"}
    /\ lock_libc_locks_ready \in BOOLEAN
    /\ lock_dynamic_locks \in Seq(LockEntry)
    /\ lock_calls \in [LockContexts -> [at : LockPlaces, file : Files \cup {"nobody"}]]
    /\ lock_lock \in [Files -> 0 .. Len(lock_dynamic_locks)]
    /\ lock_inside \in [Files -> SUBSET LockContexts]
\* A file is opened once and closed by one context, when nobody is inside.
LockCalls == \A c \in LockContexts :
    LET call == lock_calls[c] IN
    /\ call.at \in {"idle", "allocates"} <=> call.file = "nobody"
    /\ call.at \in {"opens", "searches", "links"} => lock_lock[call.file] = 0
    /\ call.at \in {"closes", "frees"} => lock_lock[call.file] # 0
    /\ call.file # "nobody" => /\ lock_inside[call.file] = {}
                               /\ \A d \in LockContexts \ {c} : lock_calls[d].file # call.file
LockReady ==
    lock_phase # "startup" =>
        /\ lock_libc_locks_ready /\ lock_malloc_created
        /\ \A i \in 1 .. Len(lock_dynamic_locks) : lock_dynamic_locks[i].created
LockEntries == \A f \in Files :
    /\ lock_lock[f] # 0 => /\ lock_dynamic_locks[lock_lock[f]].allocated
                           /\ \A g \in Files \ {f} : lock_lock[g] # lock_lock[f]
    /\ \A c \in lock_inside[f] :
          /\ lock_lock[f] # 0 /\ (c = "startup" <=> lock_phase # "kernel")
          /\ c # "startup" => lock_inside[f] = {c} /\ lock_dynamic_locks[lock_lock[f]].owner = c
LockInv == LockTypes /\ LockCalls /\ LockReady /\ LockEntries /\ lock_halted \in {"no", "resources"}

LEMMA LockConstants == {"nobody", "startup"} \cap Threads = {} /\ "nobody" \notin Files
  BY ConstantsAssumption DEF ConstantsAssumption

LEMMA LockInitial == Locks!Init => LockInv
  <1> SUFFICES ASSUME Locks!Init PROVE LockInv
    OBVIOUS
  <1>0. <<>> \in Seq(LockEntry) /\ Len(<<>>) = 0
    OBVIOUS
  <1>a. lock_calls \in [LockContexts -> [at : LockPlaces, file : Files \cup {"nobody"}]]
    BY DEF Locks!Init, LockPlaces, LockContexts, Locks!Contexts, Locks!StartUp, Locks!Idle, Locks!Nobody
  <1>b. lock_lock \in [Files -> 0 .. Len(lock_dynamic_locks)] /\ lock_inside \in [Files -> SUBSET LockContexts]
    BY <1>0 DEF Locks!Init
  <1>1. LockTypes
    BY <1>0, <1>a, <1>b DEF Locks!Init, LockTypes
  <1>2. LockCalls
    BY DEF Locks!Init, LockCalls, LockContexts, Locks!Contexts, Locks!StartUp, Locks!Idle, Locks!Nobody
  <1>3. LockReady /\ LockEntries /\ lock_halted \in {"no", "resources"}
    BY DEF Locks!Init, LockReady, LockEntries
  <1> QED BY <1>1, <1>2, <1>3 DEF LockInv

LEMMA LockSafe == LockInv => Locks!LocksAreThere
  BY LockConstants DEF LockInv, LockEntries, Locks!LocksAreThere

\* One entry of the pool changes.
LEMMA EntryChanged ==
    ASSUME NEW s \in Seq(LockEntry), NEW i \in 1 .. Len(s), NEW e \in LockEntry
    PROVE  /\ [s EXCEPT ![i] = e] \in Seq(LockEntry)
           /\ Len([s EXCEPT ![i] = e]) = Len(s)
           /\ \A j \in 1 .. Len(s) : [s EXCEPT ![i] = e][j] = IF j = i THEN e ELSE s[j]
  OBVIOUS

LEMMA OwnerChanged ==
    ASSUME NEW s \in Seq(LockEntry), NEW i \in 1 .. Len(s), NEW owner \in Threads \cup {"nobody"},
           NEW changed, changed = [s EXCEPT ![i].owner = owner]
    PROVE  /\ changed \in Seq(LockEntry) /\ Len(changed) = Len(s)
           /\ \A j \in 1 .. Len(s) :
                 /\ changed[j].created = s[j].created /\ changed[j].allocated = s[j].allocated
                 /\ j # i => changed[j].owner = s[j].owner
           /\ changed[i].owner = owner
  <1>1. s[i] \in LockEntry
    OBVIOUS
  <1>2. PICK e \in LockEntry : /\ e = [s[i] EXCEPT !.owner = owner]
                               /\ e.created = s[i].created /\ e.allocated = s[i].allocated /\ e.owner = owner
    BY <1>1 DEF LockEntry
  <1>3. changed = [s EXCEPT ![i] = e]
    BY <1>2
  <1>4. /\ changed \in Seq(LockEntry) /\ Len(changed) = Len(s)
        /\ \A j \in 1 .. Len(s) : changed[j] = IF j = i THEN e ELSE s[j]
    BY <1>3
  <1> QED BY <1>2, <1>4, ZenonT(30)

LEMMA LockOwnerChanged ==
    ASSUME LockTypes, NEW i \in 1 .. Len(lock_dynamic_locks), NEW owner \in Threads \cup {"nobody"},
           lock_dynamic_locks' = [lock_dynamic_locks EXCEPT ![i].owner = owner]
    PROVE  /\ lock_dynamic_locks' \in Seq(LockEntry)
           /\ Len(lock_dynamic_locks') = Len(lock_dynamic_locks)
           /\ \A j \in 1 .. Len(lock_dynamic_locks) :
                 /\ lock_dynamic_locks'[j].created = lock_dynamic_locks[j].created
                 /\ lock_dynamic_locks'[j].allocated = lock_dynamic_locks[j].allocated
                 /\ j # i => lock_dynamic_locks'[j].owner = lock_dynamic_locks[j].owner
           /\ lock_dynamic_locks'[i].owner = owner
  <1>1. lock_dynamic_locks \in Seq(LockEntry)
    BY DEF LockTypes
  <1> QED BY <1>1, OwnerChanged

\* A step of a call that leaves the pool, the locks and who is inside.
LEMMA LockGoes ==
    ASSUME LockInv, NEW c \in LockContexts, NEW where \in LockPlaces,
           lock_calls' = [lock_calls EXCEPT ![c].at = where],
           \/ where \in {"idle", "allocates"} /\ lock_calls[c].at \in {"idle", "allocates"}
           \/ where \in {"searches", "links"} /\ lock_calls[c].at \in {"opens", "searches"}
           \/ where = "frees" /\ lock_calls[c].at = "closes",
           UNCHANGED <<lock_phase, lock_libc_locks_ready, lock_malloc_created,
                       lock_dynamic_locks, lock_lock, lock_inside, lock_halted>>
    PROVE  LockInv'
  <1>1. LockTypes /\ LockCalls /\ LockReady /\ LockEntries
    BY DEF LockInv
  <1>2. /\ lock_calls[c] \in [at : LockPlaces, file : Files \cup {"nobody"}]
        /\ lock_calls' = [lock_calls EXCEPT ![c] = [lock_calls[c] EXCEPT !.at = where]]
    BY <1>1 DEF LockTypes
  <1>3. /\ LockTypes'
        /\ lock_calls'[c].at = where /\ lock_calls'[c].file = lock_calls[c].file
        /\ \A d \in LockContexts \ {c} : lock_calls'[d] = lock_calls[d]
    BY <1>1, <1>2 DEF LockTypes
  <1>4. LockCalls'
    <2> SUFFICES ASSUME NEW d \in LockContexts
                 PROVE  /\ lock_calls'[d].at \in {"idle", "allocates"} <=> lock_calls'[d].file = "nobody"
                        /\ lock_calls'[d].at \in {"opens", "searches", "links"} => lock_lock[lock_calls'[d].file] = 0
                        /\ lock_calls'[d].at \in {"closes", "frees"} => lock_lock[lock_calls'[d].file] # 0
                        /\ lock_calls'[d].file # "nobody" =>
                              /\ lock_inside[lock_calls'[d].file] = {}
                              /\ \A e \in LockContexts \ {d} : lock_calls'[e].file # lock_calls'[d].file
      BY DEF LockCalls
    <2>1. \A e \in LockContexts : lock_calls'[e].file = lock_calls[e].file
      BY <1>3
    <2>2. CASE d = c
      BY <1>1, <1>3, <2>1, <2>2 DEF LockCalls
    <2>3. CASE d # c
      BY <1>1, <1>3, <2>1, <2>3 DEF LockCalls
    <2> QED BY <2>2, <2>3
  <1>5. LockReady' /\ LockEntries'
    BY <1>1 DEF LockReady, LockEntries
  <1> QED BY <1>3, <1>4, <1>5 DEF LockInv

LEMMA LockInitialize == LockInv /\ Locks!runtime_libc_initialize => LockInv'
  <1> SUFFICES ASSUME LockInv, Locks!runtime_libc_initialize PROVE LockInv'
    OBVIOUS
  <1>0. LockTypes /\ LockCalls /\ LockReady /\ LockEntries
    BY DEF LockInv
  <1>1. /\ lock_phase = "startup" /\ lock_phase' = "initialized"
        /\ lock_malloc_created' /\ lock_libc_locks_ready'
        /\ lock_dynamic_locks' = [i \in DOMAIN lock_dynamic_locks |->
                                    [lock_dynamic_locks[i] EXCEPT !.created = TRUE]]
        /\ UNCHANGED <<lock_calls, lock_lock, lock_inside, lock_halted>>
        /\ lock_libc_locks_ready' \in BOOLEAN
    BY DEF Locks!runtime_libc_initialize, Locks!Completed
  <1>2. /\ lock_dynamic_locks' \in Seq(LockEntry)
        /\ Len(lock_dynamic_locks') = Len(lock_dynamic_locks)
        /\ \A i \in 1 .. Len(lock_dynamic_locks) :
              /\ lock_dynamic_locks'[i].created
              /\ lock_dynamic_locks'[i].allocated = lock_dynamic_locks[i].allocated
              /\ lock_dynamic_locks'[i].owner = lock_dynamic_locks[i].owner
    <2>1. lock_dynamic_locks \in Seq(LockEntry)
      BY <1>0 DEF LockTypes
    <2>2. \A i \in 1 .. Len(lock_dynamic_locks) : lock_dynamic_locks[i] \in LockEntry
      BY <2>1
    <2>3. DOMAIN lock_dynamic_locks = 1 .. Len(lock_dynamic_locks) /\ Len(lock_dynamic_locks) \in Nat
      BY <2>1
    <2>4. \A i \in 1 .. Len(lock_dynamic_locks) :
              lock_dynamic_locks'[i] \in LockEntry /\ lock_dynamic_locks'[i].created
              /\ lock_dynamic_locks'[i].allocated = lock_dynamic_locks[i].allocated
              /\ lock_dynamic_locks'[i].owner = lock_dynamic_locks[i].owner
      BY <1>1, <2>2, <2>3 DEF LockEntry
    <2>5. lock_dynamic_locks' \in [1 .. Len(lock_dynamic_locks) -> LockEntry]
      BY <1>1, <2>3, <2>4
    <2> QED BY <2>3, <2>4, <2>5
  <1>3. LockTypes'
    BY <1>0, <1>1, <1>2 DEF LockTypes
  <1>4. LockCalls' /\ LockReady'
    BY <1>0, <1>1, <1>2 DEF LockCalls, LockReady
  <1>5. LockEntries'
    BY <1>0, <1>1, <1>2 DEF LockEntries, LockTypes
  <1> QED BY <1>1, <1>3, <1>4, <1>5 DEF LockInv

LEMMA LockScheduler == LockInv /\ Locks!StartScheduler => LockInv'
  BY DEF LockInv, LockTypes, LockCalls, LockReady, LockEntries, Locks!StartScheduler

\* Open and Close.
LEMMA LockBegins ==
    ASSUME LockInv, NEW c \in LockContexts, NEW f \in Files, NEW where \in {"opens", "closes"},
           lock_inside[f] = {}, \A d \in LockContexts : lock_calls[d].file # f,
           where = "opens" <=> lock_lock[f] = 0,
           lock_calls' = [lock_calls EXCEPT ![c] = [at |-> where, file |-> f]],
           UNCHANGED <<lock_phase, lock_libc_locks_ready, lock_malloc_created,
                       lock_dynamic_locks, lock_lock, lock_inside, lock_halted>>
    PROVE  LockInv'
  <1>1. LockTypes /\ LockCalls /\ LockReady /\ LockEntries
    BY DEF LockInv
  <1>2. /\ LockTypes'
        /\ lock_calls'[c] = [at |-> where, file |-> f]
        /\ \A d \in LockContexts \ {c} : lock_calls'[d] = lock_calls[d]
    BY <1>1 DEF LockTypes, LockPlaces
  <1>3. LockCalls'
    BY <1>1, <1>2, LockConstants DEF LockCalls
  <1>4. LockReady' /\ LockEntries'
    BY <1>1 DEF LockReady, LockEntries
  <1> QED BY <1>2, <1>3, <1>4 DEF LockInv

LEMMA LockReuse ==
    ASSUME LockInv, NEW c \in LockContexts, Locks!Reuse(c)
    PROVE  LockInv'
  <1>0. LockTypes /\ LockCalls /\ LockReady /\ LockEntries
    BY DEF LockInv
  <1>1. PICK i \in Locks!Free :
           /\ lock_dynamic_locks' = [lock_dynamic_locks EXCEPT ![i].allocated = TRUE]
           /\ lock_lock' = [lock_lock EXCEPT ![lock_calls[c].file] = i]
    BY DEF Locks!Reuse
  <1>2. /\ lock_calls[c].at = "searches"
        /\ lock_calls' = [lock_calls EXCEPT ![c].at = "unlocks"]
        /\ UNCHANGED <<lock_phase, lock_libc_locks_ready, lock_malloc_created, lock_inside, lock_halted>>
    BY DEF Locks!Reuse, Locks!At, Locks!Goes, Locks!setting
  <1>3. /\ i \in 1 .. Len(lock_dynamic_locks) /\ ~lock_dynamic_locks[i].allocated
        /\ lock_dynamic_locks \in Seq(LockEntry)
        /\ lock_dynamic_locks[i] \in LockEntry
    BY <1>0, <1>1 DEF Locks!Free, LockTypes
  <1>4. /\ [lock_dynamic_locks[i] EXCEPT !.allocated = TRUE] \in LockEntry
        /\ [lock_dynamic_locks[i] EXCEPT !.allocated = TRUE].allocated
        /\ [lock_dynamic_locks[i] EXCEPT !.allocated = TRUE].created = lock_dynamic_locks[i].created
        /\ [lock_dynamic_locks[i] EXCEPT !.allocated = TRUE].owner = lock_dynamic_locks[i].owner
    BY <1>3 DEF LockEntry
  <1>5. /\ lock_dynamic_locks' \in Seq(LockEntry)
        /\ Len(lock_dynamic_locks') = Len(lock_dynamic_locks)
        /\ \A j \in 1 .. Len(lock_dynamic_locks) :
              /\ lock_dynamic_locks'[j].created = lock_dynamic_locks[j].created
              /\ lock_dynamic_locks'[j].owner = lock_dynamic_locks[j].owner
              /\ lock_dynamic_locks'[j].allocated <=> (j = i \/ lock_dynamic_locks[j].allocated)
    <2>1. lock_dynamic_locks' = [lock_dynamic_locks EXCEPT ![i] = [lock_dynamic_locks[i] EXCEPT !.allocated = TRUE]]
      BY <1>1
    <2>2. \A j \in 1 .. Len(lock_dynamic_locks) : lock_dynamic_locks'[j] =
             IF j = i THEN [lock_dynamic_locks[i] EXCEPT !.allocated = TRUE] ELSE lock_dynamic_locks[j]
      BY <1>3, <1>4, <2>1, EntryChanged
    <2>3. \A j \in 1 .. Len(lock_dynamic_locks) :
              lock_dynamic_locks'[j].allocated <=> (j = i \/ lock_dynamic_locks[j].allocated)
      BY <1>4, <2>2, ZenonT(30)
    <2> QED BY <1>3, <1>4, <2>1, <2>2, <2>3, EntryChanged
  <1>6. PICK f \in Files : f = lock_calls[c].file
    BY <1>0, <1>2 DEF LockTypes, LockCalls
  <1>7. /\ lock_lock[f] = 0 /\ lock_inside[f] = {}
        /\ \A d \in LockContexts \ {c} : lock_calls[d].file # f
    BY <1>0, <1>2, <1>6, LockConstants DEF LockCalls
  <1>8. /\ lock_lock' \in [Files -> 0 .. Len(lock_dynamic_locks)]
        /\ lock_lock'[f] = i /\ \A g \in Files \ {f} : lock_lock'[g] = lock_lock[g]
    BY <1>0, <1>1, <1>3, <1>6 DEF LockTypes
  <1>9. /\ lock_calls' \in [LockContexts -> [at : LockPlaces, file : Files \cup {"nobody"}]]
        /\ lock_calls'[c].at = "unlocks" /\ lock_calls'[c].file = f
        /\ \A d \in LockContexts \ {c} : lock_calls'[d] = lock_calls[d]
    BY <1>0, <1>2, <1>6 DEF LockTypes, LockPlaces
  <1>10. LockTypes'
    BY <1>0, <1>2, <1>5, <1>8, <1>9 DEF LockTypes
  <1>11. LockCalls'
    BY <1>0, <1>2, <1>7, <1>8, <1>9, LockConstants DEF LockCalls, LockTypes
  <1>12. LockReady'
    BY <1>0, <1>2, <1>5 DEF LockReady
  <1>13. LockEntries'
    BY <1>0, <1>2, <1>3, <1>5, <1>7, <1>8 DEF LockEntries, LockTypes
  <1> QED BY <1>2, <1>10, <1>11, <1>12, <1>13 DEF LockInv

LEMMA LockReturn ==
    ASSUME LockInv, NEW c \in LockContexts, Locks!Return(c)
    PROVE  LockInv'
  <1>0. LockTypes /\ LockCalls /\ LockReady /\ LockEntries
    BY DEF LockInv
  <1>2. /\ lock_calls[c].at = "frees"
        /\ lock_calls' = [lock_calls EXCEPT ![c].at = "unlocks"]
        /\ lock_dynamic_locks' = [lock_dynamic_locks EXCEPT ![lock_lock[lock_calls[c].file]].allocated = FALSE]
        /\ lock_lock' = [lock_lock EXCEPT ![lock_calls[c].file] = 0]
        /\ UNCHANGED <<lock_phase, lock_libc_locks_ready, lock_malloc_created, lock_inside, lock_halted>>
    BY DEF Locks!Return, Locks!At, Locks!Goes, Locks!setting, Locks!Entry
  <1>6. PICK f \in Files : f = lock_calls[c].file
    BY <1>0, <1>2 DEF LockTypes, LockCalls
  <1>7. /\ lock_lock[f] # 0 /\ lock_inside[f] = {}
        /\ \A d \in LockContexts \ {c} : lock_calls[d].file # f
    BY <1>0, <1>2, <1>6, LockConstants DEF LockCalls
  <1>1. PICK i : i = lock_lock[f]
    OBVIOUS
  <1>3. /\ i \in 1 .. Len(lock_dynamic_locks)
        /\ lock_dynamic_locks \in Seq(LockEntry)
        /\ lock_dynamic_locks[i] \in LockEntry
    BY <1>0, <1>1, <1>7 DEF LockTypes
  <1>4. /\ [lock_dynamic_locks[i] EXCEPT !.allocated = FALSE] \in LockEntry
        /\ [lock_dynamic_locks[i] EXCEPT !.allocated = FALSE].created = lock_dynamic_locks[i].created
        /\ [lock_dynamic_locks[i] EXCEPT !.allocated = FALSE].owner = lock_dynamic_locks[i].owner
    BY <1>3 DEF LockEntry
  <1>5. /\ lock_dynamic_locks' \in Seq(LockEntry)
        /\ Len(lock_dynamic_locks') = Len(lock_dynamic_locks)
        /\ \A j \in 1 .. Len(lock_dynamic_locks) :
              /\ lock_dynamic_locks'[j].created = lock_dynamic_locks[j].created
              /\ lock_dynamic_locks'[j].owner = lock_dynamic_locks[j].owner
              /\ j # i => lock_dynamic_locks'[j].allocated = lock_dynamic_locks[j].allocated
    <2>1. lock_dynamic_locks' = [lock_dynamic_locks EXCEPT ![i] = [lock_dynamic_locks[i] EXCEPT !.allocated = FALSE]]
      BY <1>1, <1>2, <1>6
    <2>2. /\ lock_dynamic_locks' \in Seq(LockEntry)
          /\ Len(lock_dynamic_locks') = Len(lock_dynamic_locks)
          /\ \A j \in 1 .. Len(lock_dynamic_locks) : lock_dynamic_locks'[j] =
                IF j = i THEN [lock_dynamic_locks[i] EXCEPT !.allocated = FALSE] ELSE lock_dynamic_locks[j]
      BY <1>3, <1>4, <2>1, EntryChanged
    <2> QED BY <1>3, <1>4, <2>2, ZenonT(30)
  <1>8. /\ lock_lock' \in [Files -> 0 .. Len(lock_dynamic_locks)]
        /\ lock_lock'[f] = 0 /\ \A g \in Files \ {f} : lock_lock'[g] = lock_lock[g]
    BY <1>0, <1>2, <1>3, <1>6 DEF LockTypes
  <1>9. /\ lock_calls' \in [LockContexts -> [at : LockPlaces, file : Files \cup {"nobody"}]]
        /\ lock_calls'[c].at = "unlocks" /\ lock_calls'[c].file = f
        /\ \A d \in LockContexts \ {c} : lock_calls'[d] = lock_calls[d]
    BY <1>0, <1>2, <1>6 DEF LockTypes, LockPlaces
  <1>10. LockTypes'
    BY <1>0, <1>2, <1>5, <1>8, <1>9 DEF LockTypes
  <1>11. LockCalls'
    BY <1>0, <1>2, <1>7, <1>8, <1>9, LockConstants DEF LockCalls, LockTypes
  <1>12. LockReady'
    BY <1>0, <1>2, <1>5 DEF LockReady
  <1>13. LockEntries'
    BY <1>0, <1>1, <1>2, <1>3, <1>5, <1>7, <1>8 DEF LockEntries, LockTypes
  <1> QED BY <1>2, <1>10, <1>11, <1>12, <1>13 DEF LockInv

LEMMA LockLink ==
    ASSUME LockInv, NEW c \in LockContexts, Locks!Link(c)
    PROVE  LockInv'
  <1>0. LockTypes /\ LockCalls /\ LockReady /\ LockEntries
    BY DEF LockInv
  <1>1. /\ lock_calls[c].at = "links"
        /\ UNCHANGED <<lock_phase, lock_libc_locks_ready, lock_malloc_created, lock_inside>>
    BY DEF Locks!Link, Locks!At, Locks!setting
  <1>2. CASE lock_halted' = "resources" /\ UNCHANGED <<lock_dynamic_locks, lock_lock, lock_calls>>
    BY <1>0, <1>1, <1>2 DEF LockInv, LockTypes, LockCalls, LockReady, LockEntries
  <1>3. CASE /\ lock_dynamic_locks' = Append(lock_dynamic_locks,
                    [created |-> lock_libc_locks_ready, allocated |-> TRUE, owner |-> "nobody"])
             /\ lock_lock' = [lock_lock EXCEPT ![lock_calls[c].file] = Len(lock_dynamic_locks) + 1]
             /\ lock_calls' = [lock_calls EXCEPT ![c].at = "unlocks"]
             /\ UNCHANGED lock_halted
    <2>1. PICK f \in Files : f = lock_calls[c].file
      BY <1>0, <1>1 DEF LockTypes, LockCalls
    <2>2. /\ lock_lock[f] = 0 /\ lock_inside[f] = {}
          /\ \A d \in LockContexts \ {c} : lock_calls[d].file # f
      BY <1>0, <1>1, <2>1, LockConstants DEF LockCalls
    <2>3. PICK n \in Nat : n = Len(lock_dynamic_locks)
      BY <1>0 DEF LockTypes
    <2>4. /\ [created |-> lock_libc_locks_ready, allocated |-> TRUE, owner |-> "nobody"] \in LockEntry
          /\ lock_dynamic_locks \in Seq(LockEntry)
      BY <1>0 DEF LockTypes, LockEntry
    <2>5. /\ lock_dynamic_locks' \in Seq(LockEntry) /\ Len(lock_dynamic_locks') = n + 1
          /\ lock_dynamic_locks'[n + 1] = [created |-> lock_libc_locks_ready, allocated |-> TRUE, owner |-> "nobody"]
          /\ \A j \in 1 .. n : lock_dynamic_locks'[j] = lock_dynamic_locks[j]
      BY <1>3, <2>3, <2>4
    <2>6. /\ lock_dynamic_locks'[n + 1].created = lock_libc_locks_ready
          /\ lock_dynamic_locks'[n + 1].allocated
      BY <2>5
    <2>7. /\ lock_lock' \in [Files -> 0 .. n + 1]
          /\ lock_lock'[f] = n + 1 /\ \A g \in Files \ {f} : lock_lock'[g] = lock_lock[g]
          /\ \A g \in Files : lock_lock[g] \in 0 .. n
      BY <1>0, <1>3, <2>1, <2>3 DEF LockTypes
    <2>8. /\ lock_calls' \in [LockContexts -> [at : LockPlaces, file : Files \cup {"nobody"}]]
          /\ lock_calls'[c].at = "unlocks" /\ lock_calls'[c].file = f
          /\ \A d \in LockContexts \ {c} : lock_calls'[d] = lock_calls[d]
      BY <1>0, <1>3, <2>1 DEF LockTypes, LockPlaces
    <2>9. LockTypes'
      BY <1>0, <1>1, <2>5, <2>7, <2>8 DEF LockTypes
    <2>10. LockCalls'
      <3>1. \A d \in LockContexts : lock_calls'[d].file = lock_calls[d].file
        BY <2>1, <2>8
      <3>2. \A d \in LockContexts \ {c} : lock_calls[d].file # "nobody" =>
                lock_lock'[lock_calls[d].file] = lock_lock[lock_calls[d].file]
        BY <1>0, <2>2, <2>7 DEF LockTypes
      <3> QED BY <1>0, <1>1, <2>1, <2>2, <2>8, <3>1, <3>2, LockConstants DEF LockCalls
    <2>11. LockReady'
      BY <1>0, <1>1, <2>3, <2>5, <2>6 DEF LockReady
    <2>12. LockEntries'
      BY <1>0, <1>1, <2>2, <2>5, <2>6, <2>7 DEF LockEntries, LockTypes
    <2> QED BY <1>3, <2>9, <2>10, <2>11, <2>12 DEF LockInv
  <1> QED BY <1>2, <1>3 DEF Locks!Link, Locks!Goes, Locks!Fail, Locks!Nobody

LEMMA LockEnds ==
    ASSUME LockInv, NEW c \in LockContexts, Locks!unlock_dynamic_pool(c)
    PROVE  LockInv'
  <1>0. LockTypes /\ LockCalls /\ LockReady /\ LockEntries
    BY DEF LockInv
  <1>1. /\ lock_calls' = [lock_calls EXCEPT ![c] = [at |-> "idle", file |-> "nobody"]]
        /\ UNCHANGED <<lock_phase, lock_libc_locks_ready, lock_malloc_created,
                       lock_dynamic_locks, lock_lock, lock_inside, lock_halted>>
    BY DEF Locks!unlock_dynamic_pool, Locks!Idle, Locks!Nobody, Locks!setting
  <1>2. /\ LockTypes'
        /\ lock_calls'[c] = [at |-> "idle", file |-> "nobody"]
        /\ \A d \in LockContexts \ {c} : lock_calls'[d] = lock_calls[d]
    BY <1>0, <1>1 DEF LockTypes, LockPlaces
  <1>3. LockCalls'
    BY <1>0, <1>1, <1>2, LockConstants DEF LockCalls
  <1>4. LockReady' /\ LockEntries'
    BY <1>0, <1>1 DEF LockReady, LockEntries
  <1> QED BY <1>1, <1>2, <1>3, <1>4 DEF LockInv

\* Acquire and Release: the owner of an entry and who is inside change.
LEMMA LockTaken ==
    ASSUME LockInv, NEW c \in LockContexts, NEW f \in Files, NEW owner \in Threads \cup {"nobody"},
           lock_lock[f] # 0,
           lock_dynamic_locks' = [lock_dynamic_locks EXCEPT ![lock_lock[f]].owner = owner],
           lock_inside' \in [Files -> SUBSET LockContexts],
           \A g \in Files \ {f} : lock_inside'[g] = lock_inside[g],
           lock_inside'[f] # {} => \A d \in LockContexts : lock_calls[d].file # f,
           \A d \in lock_inside'[f] : d = "startup" <=> lock_phase # "kernel",
           \A d \in lock_inside'[f] : d # "startup" => lock_inside'[f] = {d} /\ owner = d,
           UNCHANGED <<lock_phase, lock_libc_locks_ready, lock_malloc_created,
                       lock_calls, lock_lock, lock_halted>>
    PROVE  LockInv'
  <1>0. LockTypes /\ LockCalls /\ LockReady /\ LockEntries
    BY DEF LockInv
  <1>1. PICK i : i = lock_lock[f]
    OBVIOUS
  <1>3. /\ i \in 1 .. Len(lock_dynamic_locks)
        /\ lock_dynamic_locks \in Seq(LockEntry)
        /\ lock_dynamic_locks[i] \in LockEntry
    BY <1>0, <1>1 DEF LockTypes
  <1>5. /\ lock_dynamic_locks' \in Seq(LockEntry)
        /\ Len(lock_dynamic_locks') = Len(lock_dynamic_locks)
        /\ \A j \in 1 .. Len(lock_dynamic_locks) :
              /\ lock_dynamic_locks'[j].created = lock_dynamic_locks[j].created
              /\ lock_dynamic_locks'[j].allocated = lock_dynamic_locks[j].allocated
              /\ j # i => lock_dynamic_locks'[j].owner = lock_dynamic_locks[j].owner
        /\ lock_dynamic_locks'[i].owner = owner
    <2>1. lock_dynamic_locks' = [lock_dynamic_locks EXCEPT ![i].owner = owner]
      BY <1>1
    <2> QED BY <1>0, <1>3, <2>1, LockOwnerChanged, ZenonT(30)
  <1>6. LockTypes'
    BY <1>0, <1>5 DEF LockTypes
  <1>7. LockCalls'
    BY <1>0 DEF LockCalls, LockTypes
  <1>8. LockReady'
    BY <1>0, <1>5 DEF LockReady
  <1>9. LockEntries'
    <2>1. \A g \in Files : lock_lock[g] \in 0 .. Len(lock_dynamic_locks)
      BY <1>0 DEF LockTypes
    <2>2. \A g \in Files \ {f} : lock_lock[g] # i
      BY <1>0, <1>1, <2>1 DEF LockEntries
    <2> SUFFICES ASSUME NEW g \in Files
                 PROVE  /\ lock_lock[g] # 0 =>
                              /\ lock_dynamic_locks'[lock_lock[g]].allocated
                              /\ \A h \in Files \ {g} : lock_lock[h] # lock_lock[g]
                        /\ \A d \in lock_inside'[g] :
                              /\ lock_lock[g] # 0 /\ (d = "startup" <=> lock_phase # "kernel")
                              /\ d # "startup" =>
                                    lock_inside'[g] = {d} /\ lock_dynamic_locks'[lock_lock[g]].owner = d
      BY DEF LockEntries
    <2>3. lock_lock[g] # 0 => /\ lock_dynamic_locks'[lock_lock[g]].allocated
                              /\ \A h \in Files \ {g} : lock_lock[h] # lock_lock[g]
      BY <1>0, <1>5, <2>1 DEF LockEntries
    <2>4. CASE g = f
      BY <1>1, <1>5, <2>3, <2>4
    <2>5. CASE g # f
      BY <1>0, <1>5, <2>1, <2>2, <2>3, <2>5 DEF LockEntries
    <2> QED BY <2>4, <2>5
  <1> QED BY <1>6, <1>7, <1>8, <1>9 DEF LockInv

LEMMA LockAcquire ==
    ASSUME LockInv, NEW c \in LockContexts, NEW f \in Files, Locks!Acquire(c, f)
    PROVE  LockInv'
  <1>0. LockTypes /\ LockCalls /\ LockReady /\ LockEntries
    BY DEF LockInv
  <1>1. /\ lock_lock[f] # 0 /\ \A d \in LockContexts : lock_calls[d].file # f
        /\ c = "startup" <=> lock_phase # "kernel"
        /\ UNCHANGED <<lock_phase, lock_libc_locks_ready, lock_malloc_created, lock_calls, lock_lock>>
    BY DEF Locks!Acquire, Locks!At, Locks!Runs, Locks!StartUp, Locks!setting, Locks!Contexts, LockContexts
  <1>2. /\ lock_lock[f] \in 1 .. Len(lock_dynamic_locks)
        /\ lock_inside \in [Files -> SUBSET LockContexts]
    BY <1>0, <1>1 DEF LockTypes
  <1>3. c # "startup" => lock_dynamic_locks[lock_lock[f]].created
    BY <1>0, <1>1, <1>2 DEF LockReady
  <1>4. /\ c # "startup" => lock_dynamic_locks[lock_lock[f]].owner = "nobody"
        /\ lock_dynamic_locks' = [lock_dynamic_locks EXCEPT
                ![lock_lock[f]].owner = IF c # "startup" THEN c ELSE @]
        /\ lock_inside' = [lock_inside EXCEPT ![f] = @ \cup {c}]
        /\ UNCHANGED lock_halted
    BY <1>3 DEF Locks!Acquire, Locks!locking_required, Locks!StartUp, Locks!Nobody
  <1>5. \A d \in lock_inside[f] :
            /\ d = "startup" <=> lock_phase # "kernel"
            /\ d # "startup" => lock_dynamic_locks[lock_lock[f]].owner = d
    BY <1>0 DEF LockEntries
  <1>6. /\ lock_inside'[f] = lock_inside[f] \cup {c}
        /\ lock_inside' \in [Files -> SUBSET LockContexts]
        /\ \A g \in Files \ {f} : lock_inside'[g] = lock_inside[g]
    BY <1>2, <1>4
  <1>7. CASE c = "startup"
    <2>1. PICK owner : owner = lock_dynamic_locks[lock_lock[f]].owner
      OBVIOUS
    <2>2. owner \in Threads \cup {"nobody"}
      <3>1. lock_dynamic_locks[lock_lock[f]] \in LockEntry
        BY <1>0, <1>2 DEF LockTypes
      <3> QED BY <2>1, <3>1 DEF LockEntry
    <2>3. lock_dynamic_locks' = [lock_dynamic_locks EXCEPT ![lock_lock[f]].owner = owner]
      BY <1>4, <1>7, <2>1
    <2>4. \A d \in lock_inside'[f] : d = "startup"
      BY <1>1, <1>5, <1>6, <1>7
    <2> QED BY <1>1, <1>4, <1>6, <1>7, <2>2, <2>3, <2>4, LockTaken
  <1>8. CASE c # "startup"
    <2>1. lock_inside[f] = {}
      <3> SUFFICES ASSUME NEW d \in lock_inside[f] PROVE FALSE
        OBVIOUS
      <3>1. d \in Threads
        BY <1>1, <1>2, <1>5, <1>8 DEF LockContexts
      <3> QED BY <1>1, <1>4, <1>5, <1>8, <3>1, LockConstants
    <2>2. lock_inside'[f] = {c} /\ c \in Threads
      BY <1>6, <1>8, <2>1 DEF LockContexts
    <2>3. lock_dynamic_locks' = [lock_dynamic_locks EXCEPT ![lock_lock[f]].owner = c]
      BY <1>4, <1>8
    <2> QED BY <1>1, <1>4, <1>6, <1>8, <2>2, <2>3, LockTaken
  <1> QED BY <1>7, <1>8

LEMMA LockRelease ==
    ASSUME LockInv, NEW c \in LockContexts, NEW f \in Files, Locks!Release(c, f)
    PROVE  LockInv'
  <1>0. LockTypes /\ LockCalls /\ LockReady /\ LockEntries
    BY DEF LockInv
  <1>1. /\ c \in lock_inside[f]
        /\ c = "startup" <=> lock_phase # "kernel"
        /\ UNCHANGED <<lock_phase, lock_libc_locks_ready, lock_malloc_created, lock_calls, lock_lock>>
    BY DEF Locks!Release, Locks!At, Locks!Runs, Locks!StartUp, Locks!setting
  <1>2. /\ lock_lock[f] # 0
        /\ \A d \in lock_inside[f] : d = "startup" <=> lock_phase # "kernel"
        /\ c # "startup" => lock_inside[f] = {c} /\ lock_dynamic_locks[lock_lock[f]].owner = c
    BY <1>0, <1>1 DEF LockEntries
  <1>3. /\ lock_dynamic_locks' = [lock_dynamic_locks EXCEPT ![lock_lock[f]].owner = "nobody"]
        /\ lock_inside' = [lock_inside EXCEPT ![f] = @ \ {c}]
        /\ UNCHANGED lock_halted
    BY <1>2 DEF Locks!Release, Locks!locking_required, Locks!StartUp, Locks!Nobody
  <1>4. lock_inside \in [Files -> SUBSET LockContexts]
    BY <1>0 DEF LockTypes
  <1>5. /\ lock_inside'[f] = lock_inside[f] \ {c}
        /\ lock_inside' \in [Files -> SUBSET LockContexts]
        /\ \A g \in Files \ {f} : lock_inside'[g] = lock_inside[g]
    BY <1>3, <1>4
  <1>6. \A d \in lock_inside'[f] : d = "startup"
    BY <1>1, <1>2, <1>5
  <1>7. \A d \in LockContexts : lock_calls[d].file # f
    BY <1>0, <1>1, LockConstants DEF LockCalls
  <1> QED BY <1>1, <1>2, <1>3, <1>5, <1>6, <1>7, LockTaken

LEMMA LockStep == LockInv /\ [Locks!Next]_lock_vars => LockInv'
  <1> SUFFICES ASSUME LockInv, [Locks!Next]_lock_vars PROVE LockInv'
    OBVIOUS
  <1>1. CASE UNCHANGED lock_vars
    BY <1>1 DEF LockInv, LockTypes, LockCalls, LockReady, LockEntries, lock_vars
  <1>2. CASE Locks!runtime_libc_initialize \/ Locks!StartScheduler
    BY <1>2, LockInitialize, LockScheduler
  <1>3. ASSUME NEW c \in LockContexts, NEW f \in Files, Locks!Open(c, f) \/ Locks!Close(c, f)
        PROVE  LockInv'
    <2>1. /\ lock_inside[f] = {} /\ \A d \in LockContexts : lock_calls[d].file # f
          /\ UNCHANGED <<lock_phase, lock_libc_locks_ready, lock_malloc_created,
                         lock_dynamic_locks, lock_lock, lock_inside, lock_halted>>
          /\ \/ lock_lock[f] = 0 /\ lock_calls' = [lock_calls EXCEPT ![c] = [at |-> "opens", file |-> f]]
             \/ lock_lock[f] # 0 /\ lock_calls' = [lock_calls EXCEPT ![c] = [at |-> "closes", file |-> f]]
      BY <1>3 DEF Locks!Open, Locks!Close, Locks!setting, Locks!Contexts, Locks!StartUp, LockContexts, LockInv, LockEntries
    <2>2. CASE lock_lock[f] = 0 /\ lock_calls' = [lock_calls EXCEPT ![c] = [at |-> "opens", file |-> f]]
      <3>1. "opens" \in {"opens", "closes"} /\ ("opens" = "opens" <=> lock_lock[f] = 0)
        BY <2>2
      <3> QED BY <2>1, <2>2, <3>1, LockBegins
    <2>3. CASE lock_lock[f] # 0 /\ lock_calls' = [lock_calls EXCEPT ![c] = [at |-> "closes", file |-> f]]
      <3>1. "closes" \in {"opens", "closes"} /\ ("closes" = "opens" <=> lock_lock[f] = 0)
        BY <2>3
      <3> QED BY <2>1, <2>3, <3>1, LockBegins
    <2> QED BY <2>1, <2>2, <2>3
  <1>4. ASSUME NEW c \in LockContexts, NEW f \in Files, Locks!Acquire(c, f) \/ Locks!Release(c, f)
        PROVE  LockInv'
    BY <1>4, LockAcquire, LockRelease
  <1>5. ASSUME NEW c \in LockContexts, Locks!lock_dynamic_pool(c)
        PROVE  LockInv'
    <2>1. /\ lock_calls[c].at \in {"opens", "closes"}
          /\ lock_calls' = [lock_calls EXCEPT ![c].at = IF lock_calls[c].at = "opens" THEN "searches" ELSE "frees"]
          /\ UNCHANGED <<lock_phase, lock_libc_locks_ready, lock_malloc_created,
                         lock_dynamic_locks, lock_lock, lock_inside, lock_halted>>
      BY <1>5 DEF Locks!lock_dynamic_pool, Locks!At, Locks!Goes, Locks!setting
    <2>2. CASE lock_calls[c].at = "opens"
      BY <2>1, <2>2, LockGoes DEF LockPlaces
    <2>3. CASE lock_calls[c].at = "closes"
      BY <2>1, <2>3, LockGoes DEF LockPlaces
    <2> QED BY <2>1, <2>2, <2>3
  <1>6. ASSUME NEW c \in LockContexts, Locks!Reuse(c) \/ Locks!Link(c) \/ Locks!Return(c) \/ Locks!unlock_dynamic_pool(c)
        PROVE  LockInv'
    BY <1>6, LockReuse, LockLink, LockReturn, LockEnds
  <1>7. ASSUME NEW c \in LockContexts, Locks!Grow(c)
        PROVE  LockInv'
    <2>1. /\ lock_calls[c].at = "searches"
          /\ c = "startup" <=> lock_phase # "kernel"
          /\ UNCHANGED <<lock_phase, lock_libc_locks_ready, lock_malloc_created,
                         lock_dynamic_locks, lock_lock, lock_inside>>
      BY <1>7 DEF Locks!Grow, Locks!At, Locks!Runs, Locks!StartUp, Locks!setting
    <2>2. c # "startup" => lock_malloc_created
      BY <2>1 DEF LockInv, LockReady
    <2>3. lock_calls' = [lock_calls EXCEPT ![c].at = "links"] /\ UNCHANGED lock_halted
      BY <1>7, <2>2 DEF Locks!Grow, Locks!Goes, Locks!locking_required, Locks!StartUp
    <2> QED BY <2>1, <2>3, LockGoes DEF LockPlaces
  <1>8. ASSUME NEW c \in LockContexts, Locks!Allocate(c) \/ Locks!Allocated(c)
        PROVE  LockInv'
    <2>1. /\ lock_calls[c].at \in {"idle", "allocates"}
          /\ \/ lock_calls' = [lock_calls EXCEPT ![c].at = "allocates"]
             \/ lock_calls' = [lock_calls EXCEPT ![c].at = "idle"]
          /\ UNCHANGED <<lock_phase, lock_libc_locks_ready, lock_malloc_created,
                         lock_dynamic_locks, lock_lock, lock_inside, lock_halted>>
      BY <1>8 DEF Locks!Allocate, Locks!Allocated, Locks!At, Locks!Goes, Locks!setting
    <2>2. CASE lock_calls' = [lock_calls EXCEPT ![c].at = "allocates"]
      BY <2>1, <2>2, LockGoes DEF LockPlaces
    <2>3. CASE lock_calls' = [lock_calls EXCEPT ![c].at = "idle"]
      BY <2>1, <2>3, LockGoes DEF LockPlaces
    <2> QED BY <2>1, <2>2, <2>3
  <1> QED
    BY <1>1, <1>2, <1>3, <1>4, <1>5, <1>6, <1>7, <1>8
    DEF Locks!Next, Locks!Contexts, Locks!StartUp, LockContexts

-----------------------------------------------------------------------------
(* libc.c and cpu_clock.c: what ThreadX calls around threads.               *)

\* All cycles up to the last time that the counter was read.
HookRead == hook_counter.since + hook_counter.elapsed_cycles
HookTypes ==
    /\ hook_current \in Threads \cup {"nobody"}
    /\ hook_created \subseteq Threads
    /\ hook_counter \in [execution_cycles : Int, elapsed_cycles : Int, last_cycle : Int,
                         running : BOOLEAN, since : Int]
    /\ hook_cycles \in Int /\ hook_executed \in Int
HookContext ==
    /\ hook_current # "nobody" => hook_current \in hook_created
    /\ hook_impure = IF hook_current = "nobody" THEN "global" ELSE hook_current
\* The counter is read again before it has gone around.
HookCounter ==
    /\ hook_counter.last_cycle = HookRead % CycleWrap
    /\ HookRead <= hook_cycles /\ hook_cycles < HookRead + CycleWrap
    /\ hook_counter.running <=> hook_current # "nobody"
    /\ hook_executed = hook_counter.execution_cycles
                          + IF hook_counter.running THEN hook_cycles - HookRead ELSE 0
HookInv == HookTypes /\ HookContext /\ HookCounter

LEMMA HookConstants ==
    /\ CycleWrap \in Nat /\ CycleWrap > 1 /\ Frequency \in Nat \ {0} /\ Rate \in Nat
    /\ {"nobody", "global"} \cap Threads = {}
  BY ConstantsAssumption DEF ConstantsAssumption

LEMMA DivParts ==
    ASSUME NEW p \in Nat \ {0}, NEW a \in Int
    PROVE  \E q \in Int, r \in 0 .. p - 1 : a = p * q + r /\ a \div p = q /\ a % p = r
  <1>1. a % p \in 0 .. p - 1 /\ a \div p \in Int /\ a = p * (a \div p) + (a % p)
    BY DivMod, ZenonT(30)
  <1> QED BY <1>1, ZenonT(30)

\* The difference of two readings of a counter that wraps.
LEMMA WrappedDifference ==
    ASSUME NEW w \in Nat \ {0}, NEW a \in Int, NEW b \in Int, a <= b, b < a + w
    PROVE  (b - (a % w)) % w = b - a /\ ((b % w) - (a % w)) % w = b - a
  <1>1. PICK p \in Int, m \in 0 .. w - 1 : a = w * p + m /\ a % w = m
    BY DivParts, ZenonT(30)
  <1>2. PICK q \in Int, n \in 0 .. w - 1 : b = w * q + n /\ b % w = n
    BY DivParts, ZenonT(30)
  <1>3. PICK d \in 0 .. w - 1 : d = b - a
    OBVIOUS
  <1>4. /\ m \in Int /\ n \in Int /\ d \in Int /\ p - q \in Int
        /\ w * p \in Int /\ w * q \in Int /\ w * (p - q) = w * p - w * q
    OBVIOUS
  <1>5. b - m = w * p + d /\ n - m = w * (p - q) + d
    BY <1>1, <1>2, <1>3, <1>4
  <1>6. (w * p + d) % w = d /\ (w * (p - q) + d) % w = d
    BY <1>4, ModUnique, ZenonT(30)
  <1>7. (b - m) % w = d /\ (n - m) % w = d
    BY <1>5, <1>6, ZenonT(30)
  <1>8. (b - (a % w)) % w = d /\ ((b % w) - (a % w)) % w = d
    BY <1>1, <1>2, <1>7
  <1> QED BY <1>3, <1>8, ZenonT(30)

LEMMA HookInitial == Hooks!Init => HookInv
  <1> SUFFICES ASSUME Hooks!Init PROVE HookInv
    OBVIOUS
  <1>1. hook_cycles \in Int
    BY HookConstants DEF Hooks!Init
  <1>2. hook_cycles % CycleWrap \in Int
    BY <1>1, HookConstants, DivMod
  <1>3. HookTypes
    BY <1>1, <1>2 DEF Hooks!Init, HookTypes, Hooks!Nobody
  <1>4. HookContext
    BY DEF Hooks!Init, HookContext, Hooks!Nobody, Hooks!Global
  <1>5. HookRead = hook_cycles
    BY <1>1 DEF Hooks!Init, HookRead
  <1>6. HookCounter
    BY <1>1, <1>5, HookConstants DEF Hooks!Init, HookCounter, Hooks!Nobody
  <1> QED BY <1>3, <1>4, <1>6 DEF HookInv

\* A reading of the counter makes up for all cycles since the last one.
LEMMA HookUpdate ==
    ASSUME HookInv, NEW running \in BOOLEAN, Hooks!runtime_cpu_clock_update(running)
    PROVE  /\ hook_counter' \in [execution_cycles : Int, elapsed_cycles : Int, last_cycle : Int,
                                 running : BOOLEAN, since : Int]
           /\ HookRead' = hook_cycles
           /\ hook_counter'.last_cycle = hook_cycles % CycleWrap
           /\ hook_counter'.running = running
           /\ hook_counter'.execution_cycles = hook_executed
  <1> DEFINE now == hook_cycles % CycleWrap
             elapsed == (now - hook_counter.last_cycle) % CycleWrap
  <1>1. /\ hook_cycles \in Int /\ HookRead \in Int /\ hook_counter.running \in BOOLEAN
        /\ hook_counter.execution_cycles \in Int /\ hook_counter.elapsed_cycles \in Int
        /\ hook_counter.since \in Int
        /\ HookRead = hook_counter.since + hook_counter.elapsed_cycles
    BY DEF HookInv, HookTypes, HookRead
  <1>2. elapsed = hook_cycles - HookRead
    <2>1. /\ HookRead <= hook_cycles /\ hook_cycles < HookRead + CycleWrap
          /\ hook_counter.last_cycle = HookRead % CycleWrap /\ CycleWrap \in Nat \ {0}
      BY HookConstants DEF HookInv, HookCounter
    <2>2. HookRead <= hook_cycles /\ hook_cycles < HookRead + CycleWrap /\ CycleWrap \in Nat \ {0}
      BY <2>1
    <2>3. ((hook_cycles % CycleWrap) - (HookRead % CycleWrap)) % CycleWrap = hook_cycles - HookRead
      BY <1>1, <2>2, WrappedDifference, ZenonT(30)
    <2>5. hook_counter.last_cycle = HookRead % CycleWrap
      BY <2>1
    <2>4. ((hook_cycles % CycleWrap) - hook_counter.last_cycle) % CycleWrap = hook_cycles - HookRead
      BY <2>5, <2>3, ZenonT(30)
    <2> QED BY <2>4, ZenonT(30)
  <1>3. now \in Int
    BY <1>1, HookConstants, DivMod
  <1>4. hook_counter' = [execution_cycles |-> hook_counter.execution_cycles
                                + IF hook_counter.running THEN elapsed ELSE 0,
                         elapsed_cycles |-> hook_counter.elapsed_cycles + elapsed,
                         last_cycle |-> now, running |-> running, since |-> hook_counter.since]
    BY DEF Hooks!runtime_cpu_clock_update
  <1>5. hook_executed = hook_counter.execution_cycles + IF hook_counter.running THEN elapsed ELSE 0
    BY <1>2 DEF HookInv, HookCounter
  <1> HIDE DEF elapsed, now
  <1>6. /\ hook_counter'.execution_cycles = hook_executed
        /\ hook_counter'.elapsed_cycles = hook_counter.elapsed_cycles + elapsed
        /\ hook_counter'.last_cycle = now /\ hook_counter'.running = running
        /\ hook_counter'.since = hook_counter.since
    BY <1>4, <1>5
  <1>7. HookRead' = hook_cycles
    BY <1>1, <1>2, <1>6 DEF HookRead
  <1>8. hook_executed \in Int
    BY DEF HookInv, HookTypes
  <1>9. hook_counter' \in [execution_cycles : Int, elapsed_cycles : Int, last_cycle : Int,
                           running : BOOLEAN, since : Int]
    BY <1>1, <1>2, <1>3, <1>4, <1>5, <1>8
  <1> QED BY <1>6, <1>7, <1>9 DEF now

LEMMA HookUpdated ==
    ASSUME HookInv, NEW running \in BOOLEAN, Hooks!runtime_cpu_clock_update(running),
           hook_cycles' = hook_cycles, hook_executed' = hook_executed,
           running <=> hook_current' # "nobody"
    PROVE  HookCounter'
  <1>1. /\ HookRead' = hook_cycles
        /\ hook_counter'.last_cycle = hook_cycles % CycleWrap
        /\ hook_counter'.running = running
        /\ hook_counter'.execution_cycles = hook_executed
    BY HookUpdate
  <1>2. hook_cycles \in Int /\ hook_executed \in Int
    BY DEF HookInv, HookTypes
  <1> QED BY <1>1, <1>2, HookConstants DEF HookCounter

LEMMA HookStep == HookInv /\ [Hooks!Next]_hook_vars => HookInv'
  <1> SUFFICES ASSUME HookInv, [Hooks!Next]_hook_vars PROVE HookInv'
    OBVIOUS
  <1>0. HookTypes /\ HookContext /\ HookCounter
    BY DEF HookInv
  <1>1. CASE UNCHANGED hook_vars
    BY <1>1 DEF HookInv, HookTypes, HookContext, HookCounter, HookRead, hook_vars
  <1>2. ASSUME NEW t \in Threads, Hooks!runtime_libc_thread_create(t)
        PROVE  HookInv'
    BY <1>0, <1>2 DEF Hooks!runtime_libc_thread_create, HookInv, HookTypes, HookContext, HookCounter, HookRead
  <1>3. ASSUME NEW t \in Threads, Hooks!runtime_libc_thread_delete(t)
        PROVE  HookInv'
    <2>1. /\ t # hook_current /\ hook_created' = hook_created \ {t}
          /\ hook_impure' = IF hook_impure = t THEN "global" ELSE hook_impure
          /\ UNCHANGED <<hook_current, hook_counter, hook_cycles, hook_executed>>
      BY <1>3 DEF Hooks!runtime_libc_thread_delete, Hooks!Global
    <2>2. HookContext'
      BY <1>0, <2>1 DEF HookContext
    <2> QED BY <1>0, <2>1, <2>2 DEF HookInv, HookTypes, HookCounter, HookRead
  <1>4. ASSUME NEW t \in Threads, Hooks!_tx_execution_thread_enter(t)
        PROVE  HookInv'
    <2>1. /\ t \in hook_created /\ hook_current' = t /\ hook_impure' = t
          /\ Hooks!runtime_cpu_clock_update(TRUE)
          /\ UNCHANGED <<hook_created, hook_cycles, hook_executed>>
      BY <1>4 DEF Hooks!_tx_execution_thread_enter, Hooks!Reentrancy
    <2>2. t # "nobody"
      BY HookConstants
    <2>3. HookCounter'
      BY <2>1, <2>2, HookUpdated
    <2>4. HookTypes' /\ HookContext'
      BY <1>0, <2>1, <2>2, HookUpdate DEF HookTypes, HookContext
    <2> QED BY <2>3, <2>4 DEF HookInv
  <1>5. CASE Hooks!_tx_execution_thread_exit
    <2>1. /\ hook_current' = "nobody" /\ hook_impure' = "global"
          /\ Hooks!runtime_cpu_clock_update(FALSE)
          /\ UNCHANGED <<hook_created, hook_cycles, hook_executed>>
      BY <1>5 DEF Hooks!_tx_execution_thread_exit, Hooks!Nobody, Hooks!Global
    <2>2. HookCounter'
      BY <2>1, HookUpdated
    <2>3. HookTypes' /\ HookContext'
      BY <1>0, <2>1, HookUpdate DEF HookTypes, HookContext
    <2> QED BY <2>2, <2>3 DEF HookInv
  <1>6. CASE Hooks!Interrupt \/ Hooks!_times
    <2>1. /\ Hooks!runtime_cpu_clock_update(hook_counter.running)
          /\ UNCHANGED <<hook_current, hook_impure, hook_created, hook_cycles, hook_executed>>
      BY <1>6 DEF Hooks!Interrupt, Hooks!_times
    <2>2. hook_counter.running \in BOOLEAN /\ (hook_counter.running <=> hook_current # "nobody")
      BY <1>0 DEF HookTypes, HookCounter
    <2>3. HookCounter'
      BY <2>1, <2>2, HookUpdated
    <2>4. HookTypes' /\ HookContext'
      BY <1>0, <2>1, <2>2, HookUpdate DEF HookTypes, HookContext
    <2> QED BY <2>3, <2>4 DEF HookInv
  <1>7. CASE Hooks!Pass
    <2>1. /\ hook_cycles - hook_counter.since < hook_counter.elapsed_cycles + CycleWrap \div 2
          /\ hook_cycles' = hook_cycles + 1
          /\ hook_executed' = hook_executed + IF hook_current # "nobody" THEN 1 ELSE 0
          /\ UNCHANGED <<hook_current, hook_impure, hook_created, hook_counter>>
      BY <1>7 DEF Hooks!Pass, Hooks!SysTick, Hooks!Nobody
    <2>2. CycleWrap \div 2 \in Int /\ CycleWrap \div 2 < CycleWrap
      BY HookConstants
    <2>3. /\ hook_cycles \in Int /\ hook_executed \in Int /\ HookRead \in Int /\ HookRead' = HookRead
          /\ hook_counter.since \in Int /\ hook_counter.elapsed_cycles \in Int
          /\ hook_counter.execution_cycles \in Int /\ hook_counter.running \in BOOLEAN
          /\ HookRead = hook_counter.since + hook_counter.elapsed_cycles
      BY <1>0, <2>1 DEF HookTypes, HookRead
    <2>4. hook_cycles' < HookRead + CycleWrap
      BY <2>1, <2>2, <2>3, HookConstants
    <2>5. HookCounter'
      BY <1>0, <2>1, <2>3, <2>4 DEF HookCounter
    <2>6. HookTypes' /\ HookContext'
      BY <1>0, <2>1, <2>3 DEF HookTypes, HookContext
    <2> QED BY <2>5, <2>6 DEF HookInv
  <1> QED
    BY <1>1, <1>2, <1>3, <1>4, <1>5, <1>6, <1>7 DEF Hooks!Next

\* runtime_cpu_clock_ticks multiplies after it has divided, without a loss.
LEMMA HookTicks ==
    ASSUME NEW spent \in Int
    PROVE  Hooks!runtime_cpu_clock_ticks(spent) = (spent * Rate) \div Frequency
  <1>1. PICK q \in Int, r \in 0 .. Frequency - 1 :
           spent = Frequency * q + r /\ spent \div Frequency = q /\ spent % Frequency = r
    BY HookConstants, DivParts, ZenonT(30)
  <1>2. PICK a \in Int : a = r * Rate
    BY HookConstants
  <1>3. PICK s \in Int, u \in 0 .. Frequency - 1 : a = Frequency * s + u /\ a \div Frequency = s
    BY HookConstants, DivParts, ZenonT(30)
  <1>6. spent * Rate = Frequency * (q * Rate + s) + u
    <2>1. spent * Rate = (Frequency * q) * Rate + a
      BY <1>1, <1>2, HookConstants
    <2>2. (Frequency * q) * Rate = Frequency * (q * Rate)
      BY HookConstants
    <2>3. Frequency * (q * Rate + s) = Frequency * (q * Rate) + Frequency * s
      BY HookConstants
    <2>4. /\ Frequency * (q * Rate) \in Int /\ Frequency * s \in Int /\ u \in Int
          /\ Frequency * (q * Rate + s) \in Int
      BY HookConstants
    <2> QED BY <1>3, <2>1, <2>2, <2>3, <2>4
  <1>7. q * Rate + s \in Int
    BY HookConstants
  <1>8. (spent * Rate) \div Frequency = q * Rate + s
    BY <1>6, <1>7, HookConstants, DivUnique
  <1> QED BY <1>1, <1>2, <1>3, <1>8 DEF Hooks!runtime_cpu_clock_ticks

LEMMA HookSafe == HookInv => Hooks!ThreadsHaveTheirContext
  <1> SUFFICES ASSUME HookInv PROVE Hooks!ThreadsHaveTheirContext
    OBVIOUS
  <1>1. HookTypes /\ HookContext /\ HookCounter
    BY DEF HookInv
  <1>2. /\ hook_cycles \in Int /\ hook_executed \in Int /\ HookRead \in Int
        /\ hook_counter.since \in Int /\ hook_counter.elapsed_cycles \in Int
        /\ hook_counter.running \in BOOLEAN /\ hook_counter.execution_cycles \in Int
        /\ HookRead = hook_counter.since + hook_counter.elapsed_cycles
    BY <1>1 DEF HookTypes, HookRead
  <1>3. Hooks!Pending = hook_cycles - HookRead
    <2>1. /\ HookRead <= hook_cycles /\ hook_cycles < HookRead + CycleWrap
          /\ hook_counter.last_cycle = HookRead % CycleWrap /\ CycleWrap \in Nat \ {0}
      BY <1>1, HookConstants DEF HookCounter
    <2>2. HookRead <= hook_cycles /\ hook_cycles < HookRead + CycleWrap /\ CycleWrap \in Nat \ {0}
      BY <2>1
    <2>3. (hook_cycles - (HookRead % CycleWrap)) % CycleWrap = hook_cycles - HookRead
      BY <1>2, <2>2, WrappedDifference, ZenonT(30)
    <2>5. hook_counter.last_cycle = HookRead % CycleWrap
      BY <2>1
    <2>4. (hook_cycles - hook_counter.last_cycle) % CycleWrap = hook_cycles - HookRead
      BY <2>5, <2>3, ZenonT(30)
    <2> QED BY <2>4, ZenonT(30) DEF Hooks!Pending
  <1>4. hook_counter.elapsed_cycles + Hooks!Pending = hook_cycles - hook_counter.since
    BY <1>2, <1>3
  <1>5. hook_counter.execution_cycles + (IF hook_counter.running THEN Hooks!Pending ELSE 0) = hook_executed
    BY <1>1, <1>2, <1>3 DEF HookCounter
  <1>6. hook_impure = IF hook_current = Hooks!Nobody THEN Hooks!Global ELSE hook_current
    BY <1>1 DEF HookContext, Hooks!Nobody, Hooks!Global
  <1> QED BY <1>2, <1>4, <1>5, <1>6, HookTicks DEF Hooks!ThreadsHaveTheirContext

-----------------------------------------------------------------------------
(* filesystem.cpp: directory streams.                                       *)

StreamSlots == 1 .. MaxStreams
StreamType == [allocated : BOOLEAN, position : Int, entries : Seq(Names)]
DirTypes ==
    /\ dir_directory \in [1 .. DirectorySize -> Names \cup {"none"}]
    /\ dir_directories \in [StreamSlots -> StreamType]
    /\ dir_cursor \in Nat
    /\ dir_held \subseteq StreamSlots
    /\ dir_kept \in [StreamSlots -> SUBSET Names]
    /\ dir_reported \in [StreamSlots -> Seq(Names \cup {"none"})]
DirNames == \A i, j \in 1 .. DirectorySize :
    dir_directory[i] = dir_directory[j] /\ i # j => dir_directory[i] = "none"
\* What a stream has reported is what its entries say.
DirReported(s) ==
    /\ Len(dir_reported[s]) <= Len(dir_directories[s].entries)
    /\ \A i \in 1 .. Len(dir_reported[s]) :
          dir_reported[s][i] # "none" => dir_reported[s][i] = dir_directories[s].entries[i]
DirDistinct(s) == \A i, j \in 1 .. Len(dir_directories[s].entries) :
    i # j => dir_directories[s].entries[i] # dir_directories[s].entries[j]
InEntries(s, n) == \E i \in 1 .. Len(dir_directories[s].entries) : dir_directories[s].entries[i] = n
\* The stream that opendir is filling has the names before the cursor.
DirFilling(s) ==
    /\ dir_cursor # 0
    /\ \A i \in 1 .. Len(dir_directories[s].entries) :
          \E p \in 1 .. dir_cursor - 1 : p \in 1 .. DirectorySize /\ dir_directory[p] = dir_directories[s].entries[i]
    /\ \A n \in dir_kept[s] : InEntries(s, n) \/ \E p \in dir_cursor .. DirectorySize : dir_directory[p] = n
    /\ \A u \in StreamSlots \ {s} : dir_directories[u].allocated => u \in dir_held
DirStream(s) ==
    /\ s \in dir_held => dir_directories[s].allocated /\ \A n \in dir_kept[s] : InEntries(s, n)
    /\ dir_directories[s].allocated =>
          DirDistinct(s) /\ DirReported(s) /\ (s \notin dir_held => DirFilling(s))
DirInv == DirTypes /\ DirNames /\ \A s \in StreamSlots : DirStream(s)

LEMMA DirConstants == MaxStreams \in Nat /\ DirectorySize \in Nat /\ "none" \notin Names
  BY ConstantsAssumption DEF ConstantsAssumption

LEMMA DirInitial == Streams!Init => DirInv
  <1> SUFFICES ASSUME Streams!Init PROVE DirInv
    OBVIOUS
  <1>0. <<>> \in Seq(Names) /\ <<>> \in Seq(Names \cup {"none"})
    OBVIOUS
  <1>1. dir_directories = [s \in StreamSlots |-> [allocated |-> FALSE, position |-> 0, entries |-> <<>>]]
    BY DEF Streams!Init, Streams!Unused, StreamSlots
  <1>2. dir_directories \in [StreamSlots -> StreamType]
    BY <1>0, <1>1 DEF StreamType
  <1>3. DirTypes
    BY <1>0, <1>2 DEF Streams!Init, DirTypes, Streams!None, StreamSlots
  <1>4. DirNames
    BY DEF Streams!Init, DirNames, Streams!None
  <1>5. ASSUME NEW s \in StreamSlots PROVE DirStream(s)
    <2>1. ~dir_directories[s].allocated
      BY <1>1
    <2>2. s \notin dir_held
      BY DEF Streams!Init
    <2> QED BY <2>1, <2>2 DEF DirStream
  <1> QED BY <1>3, <1>4, <1>5 DEF DirInv

LEMMA DirSafe == DirInv => Streams!StreamsAreComplete
  <1> SUFFICES ASSUME DirInv PROVE Streams!StreamsAreComplete
    OBVIOUS
  <1>0. DirTypes /\ \A s \in StreamSlots : DirStream(s)
    BY DEF DirInv
  <1>1. dir_cursor = 0 => Streams!Opening = {}
    BY <1>0 DEF DirStream, DirFilling, Streams!Opening, StreamSlots
  <1>2. ASSUME NEW s \in dir_held
        PROVE  /\ \A i, j \in DOMAIN dir_reported[s] :
                     dir_reported[s][i] = dir_reported[s][j] /\ i # j => dir_reported[s][i] = "none"
               /\ Len(dir_reported[s]) = Len(dir_directories[s].entries)
                     /\ "none" \notin Streams!Range(dir_reported[s])
                        => dir_kept[s] \subseteq Streams!Range(dir_reported[s])
    <2>1. /\ s \in StreamSlots /\ DirDistinct(s) /\ DirReported(s)
          /\ \A n \in dir_kept[s] : InEntries(s, n)
      BY <1>0 DEF DirTypes, DirStream
    <2>2. /\ dir_reported[s] \in Seq(Names \cup {"none"})
          /\ dir_directories[s].entries \in Seq(Names)
      BY <1>0, <2>1 DEF DirTypes, StreamType
    <2>3. DOMAIN dir_reported[s] = 1 .. Len(dir_reported[s]) /\ Len(dir_reported[s]) \in Nat
          /\ Len(dir_directories[s].entries) \in Nat
      BY <2>2
    <2>4. \A i, j \in DOMAIN dir_reported[s] :
              dir_reported[s][i] = dir_reported[s][j] /\ i # j => dir_reported[s][i] = "none"
      BY <2>1, <2>3 DEF DirDistinct, DirReported
    <2>5. ASSUME Len(dir_reported[s]) = Len(dir_directories[s].entries),
                 "none" \notin Streams!Range(dir_reported[s]), NEW n \in dir_kept[s]
          PROVE  n \in Streams!Range(dir_reported[s])
      <3>1. PICK i \in 1 .. Len(dir_directories[s].entries) : dir_directories[s].entries[i] = n
        BY <2>1 DEF InEntries
      <3>2. i \in DOMAIN dir_reported[s] /\ dir_reported[s][i] # "none"
        BY <2>3, <2>5 DEF Streams!Range
      <3>3. dir_reported[s][i] = n
        BY <2>1, <2>3, <3>1, <3>2 DEF DirReported
      <3> QED BY <3>2, <3>3 DEF Streams!Range
    <2> QED BY <2>4, <2>5
  <1> QED BY <1>1, <1>2 DEF Streams!StreamsAreComplete, Streams!Locks, Streams!Entries, Streams!None

\* A slot whose stream, reports and ghost stay, when the directory and the rest do too.
LEMMA DirStays ==
    ASSUME DirInv, NEW s \in StreamSlots,
           dir_directories'[s].entries = dir_directories[s].entries,
           dir_directories'[s].allocated <=> dir_directories[s].allocated,
           dir_reported'[s] = dir_reported[s], dir_kept'[s] \subseteq dir_kept[s],
           s \in dir_held' <=> s \in dir_held,
           dir_directories[s].allocated => s \in dir_held
    PROVE  DirStream(s)'
  BY DEF DirInv, DirStream, DirDistinct, DirReported, InEntries

LEMMA DirOpen == DirInv /\ Streams!opendir => DirInv'
  <1> SUFFICES ASSUME DirInv, Streams!opendir PROVE DirInv'
    OBVIOUS
  <1>0. DirTypes /\ DirNames /\ \A s \in StreamSlots : DirStream(s)
    BY DEF DirInv
  <1>1. PICK s \in Streams!FreeSlots :
          /\ dir_directories' = [dir_directories EXCEPT ![s] = [allocated |-> TRUE, position |-> 0, entries |-> <<>>]]
          /\ dir_kept' = [dir_kept EXCEPT ![s] = Streams!Listing]
          /\ dir_reported' = [dir_reported EXCEPT ![s] = <<>>]
    BY DEF Streams!opendir, Streams!Unused
  <1>2. dir_cursor = 0 /\ dir_cursor' = 1 /\ UNCHANGED <<dir_directory, dir_held>>
    BY DEF Streams!opendir, Streams!Locks
  <1>3. s \in StreamSlots /\ ~dir_directories[s].allocated /\ s \notin dir_held
    BY <1>0, <1>1 DEF Streams!FreeSlots, StreamSlots, DirStream
  <1>4. /\ [allocated |-> TRUE, position |-> 0, entries |-> <<>>] \in StreamType
        /\ Streams!Listing \in SUBSET Names /\ <<>> \in Seq(Names \cup {"none"})
    BY <1>0 DEF DirTypes, StreamType, Streams!Listing, Streams!None
  <1>5. DirTypes'
    BY <1>0, <1>1, <1>2, <1>3, <1>4 DEF DirTypes
  <1>6. /\ dir_directories'[s] = [allocated |-> TRUE, position |-> 0, entries |-> <<>>]
        /\ dir_kept'[s] = Streams!Listing /\ dir_reported'[s] = <<>>
        /\ \A u \in StreamSlots \ {s} : /\ dir_directories'[u] = dir_directories[u]
                                        /\ dir_kept'[u] = dir_kept[u] /\ dir_reported'[u] = dir_reported[u]
    BY <1>0, <1>1, <1>3 DEF DirTypes
  <1>7. \A u \in StreamSlots : dir_directories[u].allocated => u \in dir_held
    BY <1>0, <1>2 DEF DirStream, DirFilling
  <1>8. ASSUME NEW u \in StreamSlots \ {s} PROVE DirStream(u)'
    BY <1>2, <1>6, <1>7, DirStays
  <1>9. DirStream(s)'
    <2>1. dir_directories'[s].entries = <<>> /\ dir_directories'[s].allocated
      BY <1>6
    <2>2. DirDistinct(s)' /\ DirReported(s)'
      BY <1>6, <2>1 DEF DirDistinct, DirReported
    <2>3. DirFilling(s)'
      BY <1>2, <1>6, <1>7, <2>1 DEF DirFilling, InEntries, Streams!Listing, Streams!None
    <2> QED BY <1>2, <1>3, <2>1, <2>2, <2>3 DEF DirStream
  <1>10. DirNames'
    BY <1>0, <1>2 DEF DirNames
  <1> QED BY <1>5, <1>8, <1>9, <1>10 DEF DirInv

LEMMA DirFind == DirInv /\ Streams!FindEntry => DirInv'
  <1> SUFFICES ASSUME DirInv, Streams!FindEntry PROVE DirInv'
    OBVIOUS
  <1>0. DirTypes /\ DirNames /\ \A s \in StreamSlots : DirStream(s)
    BY DEF DirInv
  <1>1. PICK s \in Streams!Opening :
          dir_directories' = IF dir_directory[dir_cursor] = "none" THEN dir_directories
                             ELSE [dir_directories EXCEPT ![s].entries = Append(@, dir_directory[dir_cursor])]
    BY DEF Streams!FindEntry, Streams!None
  <1>2. /\ dir_cursor \in 1 .. DirectorySize /\ dir_cursor' = dir_cursor + 1
        /\ UNCHANGED <<dir_directory, dir_held, dir_kept, dir_reported>>
    BY DEF Streams!FindEntry
  <1>3. s \in StreamSlots /\ dir_directories[s].allocated /\ s \notin dir_held
    BY <1>1 DEF Streams!Opening, StreamSlots
  <1>4. DirDistinct(s) /\ DirReported(s) /\ DirFilling(s)
    BY <1>0, <1>3 DEF DirStream
  <1>5. \A u \in StreamSlots \ {s} : dir_directories[u].allocated => u \in dir_held
    BY <1>4 DEF DirFilling
  <1>6. DirNames'
    BY <1>0, <1>2 DEF DirNames
  <1>7. CASE dir_directory[dir_cursor] = "none"
    <2>1. dir_directories' = dir_directories
      BY <1>1, <1>7
    <2>2. DirTypes'
      BY <1>0, <1>2, <2>1 DEF DirTypes
    <2>3. ASSUME NEW u \in StreamSlots \ {s} PROVE DirStream(u)'
      BY <1>2, <1>5, <2>1, DirStays
    <2>4. DirDistinct(s)' /\ DirReported(s)'
      BY <1>2, <1>4, <2>1 DEF DirDistinct, DirReported
    <2>5. DirFilling(s)'
      <3>1. \A n \in dir_kept[s] : n # "none"
        BY <1>0, <1>3, DirConstants DEF DirTypes
      <3>2. \A i \in 1 .. Len(dir_directories[s].entries) :
                \E p \in 1 .. dir_cursor' - 1 : p \in 1 .. DirectorySize /\ dir_directory[p] = dir_directories[s].entries[i]
        BY <1>2, <1>4 DEF DirFilling
      <3>3. \A n \in dir_kept[s] : InEntries(s, n) \/ \E p \in dir_cursor' .. DirectorySize : dir_directory[p] = n
        BY <1>2, <1>4, <1>7, <3>1 DEF DirFilling
      <3> QED BY <1>2, <1>5, <2>1, <3>2, <3>3 DEF DirFilling, InEntries
    <2>6. DirStream(s)'
      BY <1>2, <1>3, <2>4, <2>5 DEF DirStream
    <2> QED BY <1>6, <2>2, <2>3, <2>6 DEF DirInv
  <1>8. CASE dir_directory[dir_cursor] # "none"
    <2>1. PICK name \in Names : name = dir_directory[dir_cursor]
      BY <1>0, <1>2, <1>8 DEF DirTypes
    <2>a. PICK old : old = dir_directories[s].entries
      OBVIOUS
    <2>b. PICK new : new = Append(old, name)
      OBVIOUS
    <2>2. dir_directories[s] \in StreamType /\ old \in Seq(Names)
      BY <1>0, <1>3, <2>a DEF DirTypes, StreamType
    <2>5. /\ new \in Seq(Names) /\ Len(old) \in Nat /\ Len(new) = Len(old) + 1 /\ new[Len(old) + 1] = name
          /\ \A i \in 1 .. Len(old) : new[i] = old[i]
      BY <2>2, <2>b
    <2>c. dir_directories' = [dir_directories EXCEPT ![s].entries = Append(@, name)]
      BY <1>1, <1>8, <2>1, ZenonT(30)
    <2>3. /\ dir_directories' = [dir_directories EXCEPT ![s] = [dir_directories[s] EXCEPT !.entries = new]]
          /\ [dir_directories[s] EXCEPT !.entries = new] \in StreamType
      BY <2>2, <2>5, <2>a, <2>b, <2>c DEF StreamType
    <2>4. /\ dir_directories' \in [StreamSlots -> StreamType]
          /\ dir_directories'[s].entries = new
          /\ dir_directories'[s].allocated <=> dir_directories[s].allocated
          /\ \A u \in StreamSlots \ {s} : dir_directories'[u] = dir_directories[u]
      BY <1>0, <1>3, <2>2, <2>3 DEF DirTypes, StreamType
    <2>6. DirTypes'
      BY <1>0, <1>2, <2>4 DEF DirTypes
    <2>7. ASSUME NEW u \in StreamSlots \ {s} PROVE DirStream(u)'
      BY <1>2, <1>5, <2>4, DirStays
    <2>8. \A i \in 1 .. Len(old) : \E p \in 1 .. dir_cursor - 1 : p \in 1 .. DirectorySize /\ dir_directory[p] = old[i]
      BY <1>4, <2>a DEF DirFilling
    <2>9. \A i \in 1 .. Len(old) : old[i] # name
      BY <1>0, <1>2, <1>8, <2>1, <2>8 DEF DirNames
    <2>10. DirDistinct(s)'
      <3>1. \A i, j \in 1 .. Len(old) : i # j => old[i] # old[j]
        BY <1>4, <2>a DEF DirDistinct
      <3>2. \A i, j \in 1 .. Len(new) : i # j => new[i] # new[j]
        BY <2>5, <2>9, <3>1
      <3> QED BY <2>4, <3>2 DEF DirDistinct
    <2>11. DirReported(s)'
      <3>1. dir_reported[s] \in Seq(Names \cup {"none"}) /\ Len(dir_reported[s]) \in Nat
        BY <1>0, <1>3 DEF DirTypes
      <3>2. Len(dir_reported[s]) <= Len(old) /\ \A i \in 1 .. Len(dir_reported[s]) :
                dir_reported[s][i] # "none" => dir_reported[s][i] = old[i]
        BY <1>4, <2>a DEF DirReported
      <3>3. Len(dir_reported[s]) <= Len(new) /\ \A i \in 1 .. Len(dir_reported[s]) :
                dir_reported[s][i] # "none" => dir_reported[s][i] = new[i]
        BY <2>5, <3>1, <3>2
      <3> QED BY <1>2, <2>4, <3>3 DEF DirReported
    <2>12. DirFilling(s)'
      <3>1. \A i \in 1 .. Len(new) :
                \E p \in 1 .. dir_cursor' - 1 : p \in 1 .. DirectorySize /\ dir_directory[p] = new[i]
        BY <1>2, <2>1, <2>5, <2>8
      <3>2. ASSUME NEW n \in dir_kept[s]
            PROVE  (\E i \in 1 .. Len(new) : new[i] = n) \/ \E p \in dir_cursor' .. DirectorySize : dir_directory[p] = n
        <4>1. (\E i \in 1 .. Len(old) : old[i] = n) \/ \E p \in dir_cursor .. DirectorySize : dir_directory[p] = n
          BY <1>4, <2>a DEF DirFilling, InEntries
        <4>2. CASE \E i \in 1 .. Len(old) : old[i] = n
          BY <2>5, <4>2
        <4>3. CASE \E p \in dir_cursor .. DirectorySize : dir_directory[p] = n
          <5>1. PICK p \in dir_cursor .. DirectorySize : dir_directory[p] = n
            BY <4>3
          <5>2. CASE p = dir_cursor
            BY <2>1, <2>5, <5>1, <5>2
          <5>3. CASE p # dir_cursor
            BY <1>2, <5>1, <5>3
          <5> QED BY <5>2, <5>3
        <4> QED BY <4>1, <4>2, <4>3
      <3> QED BY <1>2, <1>5, <2>4, <3>1, <3>2 DEF DirFilling, InEntries
    <2>13. DirStream(s)'
      BY <1>2, <1>3, <2>4, <2>10, <2>11, <2>12 DEF DirStream
    <2> QED BY <1>6, <2>6, <2>7, <2>13 DEF DirInv
  <1> QED BY <1>7, <1>8

LEMMA DirReturns == DirInv /\ Streams!OpendirReturns => DirInv'
  <1> SUFFICES ASSUME DirInv, Streams!OpendirReturns PROVE DirInv'
    OBVIOUS
  <1>0. DirTypes /\ DirNames /\ \A s \in StreamSlots : DirStream(s)
    BY DEF DirInv
  <1>1. Cardinality(1 .. DirectorySize) = DirectorySize
    BY DirConstants, FS_Interval
  <1>a. Streams!Cardinality(1 .. DirectorySize) = Cardinality(1 .. DirectorySize)
    BY ZenonT(30) DEF Streams!Cardinality, Cardinality
  <1>2. /\ dir_cursor > DirectorySize
        /\ dir_held' = dir_held \cup Streams!Opening /\ dir_cursor' = 0
        /\ UNCHANGED <<dir_directory, dir_directories, dir_kept, dir_reported>>
    BY <1>1, <1>a DEF Streams!OpendirReturns
  <1>3. DirTypes' /\ DirNames'
    BY <1>0, <1>2 DEF DirTypes, DirNames, Streams!Opening, StreamSlots
  <1>4. ASSUME NEW s \in StreamSlots PROVE DirStream(s)'
    <2>1. CASE s \in dir_held \/ ~dir_directories[s].allocated
      <3>1. dir_directories[s].allocated => s \in dir_held
        BY <2>1
      <3>2. s \in dir_held' <=> s \in dir_held
        BY <1>2, <2>1 DEF Streams!Opening
      <3> QED BY <1>2, <3>1, <3>2, DirStays
    <2>2. CASE dir_directories[s].allocated /\ s \notin dir_held
      <3>1. DirDistinct(s) /\ DirReported(s) /\ DirFilling(s) /\ s \in dir_held'
        BY <1>0, <1>2, <2>2 DEF DirStream, Streams!Opening, StreamSlots
      <3>2. \A n \in dir_kept[s] : InEntries(s, n)
        BY <1>0, <1>2, <3>1, DirConstants DEF DirFilling, DirTypes
      <3> QED BY <1>2, <2>2, <3>1, <3>2 DEF DirStream, DirDistinct, DirReported, InEntries
    <2> QED BY <2>1, <2>2
  <1> QED BY <1>3, <1>4 DEF DirInv

\* Discarded and closedir: a slot becomes unused.
LEMMA DirDiscards ==
    ASSUME DirInv, NEW s \in StreamSlots, \A u \in StreamSlots \ {s} : dir_directories[u].allocated => u \in dir_held,
           dir_directories' = [dir_directories EXCEPT ![s] = Streams!Unused],
           dir_held' = dir_held \ {s}, dir_cursor' \in Nat,
           UNCHANGED <<dir_directory, dir_kept, dir_reported>>
    PROVE  DirInv'
  <1>0. DirTypes /\ DirNames /\ \A u \in StreamSlots : DirStream(u)
    BY DEF DirInv
  <1>1. Streams!Unused \in StreamType /\ ~Streams!Unused.allocated
    <2>1. <<>> \in Seq(Names)
      OBVIOUS
    <2> QED BY <2>1 DEF Streams!Unused, StreamType
  <1>2. DirTypes' /\ DirNames'
    BY <1>0, <1>1 DEF DirTypes, DirNames
  <1>3. /\ ~dir_directories'[s].allocated
        /\ \A u \in StreamSlots \ {s} : dir_directories'[u] = dir_directories[u]
    BY <1>0, <1>1 DEF DirTypes
  <1>4. DirStream(s)'
    BY <1>3 DEF DirStream
  <1>5. ASSUME NEW u \in StreamSlots \ {s} PROVE DirStream(u)'
    BY <1>3, DirStays
  <1> QED BY <1>2, <1>4, <1>5 DEF DirInv

LEMMA DirRead ==
    ASSUME DirInv, NEW s \in StreamSlots, Streams!readdir(s)
    PROVE  /\ DirInv'
           /\ dir_held' = dir_held
           /\ \A u \in StreamSlots : \A i \in 1 .. Len(dir_reported[u]) :
                 dir_reported[u][i] # "none" => dir_reported'[u][i] = dir_reported[u][i]
  <1>0. DirTypes /\ DirNames /\ \A u \in StreamSlots : DirStream(u)
    BY DEF DirInv
  <1>1. /\ dir_cursor = 0 /\ s \in dir_held
        /\ dir_directories[s].position < Len(dir_directories[s].entries)
        /\ dir_directories' = [dir_directories EXCEPT ![s].position = @ + 1]
        /\ UNCHANGED <<dir_directory, dir_cursor, dir_held, dir_kept>>
    BY DEF Streams!readdir, Streams!Locks, Streams!Entries
  <1>2. DirDistinct(s) /\ DirReported(s) /\ dir_directories[s].allocated /\ \A n \in dir_kept[s] : InEntries(s, n)
    BY <1>0, <1>1 DEF DirStream
  <1>3. PICK old : old = dir_reported[s]
    OBVIOUS
  <1>4. PICK entries : entries = dir_directories[s].entries
    OBVIOUS
  <1>5. PICK next : next = dir_directories[s].position + 1
    OBVIOUS
  <1>6. PICK new : new = [i \in 1 .. (IF next > Len(old) THEN next ELSE Len(old)) |->
                            IF i = next THEN entries[next] ELSE IF i <= Len(old) THEN old[i] ELSE "none"]
    OBVIOUS
  <1>7. dir_reported' = [dir_reported EXCEPT ![s] = new]
    BY <1>3, <1>4, <1>5, <1>6 DEF Streams!readdir, Streams!Entries, Streams!None
  <1>8. /\ dir_directories[s] \in StreamType /\ entries \in Seq(Names)
        /\ old \in Seq(Names \cup {"none"}) /\ next \in Int
    BY <1>0, <1>3, <1>4, <1>5 DEF DirTypes, StreamType
  <1>9. Len(old) \in Nat /\ Len(entries) \in Nat /\ next <= Len(entries)
    BY <1>1, <1>4, <1>5, <1>8 DEF StreamType
  <1>10. PICK n \in Nat : n = IF next > Len(old) THEN next ELSE Len(old)
    BY <1>8, <1>9
  <1>11. \A i \in 1 .. n : new[i] = IF i = next THEN entries[next] ELSE IF i <= Len(old) THEN old[i] ELSE "none"
    BY <1>6, <1>10
  <1>12. \A i \in 1 .. n : new[i] \in Names \cup {"none"}
    BY <1>8, <1>9, <1>11
  <1>13. new \in [1 .. n -> Names \cup {"none"}]
    BY <1>6, <1>10, <1>12
  <1>14. new \in Seq(Names \cup {"none"}) /\ Len(new) = n
    BY <1>13
  <1>15. Len(old) <= Len(entries) /\ \A i \in 1 .. Len(old) : old[i] # "none" => old[i] = entries[i]
    BY <1>2, <1>3, <1>4 DEF DirReported
  <1>16. Len(new) <= Len(entries) /\ \A i \in 1 .. Len(new) : new[i] # "none" => new[i] = entries[i]
    BY <1>8, <1>9, <1>10, <1>11, <1>14, <1>15
  <1>17. \A i \in 1 .. Len(old) : old[i] # "none" => new[i] = old[i]
    BY <1>8, <1>9, <1>10, <1>11, <1>15
  <1>18. /\ dir_reported' \in [StreamSlots -> Seq(Names \cup {"none"})]
         /\ dir_reported'[s] = new /\ \A u \in StreamSlots \ {s} : dir_reported'[u] = dir_reported[u]
    BY <1>0, <1>7, <1>14 DEF DirTypes
  <1>19. /\ dir_directories' \in [StreamSlots -> StreamType]
         /\ dir_directories'[s].entries = entries /\ dir_directories'[s].allocated
         /\ \A u \in StreamSlots \ {s} : dir_directories'[u] = dir_directories[u]
    <2>1. /\ dir_directories' = [dir_directories EXCEPT ![s] = [dir_directories[s] EXCEPT !.position = next]]
          /\ [dir_directories[s] EXCEPT !.position = next] \in StreamType
      BY <1>1, <1>5, <1>8 DEF StreamType
    <2> QED BY <1>0, <1>2, <1>4, <1>8, <2>1 DEF DirTypes, StreamType
  <1>20. DirTypes' /\ DirNames'
    BY <1>0, <1>1, <1>18, <1>19 DEF DirTypes, DirNames
  <1>21. \A u \in StreamSlots : dir_directories[u].allocated => u \in dir_held
    BY <1>0, <1>1 DEF DirStream, DirFilling
  <1>22. ASSUME NEW u \in StreamSlots \ {s} PROVE DirStream(u)'
    BY <1>1, <1>18, <1>19, <1>21, DirStays
  <1>23. DirReported(s)'
    BY <1>16, <1>18, <1>19 DEF DirReported
  <1>24. DirDistinct(s)' /\ \A m \in dir_kept'[s] : InEntries(s, m)'
    BY <1>1, <1>2, <1>4, <1>19 DEF DirDistinct, InEntries
  <1>25. DirStream(s)'
    BY <1>1, <1>19, <1>23, <1>24 DEF DirStream
  <1> QED BY <1>1, <1>3, <1>17, <1>18, <1>20, <1>22, <1>25 DEF DirInv

LEMMA DirSeek ==
    ASSUME DirInv, NEW s \in StreamSlots, NEW position \in Int, Streams!seekdir(s, position)
    PROVE  DirInv'
  <1>0. DirTypes /\ DirNames /\ \A u \in StreamSlots : DirStream(u)
    BY DEF DirInv
  <1>1. /\ dir_cursor = 0 /\ s \in dir_held
        /\ dir_directories' = [dir_directories EXCEPT ![s].position = position]
        /\ UNCHANGED <<dir_directory, dir_cursor, dir_held, dir_kept, dir_reported>>
    BY DEF Streams!seekdir, Streams!Locks
  <1>2. /\ dir_directories' \in [StreamSlots -> StreamType]
        /\ \A u \in StreamSlots : /\ dir_directories'[u].entries = dir_directories[u].entries
                                  /\ dir_directories'[u].allocated <=> dir_directories[u].allocated
    <2>1. dir_directories[s] \in StreamType
      BY <1>0 DEF DirTypes
    <2>2. /\ dir_directories' = [dir_directories EXCEPT ![s] = [dir_directories[s] EXCEPT !.position = position]]
          /\ [dir_directories[s] EXCEPT !.position = position] \in StreamType
      BY <1>1, <2>1 DEF StreamType
    <2> QED BY <1>0, <2>1, <2>2 DEF DirTypes, StreamType
  <1>3. DirTypes' /\ DirNames'
    BY <1>0, <1>1, <1>2 DEF DirTypes, DirNames
  <1>4. \A u \in StreamSlots : dir_directories[u].allocated => u \in dir_held
    BY <1>0, <1>1 DEF DirStream, DirFilling
  <1>5. ASSUME NEW u \in StreamSlots PROVE DirStream(u)'
    BY <1>1, <1>2, <1>4, DirStays
  <1> QED BY <1>3, <1>5 DEF DirInv

\* Creation and removal of names, which wait for an opendir to end.
LEMMA DirChange == DirInv /\ (\E n \in Names : Streams!Create(n) \/ Streams!Unlink(n)) => DirInv'
  <1> SUFFICES ASSUME DirInv, NEW n \in Names, Streams!Create(n) \/ Streams!Unlink(n) PROVE DirInv'
    OBVIOUS
  <1>0. DirTypes /\ DirNames /\ \A s \in StreamSlots : DirStream(s)
    BY DEF DirInv
  <1>1. dir_cursor = 0 /\ UNCHANGED <<dir_directories, dir_cursor, dir_held, dir_reported>>
    BY DEF Streams!Create, Streams!Unlink, Streams!Change, Streams!Locks
  <1>2. PICK i \in 1 .. DirectorySize, name \in Names \cup {"none"} :
           /\ dir_directory' = [dir_directory EXCEPT ![i] = name]
           /\ name = "none" \/ \A p \in 1 .. DirectorySize : dir_directory[p] # name
    BY DirConstants DEF Streams!Create, Streams!Unlink, Streams!None, Streams!Listing
  <1>3. /\ dir_directory' \in [1 .. DirectorySize -> Names \cup {"none"}]
        /\ dir_directory'[i] = name /\ \A p \in (1 .. DirectorySize) \ {i} : dir_directory'[p] = dir_directory[p]
    BY <1>0, <1>2 DEF DirTypes
  <1>4. DirNames'
    BY <1>0, <1>2, <1>3 DEF DirNames
  <1>5. /\ dir_kept' \in [StreamSlots -> SUBSET Names]
        /\ \A s \in StreamSlots : dir_kept'[s] \subseteq dir_kept[s]
    BY <1>0 DEF Streams!Create, Streams!Unlink, DirTypes, StreamSlots
  <1>6. DirTypes'
    BY <1>0, <1>1, <1>3, <1>5 DEF DirTypes
  <1>7. \A u \in StreamSlots : dir_directories[u].allocated => u \in dir_held
    BY <1>0, <1>1 DEF DirStream, DirFilling
  <1>8. ASSUME NEW u \in StreamSlots PROVE DirStream(u)'
    BY <1>1, <1>5, <1>7, DirStays
  <1> QED BY <1>4, <1>6, <1>8 DEF DirInv

LEMMA DirStep == DirInv /\ [Streams!Next]_dir_vars => DirInv'
  <1> SUFFICES ASSUME DirInv, [Streams!Next]_dir_vars PROVE DirInv'
    OBVIOUS
  <1>0. DirTypes /\ DirNames /\ \A u \in StreamSlots : DirStream(u)
    BY DEF DirInv
  <1>1. CASE UNCHANGED dir_vars
    <2>1. \A s \in StreamSlots : DirStream(s)'
      BY <1>0, <1>1 DEF DirStream, DirDistinct, DirReported, DirFilling, InEntries, dir_vars
    <2> QED BY <1>0, <1>1, <2>1 DEF DirInv, DirTypes, DirNames, dir_vars
  <1>2. CASE Streams!opendir \/ Streams!FindEntry \/ Streams!OpendirReturns
    BY <1>2, DirOpen, DirFind, DirReturns
  <1>3. CASE Streams!OpendirFails
    <2>1. PICK s \in Streams!Opening : dir_directories' = [dir_directories EXCEPT ![s] = Streams!Unused]
      BY <1>3 DEF Streams!OpendirFails, Streams!Discarded
    <2>2. s \in StreamSlots /\ dir_directories[s].allocated /\ s \notin dir_held
      BY <2>1 DEF Streams!Opening, StreamSlots
    <2>3. \A u \in StreamSlots \ {s} : dir_directories[u].allocated => u \in dir_held
      BY <1>0, <2>2 DEF DirStream, DirFilling
    <2>4. dir_held' = dir_held \ {s} /\ dir_cursor' \in Nat /\ UNCHANGED <<dir_directory, dir_kept, dir_reported>>
      BY <1>3, <2>2 DEF Streams!OpendirFails
    <2> QED BY <2>1, <2>2, <2>3, <2>4, DirDiscards
  <1>4. ASSUME NEW s \in StreamSlots, Streams!readdir(s) PROVE DirInv'
    BY <1>4, DirRead
  <1>5. ASSUME NEW s \in StreamSlots, Streams!closedir(s) PROVE DirInv'
    <2>1. /\ dir_cursor = 0 /\ dir_cursor' = 0
          /\ dir_directories' = [dir_directories EXCEPT ![s] = Streams!Unused]
          /\ dir_held' = dir_held \ {s} /\ UNCHANGED <<dir_directory, dir_kept, dir_reported>>
      BY <1>5 DEF Streams!closedir, Streams!Locks
    <2>2. \A u \in StreamSlots \ {s} : dir_directories[u].allocated => u \in dir_held
      BY <1>0, <2>1 DEF DirStream, DirFilling
    <2>3. dir_cursor' \in Nat
      BY <2>1
    <2> QED BY <2>1, <2>2, <2>3, DirDiscards
  <1>6. ASSUME NEW s \in StreamSlots, NEW p \in 0 .. MaxSeek, Streams!seekdir(s, p) PROVE DirInv'
    BY <1>6, DirSeek
  <1>7. CASE \E n \in Names : Streams!Create(n) \/ Streams!Unlink(n)
    BY <1>7, DirChange
  <1> QED
    BY <1>1, <1>2, <1>3, <1>4, <1>5, <1>6, <1>7 DEF Streams!Next, StreamSlots

\* A position that has been read keeps its entry as long as its stream is held.
LEMMA DirStable ==
    ASSUME DirInv, [Streams!Next]_dir_vars
    PROVE  \A s \in dir_held \cap dir_held' : \A i \in DOMAIN dir_reported[s] :
              dir_reported[s][i] # "none" => dir_reported'[s][i] = dir_reported[s][i]
  <1>0. DirTypes /\ \A s \in StreamSlots : DirStream(s)
    BY DEF DirInv
  <1>1. CASE UNCHANGED dir_reported
    BY <1>1
  <1>2. CASE Streams!opendir
    <2>1. PICK s \in Streams!FreeSlots : dir_reported' = [dir_reported EXCEPT ![s] = <<>>]
      BY <1>2 DEF Streams!opendir
    <2>2. s \notin dir_held
      BY <1>0, <2>1 DEF Streams!FreeSlots, StreamSlots, DirStream
    <2> QED BY <1>0, <2>1, <2>2 DEF DirTypes
  <1>3. ASSUME NEW s \in StreamSlots, Streams!readdir(s)
        PROVE  \A u \in dir_held \cap dir_held' : \A i \in DOMAIN dir_reported[u] :
                  dir_reported[u][i] # "none" => dir_reported'[u][i] = dir_reported[u][i]
    <2>1. \A u \in dir_held : u \in StreamSlots /\ DOMAIN dir_reported[u] = 1 .. Len(dir_reported[u])
      BY <1>0 DEF DirTypes
    <2>2. \A u \in StreamSlots : \A i \in 1 .. Len(dir_reported[u]) :
             dir_reported[u][i] # "none" => dir_reported'[u][i] = dir_reported[u][i]
      BY <1>3, DirRead
    <2> QED BY <2>1, <2>2
  <1> QED
    BY <1>1, <1>2, <1>3
    DEF Streams!Next, Streams!FindEntry, Streams!OpendirReturns, Streams!OpendirFails, Streams!closedir,
        Streams!seekdir, Streams!Create, Streams!Unlink, Streams!Change, StreamSlots, dir_vars

\* A lock of the library has its mutex and one file, errno and stdio follow the
\* running thread and no cycle is lost, a directory stream is complete and its
\* positions are stable: for every set of threads, files and names, and every
\* width of the counter and size of the tables.
THEOREM LibcServesThreadsHolds == Spec => LibcServesThreads
  <1> DEFINE Stable == \A s \in dir_held \cap dir_held' : \A i \in DOMAIN dir_reported[s] :
                          dir_reported[s][i] # "none" => dir_reported'[s][i] = dir_reported[s][i]
             Inv == LockInv /\ HookInv /\ DirInv
             Safe == /\ subject = "Locks" => Locks!LocksAreThere
                     /\ subject = "Hooks" => Hooks!ThreadsHaveTheirContext
                     /\ subject = "Streams" => Streams!StreamsAreComplete
  <1>1. Init => Inv
    BY LockInitial, HookInitial, DirInitial DEF Init
  <1>2. [Next]_vars => [Locks!Next]_lock_vars /\ [Hooks!Next]_hook_vars /\ [Streams!Next]_dir_vars
    BY DEF Next, vars
  <1>3. Inv /\ [Next]_vars => Inv'
    BY <1>2, LockStep, HookStep, DirStep
  <1>4. Inv => Safe
    BY LockSafe, HookSafe, DirSafe
  <1>5. Inv /\ [Next]_vars => [Stable]_(Streams!vars)
    BY <1>2, DirStable
  <1>6. Spec => [][Stable]_(Streams!vars) /\ []Safe
    <2> HIDE DEF Inv, Safe, Stable
    <2> QED BY <1>1, <1>3, <1>4, <1>5, PTL DEF Spec
  <1> QED
    BY <1>6 DEF LibcServesThreads, Streams!PositionsAreStable, Streams!None

-----------------------------------------------------------------------------
(* atomic.cpp.                                                              *)

AtomContexts == Threads \cup {"interrupt"}
AtomBytes == [0 .. 1 -> 0 .. 1]
AtomOperations == {"load", "store", "exchange", "swap", "fetch_add", "fetch_nand", "compare_exchange"}
AtomBusy == [does : AtomOperations, at : {"read", "write", "swap", "end"}, index : 0 .. 2,
             operand : 0 .. 3, expected : 0 .. 3, local : AtomBytes, previous_primask : BOOLEAN]
AtomTypes ==
    /\ atom_object \in AtomBytes /\ atom_value \in 0 .. 3 /\ atom_primask \in BOOLEAN
    /\ atom_running \in AtomContexts
    /\ atom_outer \in [AtomContexts -> BOOLEAN]
    /\ atom_call \in [AtomContexts -> AtomBusy \cup {Atomics!Idle}]
\* Interrupts are masked as long as the context that runs is in a section or an operation.
AtomMasked ==
    /\ \A c \in AtomContexts :
          /\ atom_outer[c] => atom_primask /\ atom_running = c
          /\ atom_call[c] # Atomics!Idle =>
                /\ atom_primask /\ atom_running = c
                /\ atom_call[c].previous_primask <=> atom_outer[c]
    /\ atom_primask => atom_outer[atom_running] \/ atom_call[atom_running] # Atomics!Idle
AtomValue(bytes) == bytes[0] + 2 * bytes[1]
AtomByte(v, i) == (IF i = 0 THEN v ELSE v \div 2) % 2
Misses(o) == o.does = "load" \/ (o.does = "compare_exchange" /\ atom_value # o.expected)
\* How far an operation is that has read and written some bytes.
AtomReads(o) == o.at = "read" =>
    /\ o.does \notin {"store", "swap"} /\ AtomValue(atom_object) = atom_value
    /\ \A i \in 0 .. 1 : i < o.index => o.local[i] = atom_object[i]
AtomWrites(o) == o.at = "write" =>
    /\ o.index < 2 /\ o.does # "swap" /\ ~Misses(o)
    /\ o.does = "store" \/ AtomValue(o.local) = atom_value
    /\ o.index = 1 => atom_object[0] = AtomByte(o.operand, 0)
AtomSwaps(o) == o.at = "swap" =>
    /\ o.index < 2 /\ o.does = "swap"
    /\ o.index = 0 => AtomValue(atom_object) = atom_value
    /\ o.index = 1 => /\ atom_object[0] = AtomByte(o.operand, 0)
                      /\ atom_value = o.local[0] + 2 * atom_object[1]
AtomEnds(o) == o.at = "end" =>
    /\ o.does = "store" \/ AtomValue(o.local) = atom_value
    /\ AtomValue(atom_object) = IF Misses(o) THEN atom_value ELSE o.operand
AtomCall(o) == AtomReads(o) /\ AtomWrites(o) /\ AtomSwaps(o) /\ AtomEnds(o)
AtomData ==
    /\ (\A c \in AtomContexts : atom_call[c] = Atomics!Idle) => AtomValue(atom_object) = atom_value
    /\ \A c \in AtomContexts : atom_call[c] # Atomics!Idle => AtomCall(atom_call[c])
AtomInv == AtomTypes /\ AtomMasked /\ AtomData /\ atom_agreed

LEMMA AtomConstants == "interrupt" \notin Threads
  BY ConstantsAssumption DEF ConstantsAssumption

LEMMA AtomIdle == Atomics!Idle.at = "out" /\ Atomics!Idle \notin AtomBusy
  BY DEF Atomics!Idle, AtomBusy

LEMMA AtomSafe == AtomInv => Atomics!OperationsAreAtomic
  BY DEF AtomInv, AtomData, AtomMasked, AtomValue, AtomContexts, Atomics!OperationsAreAtomic,
         Atomics!Contexts, Atomics!Handler, Atomics!ReadValue

LEMMA AtomInitial == Atomics!Init => AtomInv
  <1> SUFFICES ASSUME Atomics!Init PROVE AtomInv
    OBVIOUS
  <1>1. /\ atom_object = [i \in 0 .. 1 |-> 0] /\ atom_value = 0 /\ atom_primask = FALSE /\ atom_agreed
        /\ atom_running \in Threads
        /\ atom_outer = [c \in AtomContexts |-> FALSE]
        /\ atom_call = [c \in AtomContexts |-> Atomics!Idle]
    BY DEF Atomics!Init, Atomics!Bytes, Atomics!Contexts, Atomics!Handler, AtomContexts
  <1>2. AtomTypes
    <2>1. atom_object \in AtomBytes /\ atom_running \in AtomContexts
      BY <1>1 DEF AtomBytes, AtomContexts
    <2>2. atom_outer \in [AtomContexts -> BOOLEAN] /\ atom_call \in [AtomContexts -> AtomBusy \cup {Atomics!Idle}]
      BY <1>1
    <2>3. atom_value \in 0 .. 3
      BY <1>1
    <2>4. atom_primask \in BOOLEAN
      BY <1>1, Zenon
    <2> QED BY <2>1, <2>2, <2>3, <2>4, Zenon DEF AtomTypes
  <1>3. AtomMasked
    BY <1>1 DEF AtomMasked
  <1>4. AtomData
    BY <1>1 DEF AtomData, AtomValue
  <1> QED BY <1>1, <1>2, <1>3, <1>4 DEF AtomInv

\* The bytes of a value.
LEMMA AtomParts ==
    /\ \A v \in 0 .. 3 : \A i \in 0 .. 1 : AtomByte(v, i) \in 0 .. 1
    /\ \A v \in 0 .. 3 : AtomByte(v, 0) + 2 * AtomByte(v, 1) = v
    /\ \A b \in AtomBytes : AtomValue(b) \in 0 .. 3
    /\ \A v \in 0 .. 3 : Atomics!ByteOf(v, 0) = AtomByte(v, 0) /\ Atomics!ByteOf(v, 1) = AtomByte(v, 1)
    /\ \A b : Atomics!ReadValue(b) = AtomValue(b)
  <1>1. \A v \in 0 .. 3 : v = 0 \/ v = 1 \/ v = 2 \/ v = 3
    OBVIOUS
  <1>2. /\ 0 % 2 = 0 /\ 1 % 2 = 1 /\ 2 % 2 = 0 /\ 3 % 2 = 1
        /\ 0 \div 2 = 0 /\ 1 \div 2 = 0 /\ 2 \div 2 = 1 /\ 3 \div 2 = 1
    OBVIOUS
  <1>3. \A v \in 0 .. 3 : /\ AtomByte(v, 0) \in 0 .. 1 /\ AtomByte(v, 1) \in 0 .. 1
                          /\ AtomByte(v, 0) + 2 * AtomByte(v, 1) = v
    BY <1>1, <1>2 DEF AtomByte
  <1>4. \A i \in 0 .. 1 : i = 0 \/ i = 1
    OBVIOUS
  <1>5. \A b \in AtomBytes : AtomValue(b) \in 0 .. 3
    BY DEF AtomBytes, AtomValue
  <1> QED BY <1>3, <1>4, <1>5 DEF Atomics!ByteOf, Atomics!ReadValue, AtomByte, AtomValue

\* While one context is in an operation, the others are not.
LEMMA AtomAlone ==
    ASSUME AtomInv, NEW c \in AtomContexts, atom_call[c] # Atomics!Idle
    PROVE  /\ atom_running = c /\ atom_call[c] \in AtomBusy /\ AtomCall(atom_call[c])
           /\ \A d \in AtomContexts \ {c} : atom_call[d] = Atomics!Idle
  BY DEF AtomInv, AtomTypes, AtomMasked, AtomData

\* A step of an operation.
LEMMA AtomGoes ==
    ASSUME AtomInv, NEW c \in AtomContexts, atom_call[c] # Atomics!Idle, NEW o \in AtomBusy,
           atom_call' = [atom_call EXCEPT ![c] = o], atom_object' \in AtomBytes,
           o.previous_primask = atom_call[c].previous_primask, AtomCall(o)',
           UNCHANGED <<atom_primask, atom_running, atom_outer, atom_value, atom_agreed>>
    PROVE  AtomInv'
  <1>0. AtomTypes /\ AtomMasked /\ AtomData
    BY DEF AtomInv
  <1>1. /\ atom_call'[c] = o /\ \A d \in AtomContexts \ {c} : atom_call'[d] = Atomics!Idle
        /\ atom_running = c /\ o # Atomics!Idle
    BY <1>0, AtomAlone, AtomIdle DEF AtomTypes
  <1>2. AtomTypes'
    BY <1>0 DEF AtomTypes
  <1>3. AtomMasked'
    BY <1>0, <1>1 DEF AtomMasked
  <1>4. AtomData'
    BY <1>1 DEF AtomData
  <1> QED BY <1>2, <1>3, <1>4 DEF AtomInv

LEMMA AtomCalled ==
    ASSUME AtomInv, NEW c \in AtomContexts, NEW op \in AtomOperations, NEW operand \in 0 .. 3,
           NEW expected \in 0 .. 3, Atomics!Call(c, op, operand, expected)
    PROVE  AtomInv'
  <1>0. AtomTypes /\ AtomMasked /\ AtomData
    BY DEF AtomInv
  <1>1. PICK o : o = [Atomics!Idle EXCEPT !.does = op, !.at = Atomics!FirstPart(op), !.operand = operand,
                                         !.expected = expected, !.previous_primask = atom_primask]
    OBVIOUS
  <1>2. /\ atom_running = c /\ atom_call[c] = Atomics!Idle
        /\ atom_call' = [atom_call EXCEPT ![c] = o]
        /\ atom_primask' = TRUE
        /\ UNCHANGED <<atom_object, atom_running, atom_outer, atom_value, atom_agreed>>
    BY <1>1, Zenon DEF Atomics!Call, Atomics!Mask
  <1>3. /\ op = "store" => Atomics!FirstPart(op) = "write"
        /\ op = "swap" => Atomics!FirstPart(op) = "swap"
        /\ op \notin {"store", "swap"} => Atomics!FirstPart(op) = "read"
    BY DEF Atomics!FirstPart
  <1>e. PICK at : at = Atomics!FirstPart(op)
    OBVIOUS
  <1>f. PICK masked : masked = atom_primask
    OBVIOUS
  <1>4. at = Atomics!FirstPart(op) /\ masked = atom_primask /\ masked \in BOOLEAN
    BY <1>0, <1>e, <1>f DEF AtomTypes
  <1>a. at \in {"read", "write", "swap", "end"}
    BY <1>3, <1>4
  <1>b. o = [Atomics!Idle EXCEPT !.does = op, !.at = at, !.operand = operand, !.expected = expected,
                                !.previous_primask = masked]
    BY <1>1, <1>4
  <1>c. [i \in 0 .. 1 |-> 0] \in AtomBytes
    BY DEF AtomBytes
  <1>d. /\ o.does = op /\ o.at = at /\ o.index = 0 /\ o.operand = operand /\ o.expected = expected
        /\ o.previous_primask = masked
    BY <1>b DEF Atomics!Idle
  <1>5. o \in AtomBusy
    <2>1. PICK idle : idle = Atomics!Idle
      OBVIOUS
    <2>2. idle \in [does : {"nothing"}, at : {"out"}, index : 0 .. 2, operand : 0 .. 3, expected : 0 .. 3,
                    local : AtomBytes, previous_primask : BOOLEAN]
      BY <1>c, <2>1 DEF Atomics!Idle, Atomics!Bytes
    <2> QED BY <1>4, <1>a, <1>b, <2>1, <2>2 DEF AtomBusy
  <1>6. /\ atom_call'[c] = o /\ o # Atomics!Idle
        /\ \A d \in AtomContexts \ {c} : atom_call'[d] = Atomics!Idle /\ ~atom_outer[d]
        /\ \A d \in AtomContexts : atom_call[d] = Atomics!Idle
    BY <1>0, <1>2, <1>5, AtomIdle DEF AtomTypes, AtomMasked
  <1>7. atom_primask <=> atom_outer[c]
    BY <1>0, <1>2 DEF AtomMasked
  <1>8. AtomTypes'
    BY <1>0, <1>2, <1>5 DEF AtomTypes
  <1>9. AtomMasked'
    BY <1>2, <1>4, <1>6, <1>7, <1>d DEF AtomMasked
  <1>10. AtomValue(atom_object) = atom_value
    BY <1>0, <1>6 DEF AtomData
  <1>11. AtomCall(o)'
    BY <1>2, <1>3, <1>4, <1>d, <1>10 DEF AtomCall, AtomReads, AtomWrites, AtomSwaps, AtomEnds, Misses
  <1>12. AtomData'
    BY <1>6, <1>11 DEF AtomData
  <1> QED BY <1>0, <1>2, <1>8, <1>9, <1>12 DEF AtomInv

LEMMA AtomRead ==
    ASSUME AtomInv, NEW c \in AtomContexts, Atomics!ReadByte(c)
    PROVE  AtomInv'
  <1>1. PICK p : p = atom_call[c]
    OBVIOUS
  <1>2. p.at = "read" /\ p.index \in 0 .. 1 /\ p # Atomics!Idle
    BY <1>1, AtomIdle DEF Atomics!ReadByte, Atomics!Steps, Atomics!Bytes
  <1>3. p \in AtomBusy /\ AtomCall(p) /\ atom_object \in AtomBytes
    BY <1>1, <1>2, AtomAlone DEF AtomInv, AtomTypes
  <1>4. PICK local : local = [p.local EXCEPT ![p.index] = atom_object[p.index]]
    OBVIOUS
  <1>5. local \in AtomBytes /\ \A i \in 0 .. 1 : local[i] = IF i = p.index THEN atom_object[i] ELSE p.local[i]
    BY <1>2, <1>3, <1>4 DEF AtomBusy, AtomBytes
  <1>6. PICK o : o = [p EXCEPT !.local = local, !.index = p.index + 1]
    OBVIOUS
  <1>7. /\ o \in AtomBusy /\ o.at = "read" /\ o.does = p.does /\ o.index = p.index + 1 /\ o.local = local
        /\ o.previous_primask = p.previous_primask
    <2>1. PICK at \in {"read", "write", "swap", "end"}, index \in 0 .. 2, other \in 0 .. 3, bytes \in AtomBytes :
             /\ at = p.at /\ index = p.index + 1
             /\ other = p.operand /\ bytes = local
      BY <1>2, <1>3, <1>5, <1>6 DEF AtomBusy
    <2>2. o = [p EXCEPT !.at = at, !.index = index, !.operand = other, !.local = bytes]
      BY <1>2, <1>3, <1>5, <1>6, <2>1 DEF AtomBusy
    <2>3. /\ o.at = at /\ o.index = index /\ o.operand = other /\ o.local = bytes
          /\ o.does = p.does /\ o.expected = p.expected /\ o.previous_primask = p.previous_primask
      BY <1>3, <2>2 DEF AtomBusy
    <2>4. o \in AtomBusy
      BY <1>3, <2>2 DEF AtomBusy
    <2> QED BY <2>4, <1>2, <1>3, <1>5, <1>6, <2>1, <2>3
  <1>8. /\ atom_call' = [atom_call EXCEPT ![c] = o]
        /\ UNCHANGED <<atom_object, atom_primask, atom_running, atom_outer, atom_value, atom_agreed>>
    BY <1>1, <1>4, <1>6 DEF Atomics!ReadByte
  <1>9. /\ p.does \notin {"store", "swap"} /\ AtomValue(atom_object) = atom_value
        /\ \A i \in 0 .. 1 : i < p.index => p.local[i] = atom_object[i]
    BY <1>2, <1>3 DEF AtomCall, AtomReads
  <1>10. AtomReads(o)'
    BY <1>2, <1>5, <1>7, <1>8, <1>9 DEF AtomReads
  <1>11. AtomCall(o)'
    BY <1>7, <1>10 DEF AtomCall, AtomWrites, AtomSwaps, AtomEnds
  <1> QED BY <1>1, <1>2, <1>3, <1>7, <1>8, <1>11, AtomGoes

LEMMA AtomCompared ==
    ASSUME AtomInv, NEW c \in AtomContexts, Atomics!Compared(c)
    PROVE  AtomInv'
  <1>1. PICK p : p = atom_call[c]
    OBVIOUS
  <1>2. p.at = "read" /\ p.index \notin 0 .. 1 /\ p # Atomics!Idle
    BY <1>1, AtomIdle DEF Atomics!Compared, Atomics!Steps, Atomics!Bytes
  <1>3. p \in AtomBusy /\ AtomCall(p) /\ atom_object \in AtomBytes
    BY <1>1, <1>2, AtomAlone DEF AtomInv, AtomTypes
  <1>4. /\ p.does \notin {"store", "swap"} /\ AtomValue(atom_object) = atom_value
        /\ AtomValue(p.local) = atom_value
    <2>1. p.index = 2
      BY <1>2, <1>3 DEF AtomBusy
    <2> QED BY <1>2, <1>3, <2>1 DEF AtomCall, AtomReads, AtomValue
  <1>5. PICK previous \in 0 .. 3 : previous = atom_value
    BY DEF AtomInv, AtomTypes
  <1>6. PICK operand : operand = Atomics!Operation(p.does, p.operand, previous)
    OBVIOUS
  <1>7. operand \in 0 .. 3
    <2>1. p.operand \in 0 .. 3
      BY <1>3 DEF AtomBusy
    <2>2. (previous + p.operand) % 4 \in 0 .. 3
      BY <2>1
    <2>3. PICK b : b = [i \in 0 .. 1 |-> Atomics!ByteOf(previous, i) * Atomics!ByteOf(p.operand, i)]
      OBVIOUS
    <2>4. b \in AtomBytes
      <3>1. \A i \in 0 .. 1 : AtomByte(previous, i) \in 0 .. 1 /\ AtomByte(p.operand, i) \in 0 .. 1
        BY <2>1, AtomParts
      <3>2. \A i \in 0 .. 1 : /\ Atomics!ByteOf(previous, i) = AtomByte(previous, i)
                              /\ Atomics!ByteOf(p.operand, i) = AtomByte(p.operand, i)
        BY DEF Atomics!ByteOf, AtomByte
      <3>3. \A i \in 0 .. 1 : Atomics!ByteOf(previous, i) * Atomics!ByteOf(p.operand, i) \in 0 .. 1
        <4> SUFFICES ASSUME NEW i \in 0 .. 1
                     PROVE  Atomics!ByteOf(previous, i) * Atomics!ByteOf(p.operand, i) \in 0 .. 1
          OBVIOUS
        <4>1. PICK x \in 0 .. 1, y \in 0 .. 1 :
                 x = Atomics!ByteOf(previous, i) /\ y = Atomics!ByteOf(p.operand, i)
          BY <3>1, <3>2
        <4>2. x * y \in 0 .. 1
          OBVIOUS
        <4> QED BY <4>1, <4>2
      <3> QED BY <2>3, <3>3 DEF AtomBytes
    <2>5. 3 - Atomics!ReadValue(b) \in 0 .. 3
      BY <2>4, AtomParts
    <2> QED BY <1>6, <2>1, <2>2, <2>3, <2>5 DEF Atomics!Operation, Atomics!Bytes
  <1>8. PICK ends \in BOOLEAN :
           ends <=> (p.does = "load" \/ (p.does = "compare_exchange" /\ previous # p.expected))
    OBVIOUS
  <1>9. PICK o : o = [p EXCEPT !.index = 0, !.operand = operand, !.at = IF ends THEN "end" ELSE "write"]
    OBVIOUS
  <1>10. /\ o \in AtomBusy /\ o.at = (IF ends THEN "end" ELSE "write") /\ o.does = p.does
         /\ o.index = 0 /\ o.local = p.local /\ o.expected = p.expected
         /\ o.previous_primask = p.previous_primask
    <2>1. PICK at \in {"read", "write", "swap", "end"}, index \in 0 .. 2, other \in 0 .. 3, bytes \in AtomBytes :
             /\ at = (IF ends THEN "end" ELSE "write") /\ index = 0
             /\ other = operand /\ bytes = p.local
      BY <1>3, <1>7, <1>9 DEF AtomBusy
    <2>2. o = [p EXCEPT !.at = at, !.index = index, !.operand = other, !.local = bytes]
      BY <1>3, <1>7, <1>9, <2>1 DEF AtomBusy
    <2>3. /\ o.at = at /\ o.index = index /\ o.operand = other /\ o.local = bytes
          /\ o.does = p.does /\ o.expected = p.expected /\ o.previous_primask = p.previous_primask
      BY <1>3, <2>2 DEF AtomBusy
    <2>4. o \in AtomBusy
      BY <1>3, <2>2 DEF AtomBusy
    <2> QED BY <2>4, <1>3, <1>7, <1>9, <2>1, <2>3
  <1>11. /\ atom_call' = [atom_call EXCEPT ![c] = o]
         /\ UNCHANGED <<atom_object, atom_primask, atom_running, atom_outer, atom_value, atom_agreed>>
    <2>1. Atomics!ReadValue(p.local) = previous
      BY <1>4, <1>5, AtomParts
    <2> QED BY <1>1, <1>6, <1>8, <1>9, <2>1 DEF Atomics!Compared
  <1>12. AtomCall(o)'
    BY <1>4, <1>5, <1>8, <1>10, <1>11 DEF AtomCall, AtomReads, AtomWrites, AtomSwaps, AtomEnds, Misses
  <1> QED BY <1>1, <1>2, <1>3, <1>10, <1>11, <1>12, AtomGoes

\* A byte of the object is written.
LEMMA AtomByteWritten ==
    ASSUME NEW object \in AtomBytes, NEW k \in 0 .. 1, NEW v \in 0 .. 3
    PROVE  LET written == [object EXCEPT ![k] = Atomics!ByteOf(v, k)] IN
           /\ written \in AtomBytes /\ written[k] = AtomByte(v, k)
           /\ k = 0 => written[1] = object[1]
           /\ k = 1 => written[0] = object[0] /\ (object[0] = AtomByte(v, 0) => AtomValue(written) = v)
  <1> DEFINE written == [object EXCEPT ![k] = Atomics!ByteOf(v, k)]
  <1>1. PICK b \in 0 .. 1 : b = Atomics!ByteOf(v, k) /\ b = AtomByte(v, k)
    BY AtomParts DEF Atomics!ByteOf, AtomByte
  <1>2. /\ written \in AtomBytes /\ written[k] = b /\ \A i \in (0 .. 1) \ {k} : written[i] = object[i]
    BY <1>1 DEF AtomBytes
  <1>3. AtomByte(v, 0) + 2 * AtomByte(v, 1) = v
    BY AtomParts
  <1> QED BY <1>1, <1>2, <1>3 DEF AtomValue

LEMMA AtomWrite ==
    ASSUME AtomInv, NEW c \in AtomContexts, Atomics!WriteByte(c)
    PROVE  AtomInv'
  <1>1. PICK p : p = atom_call[c]
    OBVIOUS
  <1>2. p.at = "write" /\ p # Atomics!Idle
    BY <1>1, AtomIdle DEF Atomics!WriteByte, Atomics!Steps
  <1>3. p \in AtomBusy /\ AtomCall(p) /\ atom_object \in AtomBytes
    BY <1>1, <1>2, AtomAlone DEF AtomInv, AtomTypes
  <1>4. /\ p.index \in 0 .. 1 /\ p.operand \in 0 .. 3 /\ p.does # "swap" /\ ~Misses(p)
        /\ p.does = "store" \/ AtomValue(p.local) = atom_value
        /\ p.index = 1 => atom_object[0] = AtomByte(p.operand, 0)
    BY <1>2, <1>3 DEF AtomCall, AtomWrites, AtomBusy
  <1>5. PICK o : o = [p EXCEPT !.index = p.index + 1, !.at = IF p.index = 0 THEN "write" ELSE "end"]
    OBVIOUS
  <1>6. /\ o \in AtomBusy /\ o.at = (IF p.index = 0 THEN "write" ELSE "end") /\ o.does = p.does
        /\ o.index = p.index + 1 /\ o.local = p.local /\ o.operand = p.operand /\ o.expected = p.expected
        /\ o.previous_primask = p.previous_primask
    <2>1. PICK at \in {"read", "write", "swap", "end"}, index \in 0 .. 2, other \in 0 .. 3, bytes \in AtomBytes :
             /\ at = (IF p.index = 0 THEN "write" ELSE "end") /\ index = p.index + 1
             /\ other = p.operand /\ bytes = p.local
      BY <1>3, <1>4, <1>5 DEF AtomBusy
    <2>2. o = [p EXCEPT !.at = at, !.index = index, !.operand = other, !.local = bytes]
      BY <1>3, <1>4, <1>5, <2>1 DEF AtomBusy
    <2>3. /\ o.at = at /\ o.index = index /\ o.operand = other /\ o.local = bytes
          /\ o.does = p.does /\ o.expected = p.expected /\ o.previous_primask = p.previous_primask
      BY <1>3, <2>2 DEF AtomBusy
    <2>4. o \in AtomBusy
      BY <1>3, <2>2 DEF AtomBusy
    <2> QED BY <2>4, <1>3, <1>4, <1>5, <2>1, <2>3
  <1>7. /\ atom_call' = [atom_call EXCEPT ![c] = o]
        /\ atom_object' = [atom_object EXCEPT ![p.index] = Atomics!ByteOf(p.operand, p.index)]
        /\ UNCHANGED <<atom_primask, atom_running, atom_outer, atom_value, atom_agreed>>
    <2>1. p.index + 1 \in 0 .. 1 <=> p.index = 0
      BY <1>4
    <2> QED BY <1>1, <1>5, <2>1 DEF Atomics!WriteByte, Atomics!Bytes
  <1>8. /\ atom_object' \in AtomBytes
        /\ p.index = 0 => atom_object'[0] = AtomByte(p.operand, 0)
        /\ p.index = 1 => AtomValue(atom_object') = p.operand
    <2>1. PICK k \in 0 .. 1, v \in 0 .. 3 : k = p.index /\ v = p.operand
      BY <1>4
    <2>2. /\ atom_object' \in AtomBytes /\ atom_object'[k] = AtomByte(v, k)
          /\ k = 0 => atom_object'[1] = atom_object[1]
          /\ k = 1 => (atom_object[0] = AtomByte(v, 0) => AtomValue(atom_object') = v)
      <3>1. PICK written : written = [atom_object EXCEPT ![k] = Atomics!ByteOf(v, k)]
        OBVIOUS
      <3>2. /\ written \in AtomBytes /\ written[k] = AtomByte(v, k)
            /\ k = 0 => written[1] = atom_object[1]
            /\ k = 1 => (atom_object[0] = AtomByte(v, 0) => AtomValue(written) = v)
        BY <1>3, <3>1, AtomByteWritten, ZenonT(30)
      <3>3. atom_object' = written
        BY <1>7, <2>1, <3>1
      <3> QED BY <3>2, <3>3
    <2> QED BY <1>4, <2>1, <2>2
  <1>9. ~Misses(o)'
    BY <1>4, <1>6, <1>7 DEF Misses
  <1>10. AtomCall(o)'
    BY <1>4, <1>6, <1>7, <1>8, <1>9 DEF AtomCall, AtomReads, AtomWrites, AtomSwaps, AtomEnds, AtomValue
  <1> QED BY <1>1, <1>2, <1>6, <1>7, <1>8, <1>10, AtomGoes

LEMMA AtomSwap ==
    ASSUME AtomInv, NEW c \in AtomContexts, Atomics!SwapByte(c)
    PROVE  AtomInv'
  <1>1. PICK p : p = atom_call[c]
    OBVIOUS
  <1>2. p.at = "swap" /\ p # Atomics!Idle
    BY <1>1, AtomIdle DEF Atomics!SwapByte, Atomics!Steps
  <1>3. p \in AtomBusy /\ AtomCall(p) /\ atom_object \in AtomBytes
    BY <1>1, <1>2, AtomAlone DEF AtomInv, AtomTypes
  <1>4. /\ p.index \in 0 .. 1 /\ p.operand \in 0 .. 3 /\ p.does = "swap"
        /\ p.index = 0 => AtomValue(atom_object) = atom_value
        /\ p.index = 1 => /\ atom_object[0] = AtomByte(p.operand, 0)
                          /\ atom_value = p.local[0] + 2 * atom_object[1]
    BY <1>2, <1>3 DEF AtomCall, AtomSwaps, AtomBusy
  <1>a. PICK local : local = [p.local EXCEPT ![p.index] = atom_object[p.index]]
    OBVIOUS
  <1>b. local \in AtomBytes /\ \A i \in 0 .. 1 : local[i] = IF i = p.index THEN atom_object[i] ELSE p.local[i]
    BY <1>3, <1>4, <1>a DEF AtomBusy, AtomBytes
  <1>5. PICK o : o = [p EXCEPT !.local = local, !.index = p.index + 1,
                               !.at = IF p.index = 0 THEN "swap" ELSE "end"]
    OBVIOUS
  <1>6. /\ o \in AtomBusy /\ o.at = (IF p.index = 0 THEN "swap" ELSE "end") /\ o.does = p.does
        /\ o.index = p.index + 1 /\ o.local = local /\ o.operand = p.operand
        /\ o.previous_primask = p.previous_primask
    <2>1. PICK at \in {"read", "write", "swap", "end"}, index \in 0 .. 2, other \in 0 .. 3, bytes \in AtomBytes :
             /\ at = (IF p.index = 0 THEN "swap" ELSE "end") /\ index = p.index + 1
             /\ other = p.operand /\ bytes = local
      BY <1>3, <1>4, <1>5, <1>b DEF AtomBusy
    <2>2. o = [p EXCEPT !.at = at, !.index = index, !.operand = other, !.local = bytes]
      BY <1>3, <1>4, <1>5, <1>b, <2>1 DEF AtomBusy
    <2>3. /\ o.at = at /\ o.index = index /\ o.operand = other /\ o.local = bytes
          /\ o.does = p.does /\ o.expected = p.expected /\ o.previous_primask = p.previous_primask
      BY <1>3, <2>2 DEF AtomBusy
    <2>4. o \in AtomBusy
      BY <1>3, <2>2 DEF AtomBusy
    <2> QED BY <2>4, <1>3, <1>4, <1>5, <1>b, <2>1, <2>3
  <1>7. /\ atom_call' = [atom_call EXCEPT ![c] = o]
        /\ atom_object' = [atom_object EXCEPT ![p.index] = Atomics!ByteOf(p.operand, p.index)]
        /\ UNCHANGED <<atom_primask, atom_running, atom_outer, atom_value, atom_agreed>>
    <2>1. p.index + 1 \in 0 .. 1 <=> p.index = 0
      BY <1>4
    <2> QED BY <1>1, <1>5, <1>a, <2>1 DEF Atomics!SwapByte, Atomics!Bytes
  <1>8. /\ atom_object' \in AtomBytes
        /\ p.index = 0 => atom_object'[0] = AtomByte(p.operand, 0) /\ atom_object'[1] = atom_object[1]
        /\ p.index = 1 => AtomValue(atom_object') = p.operand
    <2>1. PICK k \in 0 .. 1, v \in 0 .. 3 : k = p.index /\ v = p.operand
      BY <1>4
    <2>2. /\ atom_object' \in AtomBytes /\ atom_object'[k] = AtomByte(v, k)
          /\ k = 0 => atom_object'[1] = atom_object[1]
          /\ k = 1 => (atom_object[0] = AtomByte(v, 0) => AtomValue(atom_object') = v)
      <3>1. PICK written : written = [atom_object EXCEPT ![k] = Atomics!ByteOf(v, k)]
        OBVIOUS
      <3>2. /\ written \in AtomBytes /\ written[k] = AtomByte(v, k)
            /\ k = 0 => written[1] = atom_object[1]
            /\ k = 1 => (atom_object[0] = AtomByte(v, 0) => AtomValue(written) = v)
        BY <1>3, <3>1, AtomByteWritten, ZenonT(30)
      <3>3. atom_object' = written
        BY <1>7, <2>1, <3>1
      <3> QED BY <3>2, <3>3
    <2> QED BY <1>4, <2>1, <2>2
  <1>9. CASE p.index = 0
    <2>1. /\ o.at = "swap" /\ o.index = 1 /\ o.does = "swap"
          /\ atom_value = o.local[0] + 2 * atom_object'[1]
      BY <1>4, <1>6, <1>8, <1>9, <1>b DEF AtomValue
    <2>2. AtomCall(o)'
      BY <1>4, <1>6, <1>7, <1>8, <1>9, <2>1 DEF AtomCall, AtomReads, AtomWrites, AtomSwaps, AtomEnds
    <2> QED BY <1>1, <1>2, <1>6, <1>7, <1>8, <2>2, AtomGoes
  <1>10. CASE p.index = 1
    <2>1. /\ o.at = "end" /\ o.does = "swap" /\ AtomValue(o.local) = atom_value
          /\ AtomValue(atom_object') = o.operand
      BY <1>4, <1>6, <1>8, <1>10, <1>b DEF AtomValue
    <2>2. AtomCall(o)'
      BY <1>7, <2>1 DEF AtomCall, AtomReads, AtomWrites, AtomSwaps, AtomEnds, Misses, AtomValue
    <2> QED BY <1>1, <1>2, <1>6, <1>7, <1>8, <2>2, AtomGoes
  <1> QED BY <1>4, <1>9, <1>10

LEMMA AtomEnd ==
    ASSUME AtomInv, NEW c \in AtomContexts, Atomics!End(c)
    PROVE  AtomInv'
  <1>0. AtomTypes /\ AtomMasked /\ AtomData
    BY DEF AtomInv
  <1>1. PICK p : p = atom_call[c]
    OBVIOUS
  <1>2. p.at = "end" /\ p # Atomics!Idle
    BY <1>1, AtomIdle DEF Atomics!End, Atomics!Steps
  <1>3. /\ p \in AtomBusy /\ AtomCall(p) /\ atom_running = c
        /\ \A d \in AtomContexts \ {c} : atom_call[d] = Atomics!Idle
    BY <1>1, <1>2, AtomAlone
  <1>4. /\ p.does = "store" \/ AtomValue(p.local) = atom_value
        /\ AtomValue(atom_object) = IF Misses(p) THEN atom_value ELSE p.operand
    BY <1>2, <1>3 DEF AtomCall, AtomEnds
  <1>5. /\ atom_value' = (IF Misses(p) THEN atom_value ELSE p.operand)
        /\ atom_agreed' <=> (p.does = "store" \/ AtomValue(p.local) = atom_value)
        /\ atom_primask' = p.previous_primask
        /\ atom_call' = [atom_call EXCEPT ![c] = Atomics!Idle]
        /\ UNCHANGED <<atom_object, atom_running, atom_outer>>
    BY <1>1, AtomParts DEF Atomics!End, Atomics!Restore, Misses
  <1>6. \A d \in AtomContexts : atom_call'[d] = Atomics!Idle
    BY <1>0, <1>3, <1>5 DEF AtomTypes
  <1>7. AtomTypes'
    BY <1>0, <1>3, <1>5 DEF AtomTypes, AtomBusy
  <1>8. AtomMasked'
    <2>1. /\ p.previous_primask <=> atom_outer[c]
          /\ \A d \in AtomContexts : atom_outer[d] => atom_running = d
      BY <1>0, <1>1, <1>2 DEF AtomMasked
    <2> QED BY <1>3, <1>5, <1>6, <2>1 DEF AtomMasked
  <1>9. AtomData' /\ atom_agreed'
    BY <1>4, <1>5, <1>6 DEF AtomData, AtomValue
  <1> QED BY <1>7, <1>8, <1>9 DEF AtomInv

LEMMA AtomStep == AtomInv /\ [Atomics!Next]_atom_vars => AtomInv'
  <1> SUFFICES ASSUME AtomInv, [Atomics!Next]_atom_vars PROVE AtomInv'
    OBVIOUS
  <1>0. AtomTypes /\ AtomMasked /\ AtomData
    BY DEF AtomInv
  <1>1. CASE UNCHANGED atom_vars
    <2>1. AtomData'
      BY <1>0, <1>1 DEF AtomData, AtomValue, AtomCall, AtomReads, AtomWrites, AtomSwaps, AtomEnds, Misses, atom_vars
    <2> QED BY <1>0, <1>1, <2>1 DEF AtomInv, AtomTypes, AtomMasked, atom_vars
  <1>2. ASSUME NEW c \in AtomContexts, Atomics!Preempt(c) PROVE AtomInv'
    <2>1. /\ ~atom_primask /\ atom_running' = c
          /\ UNCHANGED <<atom_object, atom_primask, atom_outer, atom_call, atom_value, atom_agreed>>
      BY <1>2 DEF Atomics!Preempt
    <2>2. \A d \in AtomContexts : atom_call[d] = Atomics!Idle /\ ~atom_outer[d]
      BY <1>0, <2>1 DEF AtomMasked
    <2>3. AtomData'
      BY <1>0, <2>1, <2>2 DEF AtomData, AtomValue
    <2> QED BY <1>0, <2>1, <2>2, <2>3 DEF AtomInv, AtomTypes, AtomMasked
  <1>3. ASSUME NEW c \in AtomContexts, Atomics!EnterSection(c) \/ Atomics!LeaveSection(c) PROVE AtomInv'
    <2>1. PICK inside \in BOOLEAN :
             /\ atom_running = c /\ atom_call[c] = Atomics!Idle
             /\ atom_outer' = [atom_outer EXCEPT ![c] = inside] /\ atom_primask' = inside
             /\ UNCHANGED <<atom_object, atom_running, atom_call, atom_value, atom_agreed>>
      BY <1>3 DEF Atomics!EnterSection, Atomics!LeaveSection
    <2>2. \A d \in AtomContexts : atom_call[d] = Atomics!Idle /\ (atom_outer[d] => d = c)
      BY <1>0, <2>1 DEF AtomMasked
    <2>3. AtomData'
      BY <1>0, <2>1, <2>2 DEF AtomData, AtomValue
    <2>4. AtomTypes'
      BY <1>0, <2>1 DEF AtomTypes
    <2>5. atom_outer'[c] = inside /\ \A d \in AtomContexts \ {c} : ~atom_outer'[d]
      BY <1>0, <2>1, <2>2 DEF AtomTypes
    <2>6. AtomMasked'
      BY <2>1, <2>2, <2>5 DEF AtomMasked
    <2> QED BY <2>1, <2>3, <2>4, <2>6 DEF AtomInv
  <1>4. ASSUME NEW c \in AtomContexts, NEW v \in Atomics!Values, NEW w \in {1, 2},
               \/ Atomics!Call(c, "compare_exchange", w, v)
               \/ v = 0 /\ \E op \in {"store", "exchange", "swap", "fetch_add", "fetch_nand"} : Atomics!Call(c, op, w, 0)
        PROVE  AtomInv'
    <2>1. PICK op \in AtomOperations : Atomics!Call(c, op, w, v)
      BY <1>4 DEF AtomOperations
    <2>2. w \in 0 .. 3 /\ v \in 0 .. 3
      BY DEF Atomics!Values
    <2> QED BY <2>1, <2>2, AtomCalled
  <1>5. ASSUME NEW c \in AtomContexts, Atomics!Call(c, "load", 0, 0) PROVE AtomInv'
    <2>1. "load" \in AtomOperations /\ 0 \in 0 .. 3
      BY DEF AtomOperations
    <2> QED BY <1>5, <2>1, AtomCalled
  <1>6. ASSUME NEW c \in AtomContexts,
               \/ Atomics!ReadByte(c) \/ Atomics!Compared(c) \/ Atomics!WriteByte(c) \/ Atomics!SwapByte(c)
               \/ Atomics!End(c)
        PROVE  AtomInv'
    BY <1>6, AtomRead, AtomCompared, AtomWrite, AtomSwap, AtomEnd
  <1> QED
    BY <1>1, <1>2, <1>3, <1>4, <1>5, <1>6
    DEF Atomics!Next, Atomics!Contexts, Atomics!Handler, AtomContexts

-----------------------------------------------------------------------------
(* backend.cpp: mutexes, semaphores and sleeps.                             *)

SyncOps == {"none", "wait", "try", "put", "timed", "sleep"}
SyncPlaces == {"idle", "loads", "ensures", "creates", "found", "begins", "waits", "last", "sleeps", "dozes"}
SyncCall == [op : SyncOps, at : SyncPlaces, object : Nat, deadline : Nat, until : Nat, ticks : Nat]
SyncTypes ==
    /\ sync_kind \in {"mutex", "recursive", "semaphore"}
    /\ sync_calls \in [Threads -> SyncCall]
    /\ sync_implementation \in Nat /\ sync_created \in Nat /\ sync_failures \in Nat
    /\ sync_owner \in Threads \cup {"nobody"} /\ sync_depth \in Int /\ sync_count \in Int
    /\ sync_held \in [Threads -> Int] /\ sync_taken \in Int
    /\ sync_part \in Int /\ 0 <= sync_part /\ sync_part < Parts
\* A call knows the object of the handle; a sleep has ticks enough for its deadline.
SyncCallOk(call) ==
    /\ call.object \in {0, sync_implementation}
    /\ call.at \in {"found", "begins", "waits", "last"} => call.object # 0
    /\ call.at = "begins" => call.ticks # 0
    /\ call.at = "last" => call.deadline = 0
    /\ call.at = "sleeps" => call.deadline <= call.ticks * Parts
    /\ call.at = "dozes" => call.deadline <= call.ticks * Parts + call.until
SyncObject ==
    /\ sync_owner = "nobody" => sync_depth = 0
    /\ sync_implementation = 0 => sync_owner = "nobody" /\ sync_taken = 0
    /\ IF sync_kind = "semaphore" THEN sync_implementation # 0 => sync_count = Initial - sync_taken
       ELSE \A t \in Threads : sync_held[t] = IF sync_owner = t THEN sync_depth ELSE 0
SyncInv == SyncTypes /\ SyncObject /\ \A t \in Threads : SyncCallOk(sync_calls[t])

LEMMA SyncConstants ==
    /\ Parts \in Nat \ {0} /\ MaxFiniteWait \in Nat \ {0, 1} /\ Initial \in Nat /\ MaxWait \in Nat
    /\ "nobody" \notin Threads
  BY ConstantsAssumption DEF ConstantsAssumption

\* The kernel object and what the threads have of it.
SyncSame == UNCHANGED <<sync_kind, sync_implementation, sync_created, sync_failures, sync_owner, sync_depth,
                        sync_count, sync_held, sync_taken, sync_part>>

LEMMA SyncIdle == Sync!Idle \in SyncCall /\ SyncCallOk(Sync!Idle) /\ Sync!Idle.op = "none"
  BY DEF Sync!Idle, SyncCall, SyncCallOk, SyncOps, SyncPlaces, Sync!None

LEMMA SyncInitial == Sync!Init => SyncInv
  <1> SUFFICES ASSUME Sync!Init PROVE SyncInv
    OBVIOUS
  <1>1. sync_calls \in [Threads -> SyncCall] /\ \A t \in Threads : sync_calls[t] = Sync!Idle
    BY SyncIdle DEF Sync!Init
  <1>2. SyncTypes
    BY <1>1, SyncConstants DEF Sync!Init, SyncTypes, Sync!None, Sync!Nobody
  <1>3. SyncObject
    BY SyncConstants DEF Sync!Init, SyncObject, Sync!None, Sync!Nobody
  <1> QED BY <1>1, <1>2, <1>3, SyncIdle DEF SyncInv

LEMMA SyncSafe == SyncInv => Sync!OneObject
  BY DEF SyncInv, SyncObject, SyncCallOk, Sync!OneObject, Sync!None

\* A step of one call that leaves the object.
LEMMA SyncMoves ==
    ASSUME SyncInv, NEW t \in Threads, NEW call \in SyncCall, SyncCallOk(call),
           sync_calls' = [sync_calls EXCEPT ![t] = call], SyncSame
    PROVE  SyncInv'
  <1>1. SyncTypes'
    BY DEF SyncInv, SyncTypes, SyncSame
  <1>2. SyncObject'
    BY DEF SyncInv, SyncObject, SyncSame
  <1>3. ASSUME NEW u \in Threads PROVE SyncCallOk(sync_calls[u])'
    <2>1. sync_calls'[u] = IF u = t THEN call ELSE sync_calls[u]
      BY DEF SyncInv, SyncTypes
    <2>2. SyncCallOk(sync_calls[u])
      BY DEF SyncInv
    <2> QED BY <2>1, <2>2 DEF SyncCallOk, SyncSame
  <1> QED BY <1>1, <1>2, <1>3 DEF SyncInv

LEMMA SyncReturns ==
    ASSUME SyncInv, NEW t \in Threads, Sync!Returns(t), SyncSame
    PROVE  SyncInv'
  BY SyncMoves, SyncIdle DEF Sync!Returns

\* A step of one call to another place.
LEMMA SyncGoes ==
    ASSUME SyncInv, NEW t \in Threads, NEW where \in SyncPlaces, Sync!Goes(t, where), SyncSame,
           where \in {"found", "last"} => sync_calls[t].object # 0,
           where = "last" => sync_calls[t].deadline = 0,
           where = "sleeps" => sync_calls[t].deadline <= sync_calls[t].ticks * Parts,
           where \notin {"begins", "waits", "dozes"}
    PROVE  SyncInv'
  <1>1. PICK p \in SyncCall : p = sync_calls[t] /\ SyncCallOk(p)
    BY DEF SyncInv, SyncTypes
  <1>2. PICK call : call = [p EXCEPT !.at = where]
    OBVIOUS
  <1>3. /\ call \in SyncCall /\ call.at = where /\ call.object = p.object /\ call.deadline = p.deadline
        /\ call.ticks = p.ticks
    BY <1>1, <1>2 DEF SyncCall
  <1>4. SyncCallOk(call)
    BY <1>1, <1>3 DEF SyncCallOk
  <1>5. sync_calls' = [sync_calls EXCEPT ![t] = call]
    BY <1>1, <1>2 DEF Sync!Goes
  <1> QED BY <1>3, <1>4, <1>5, SyncMoves

\* Times in parts of a tick.
LEMMA SyncTicks ==
    ASSUME NEW time \in Nat
    PROVE  /\ Sync!duration_to_ticks(time) \in Nat /\ time <= Sync!duration_to_ticks(time) * Parts
           /\ time # 0 => Sync!duration_to_ticks(time) # 0
  <1>1. PICK n \in Int : n = time + Parts - 1
    BY SyncConstants
  <1>a. PICK q \in Int, r \in 0 .. Parts - 1 : n = Parts * q + r /\ n \div Parts = q
    BY SyncConstants, DivParts
  <1>2. time + Parts - 1 = Parts * q + r /\ (time + Parts - 1) \div Parts = q
    BY <1>1, <1>a
  <1>3. Parts * q \in Int /\ q * Parts = Parts * q
    BY SyncConstants
  <1>4. time <= Parts * q
    BY <1>2, <1>3, SyncConstants
  <1>5. q >= 0
    <2>1. ASSUME q <= -1 PROVE FALSE
      <3>1. Parts * q <= Parts * (-1)
        BY <2>1, SyncConstants
      <3> QED BY <1>3, <1>4, <3>1, SyncConstants
    <2> QED BY <2>1
  <1>6. time # 0 => q # 0
    BY <1>4, SyncConstants
  <1> QED BY <1>2, <1>3, <1>4, <1>5, <1>6 DEF Sync!duration_to_ticks

LEMMA SyncWakes ==
    ASSUME SyncTypes, NEW ticks \in Nat \ {0}
    PROVE  Sync!Wakes(ticks) \in Nat /\ (ticks - 1) * Parts <= Sync!Wakes(ticks)
  <1>1. /\ ticks * Parts \in Nat /\ (ticks - 1) * Parts \in Nat
        /\ ticks * Parts = (ticks - 1) * Parts + Parts
    BY SyncConstants
  <1> QED BY <1>1, SyncConstants DEF SyncTypes, Sync!Wakes

\* Call, Load and the first steps of Ensure.
LEMMA SyncCalls ==
    ASSUME SyncInv, NEW t \in Threads, NEW op \in {"wait", "try", "put", "timed"}, NEW deadline \in Nat,
           Sync!Call(t, op, deadline)
    PROVE  SyncInv'
  <1>1. PICK call : call = [Sync!Idle EXCEPT !.op = op, !.at = "loads", !.deadline = deadline]
    OBVIOUS
  <1>2. /\ call \in SyncCall /\ call.at = "loads" /\ call.object = 0
    BY <1>1 DEF Sync!Idle, SyncCall, SyncOps, SyncPlaces, Sync!None
  <1>3. SyncCallOk(call)
    BY <1>2 DEF SyncCallOk
  <1>4. sync_calls' = [sync_calls EXCEPT ![t] = call] /\ SyncSame
    BY <1>1 DEF Sync!Call, Sync!handle, Sync!object, SyncSame
  <1> QED BY <1>2, <1>3, <1>4, SyncMoves

LEMMA SyncLoad ==
    ASSUME SyncInv, NEW t \in Threads, Sync!Load(t)
    PROVE  SyncInv'
  <1>1. SyncSame
    BY DEF Sync!Load, Sync!handle, Sync!object, SyncSame
  <1>2. CASE sync_calls' = [sync_calls EXCEPT ![t].at = "found", ![t].object = sync_implementation]
             /\ sync_implementation # 0
    <2>1. PICK p \in SyncCall : p = sync_calls[t]
      BY DEF SyncInv, SyncTypes
    <2>2. PICK i \in Nat : i = sync_implementation
      BY DEF SyncInv, SyncTypes
    <2>3. PICK call : call = [p EXCEPT !.at = "found", !.object = i]
      OBVIOUS
    <2>4. call \in SyncCall /\ call.at = "found" /\ call.object = i
      BY <2>3 DEF SyncCall, SyncPlaces
    <2>5. SyncCallOk(call)
      BY <1>2, <2>2, <2>4 DEF SyncCallOk
    <2>6. sync_calls' = [sync_calls EXCEPT ![t] = call]
      BY <1>2, <2>1, <2>2, <2>3
    <2> QED BY <1>1, <2>4, <2>5, <2>6, SyncMoves
  <1>3. CASE Sync!Returns(t)
    BY <1>1, <1>3, SyncReturns
  <1>4. CASE Sync!Goes(t, "ensures")
    BY <1>1, <1>4, SyncGoes DEF SyncPlaces
  <1> QED BY <1>2, <1>3, <1>4 DEF Sync!Load, Sync!None

LEMMA SyncLocks ==
    ASSUME SyncInv, NEW t \in Threads, Sync!LockInitialization(t)
    PROVE  SyncInv'
  <1>1. SyncSame /\ Sync!Goes(t, "creates")
    BY DEF Sync!LockInitialization, Sync!object, SyncSame
  <1> QED BY <1>1, SyncGoes DEF SyncPlaces

LEMMA SyncEnsure ==
    ASSUME SyncInv, NEW t \in Threads, Sync!Ensure(t)
    PROVE  SyncInv'
  <1>0. SyncTypes /\ SyncObject /\ \A u \in Threads : SyncCallOk(sync_calls[u])
    BY DEF SyncInv
  <1>1. UNCHANGED <<sync_kind, sync_held, sync_taken, sync_part>>
    BY DEF Sync!Ensure
  <1>2. CASE /\ Sync!Returns(t) /\ sync_failures' = sync_failures + 1
             /\ UNCHANGED <<sync_implementation, sync_created, sync_owner, sync_depth, sync_count>>
    <2>1. sync_calls' \in [Threads -> SyncCall]
          /\ \A u \in Threads : sync_calls'[u] = IF u = t THEN Sync!Idle ELSE sync_calls[u]
      BY <1>0, <1>2, SyncIdle DEF SyncTypes, Sync!Returns
    <2>2. SyncTypes'
      BY <1>0, <1>1, <1>2, <2>1 DEF SyncTypes
    <2>3. SyncObject'
      BY <1>0, <1>1, <1>2 DEF SyncObject
    <2>4. ASSUME NEW u \in Threads PROVE SyncCallOk(sync_calls[u])'
      BY <1>0, <1>2, <2>1, SyncIdle DEF SyncCallOk
    <2> QED BY <2>2, <2>3, <2>4 DEF SyncInv
  <1>3. CASE /\ sync_implementation' = IF sync_implementation # 0 THEN sync_implementation ELSE sync_created + 1
             /\ sync_created' = IF sync_implementation # 0 THEN sync_created ELSE sync_created + 1
             /\ sync_calls' = [sync_calls EXCEPT ![t].at = "found", ![t].object = sync_implementation']
             /\ IF sync_implementation # 0 THEN UNCHANGED <<sync_owner, sync_depth, sync_count>>
                ELSE sync_owner' = "nobody" /\ sync_depth' = 0 /\ sync_count' = Initial
             /\ UNCHANGED sync_failures
    <2>1. PICK p \in SyncCall : p = sync_calls[t]
      BY <1>0 DEF SyncTypes
    <2>2. PICK i \in Nat \ {0} : i = sync_implementation'
      BY <1>0, <1>3 DEF SyncTypes
    <2>3. PICK call : call = [p EXCEPT !.at = "found", !.object = i]
      OBVIOUS
    <2>4. call \in SyncCall /\ call.at = "found" /\ call.object = i
      BY <2>3 DEF SyncCall, SyncPlaces
    <2>5. sync_calls' = [sync_calls EXCEPT ![t] = call]
      BY <1>3, <2>1, <2>2, <2>3
    <2>6. sync_calls' \in [Threads -> SyncCall]
          /\ \A u \in Threads : sync_calls'[u] = IF u = t THEN call ELSE sync_calls[u]
      BY <1>0, <2>4, <2>5 DEF SyncTypes
    <2>7. SyncTypes'
      BY <1>0, <1>1, <1>3, <2>2, <2>6, SyncConstants DEF SyncTypes
    <2>8. SyncObject'
      BY <1>0, <1>1, <1>3, <2>2, SyncConstants DEF SyncObject, SyncTypes
    <2>9. ASSUME NEW u \in Threads PROVE SyncCallOk(sync_calls[u])'
      <3>1. CASE u = t
        BY <2>2, <2>4, <2>6, <3>1 DEF SyncCallOk
      <3>2. CASE u # t
        <4>1. SyncCallOk(sync_calls[u]) /\ sync_calls'[u] = sync_calls[u]
          BY <1>0, <2>6, <3>2
        <4>2. sync_implementation # 0 => sync_implementation' = sync_implementation
          BY <1>3
        <4> QED BY <4>1, <4>2 DEF SyncCallOk
      <3> QED BY <3>1, <3>2
    <2> QED BY <2>7, <2>8, <2>9 DEF SyncInv
  <1> QED BY <1>2, <1>3 DEF Sync!Ensure, Sync!None, Sync!LoadedAgain, Sync!Nobody

\* A call that takes the mutex or the semaphore, which it has found.
LEMMA SyncTake ==
    ASSUME SyncInv, NEW t \in Threads, Sync!Take(t), sync_calls[t].object # 0,
           UNCHANGED <<sync_kind, sync_implementation, sync_created, sync_failures, sync_part>>
    PROVE  SyncInv'
  <1>0. SyncTypes /\ SyncObject /\ \A u \in Threads : SyncCallOk(sync_calls[u])
    BY DEF SyncInv
  <1>1. sync_calls' \in [Threads -> SyncCall]
        /\ \A u \in Threads : sync_calls'[u] = IF u = t THEN Sync!Idle ELSE sync_calls[u]
    BY <1>0, SyncIdle DEF SyncTypes, Sync!Take, Sync!Returns
  <1>2. ASSUME NEW u \in Threads PROVE SyncCallOk(sync_calls[u])'
    BY <1>0, <1>1, SyncIdle DEF SyncCallOk
  <1>3. sync_implementation # 0
    BY <1>0 DEF SyncCallOk
  <1>4. CASE sync_kind = "semaphore"
    <2>1. /\ sync_count' = sync_count - 1 /\ sync_taken' = sync_taken + 1
          /\ UNCHANGED <<sync_owner, sync_depth, sync_held>>
      BY <1>4 DEF Sync!Take
    <2>2. SyncTypes'
      BY <1>0, <1>1, <2>1 DEF SyncTypes
    <2>3. SyncObject'
      BY <1>0, <1>3, <1>4, <2>1, SyncConstants DEF SyncObject, SyncTypes
    <2> QED BY <1>2, <2>2, <2>3 DEF SyncInv
  <1>5. CASE sync_kind # "semaphore"
    <2>1. /\ sync_owner' = t /\ sync_depth' = sync_depth + 1
          /\ sync_held' = [sync_held EXCEPT ![t] = @ + 1]
          /\ UNCHANGED <<sync_count, sync_taken>>
          /\ sync_owner \in {"nobody", t}
      BY <1>0, <1>5 DEF Sync!Take, Sync!Available, Sync!Nobody, SyncTypes
    <2>2. sync_held' \in [Threads -> Int]
          /\ \A u \in Threads : sync_held'[u] = IF u = t THEN sync_held[t] + 1 ELSE sync_held[u]
      BY <1>0, <2>1 DEF SyncTypes
    <2>3. SyncTypes'
      BY <1>0, <1>1, <2>1, <2>2 DEF SyncTypes
    <2>4. \A u \in Threads : sync_held'[u] = IF t = u THEN sync_depth + 1 ELSE 0
      BY <1>0, <1>5, <2>1, <2>2, SyncConstants DEF SyncObject
    <2>5. SyncObject'
      BY <1>3, <1>5, <2>1, <2>4, SyncConstants DEF SyncObject
    <2> QED BY <1>2, <2>3, <2>5 DEF SyncInv
  <1> QED BY <1>4, <1>5

\* unlock and post.
LEMMA SyncPut ==
    ASSUME SyncInv, NEW t \in Threads, Sync!Put(t)
    PROVE  SyncInv'
  <1>0. SyncTypes /\ SyncObject /\ \A u \in Threads : SyncCallOk(sync_calls[u])
    BY DEF SyncInv
  <1>1. /\ sync_calls[t].at = "found" /\ Sync!Returns(t)
        /\ UNCHANGED <<sync_kind, sync_implementation, sync_created, sync_failures, sync_part>>
    BY DEF Sync!Put, Sync!At, Sync!handle
  <1>2. sync_calls' \in [Threads -> SyncCall]
        /\ \A u \in Threads : sync_calls'[u] = IF u = t THEN Sync!Idle ELSE sync_calls[u]
    BY <1>0, <1>1, SyncIdle DEF SyncTypes, Sync!Returns
  <1>3. ASSUME NEW u \in Threads PROVE SyncCallOk(sync_calls[u])'
    BY <1>0, <1>1, <1>2, SyncIdle DEF SyncCallOk
  <1>4. sync_implementation # 0
    BY <1>0, <1>1 DEF SyncCallOk
  <1>5. CASE sync_kind = "semaphore"
    <2>1. /\ sync_count' = sync_count + 1 /\ sync_taken' = sync_taken - 1
          /\ UNCHANGED <<sync_owner, sync_depth, sync_held>>
      BY <1>5 DEF Sync!Put
    <2>2. SyncTypes'
      BY <1>0, <1>1, <1>2, <2>1 DEF SyncTypes
    <2>3. SyncObject'
      BY <1>0, <1>1, <1>4, <1>5, <2>1, SyncConstants DEF SyncObject, SyncTypes
    <2> QED BY <1>3, <2>2, <2>3 DEF SyncInv
  <1>6. CASE sync_kind # "semaphore" /\ sync_owner # t
    <2>1. SyncSame
      BY <1>1, <1>6 DEF Sync!Put, Sync!object, SyncSame
    <2> QED BY <1>1, <2>1, SyncReturns
  <1>7. CASE sync_kind # "semaphore" /\ sync_owner = t
    <2>1. /\ sync_depth' = sync_depth - 1 /\ sync_held' = [sync_held EXCEPT ![t] = @ - 1]
          /\ sync_owner' = IF sync_depth = 1 THEN "nobody" ELSE sync_owner
          /\ UNCHANGED <<sync_count, sync_taken>>
      BY <1>7 DEF Sync!Put, Sync!Nobody
    <2>2. sync_held' \in [Threads -> Int]
          /\ \A u \in Threads : sync_held'[u] = IF u = t THEN sync_held[t] - 1 ELSE sync_held[u]
      BY <1>0, <2>1 DEF SyncTypes
    <2>3. SyncTypes'
      BY <1>0, <1>1, <1>2, <2>1, <2>2 DEF SyncTypes
    <2>4. sync_held'[t] = sync_depth - 1 /\ \A u \in Threads \ {t} : sync_held'[u] = 0
      BY <1>0, <1>7, <2>2 DEF SyncObject
    <2>5. SyncObject'
      BY <1>0, <1>1, <1>4, <1>7, <2>1, <2>4, SyncConstants DEF SyncObject, SyncTypes
    <2> QED BY <1>3, <2>3, <2>5 DEF SyncInv
  <1> QED BY <1>5, <1>6, <1>7

\* The waits in ticks.
LEMMA SyncDeadline ==
    ASSUME SyncInv, NEW t \in Threads, Sync!deadline_wait_ticks(t)
    PROVE  SyncInv'
  <1>1. SyncSame /\ sync_calls[t].at = "found"
    BY DEF Sync!deadline_wait_ticks, Sync!At, Sync!handle, Sync!object, SyncSame
  <1>2. PICK p \in SyncCall : p = sync_calls[t] /\ SyncCallOk(p)
    BY DEF SyncInv, SyncTypes
  <1>3. p.object # 0 /\ p.deadline \in Nat
    BY <1>1, <1>2 DEF SyncCallOk, SyncCall
  <1>4. CASE sync_calls[t].deadline = 0 /\ Sync!Goes(t, "last")
    BY <1>1, <1>2, <1>3, <1>4, SyncGoes DEF SyncPlaces
  <1>5. CASE /\ sync_calls[t].deadline # 0
             /\ sync_calls' = [sync_calls EXCEPT ![t].at = "begins",
                   ![t].ticks = Sync!Less(Sync!duration_to_ticks(sync_calls[t].deadline), MaxFiniteWait)]
    <2>1. PICK d \in Nat : d = Sync!duration_to_ticks(p.deadline) /\ d # 0
      BY <1>2, <1>3, <1>5, SyncTicks
    <2>2. PICK n \in Nat : n = Sync!Less(d, MaxFiniteWait) /\ n # 0
      BY <2>1, SyncConstants DEF Sync!Less
    <2>3. PICK call : call = [p EXCEPT !.at = "begins", !.ticks = n]
      OBVIOUS
    <2>4. call \in SyncCall /\ call.at = "begins" /\ call.object = p.object /\ call.ticks = n
      BY <2>3 DEF SyncCall, SyncPlaces
    <2>5. SyncCallOk(call)
      BY <1>2, <2>2, <2>4, <1>3 DEF SyncCallOk
    <2>6. sync_calls' = [sync_calls EXCEPT ![t] = call]
      BY <1>2, <1>5, <2>1, <2>2, <2>3
    <2> QED BY <1>1, <2>4, <2>5, <2>6, SyncMoves
  <1> QED BY <1>4, <1>5 DEF Sync!deadline_wait_ticks

LEMMA SyncBegins ==
    ASSUME SyncInv, NEW t \in Threads, Sync!BeginWait(t)
    PROVE  SyncInv'
  <1>1. SyncSame /\ sync_calls[t].at = "begins"
    BY DEF Sync!BeginWait, Sync!At, Sync!handle, Sync!object, SyncSame
  <1>2. PICK p \in SyncCall : p = sync_calls[t] /\ SyncCallOk(p)
    BY DEF SyncInv, SyncTypes
  <1>3. p.object # 0 /\ p.ticks \in Nat \ {0}
    BY <1>1, <1>2 DEF SyncCallOk, SyncCall
  <1>4. PICK n \in Nat : n = Sync!Wakes(p.ticks)
    BY <1>3, SyncWakes DEF SyncInv
  <1>5. PICK call : call = [p EXCEPT !.at = "waits", !.ticks = 0, !.until = n]
    OBVIOUS
  <1>6. call \in SyncCall /\ call.at = "waits" /\ call.object = p.object
    BY <1>5 DEF SyncCall, SyncPlaces
  <1>7. SyncCallOk(call)
    BY <1>2, <1>3, <1>6 DEF SyncCallOk
  <1>8. sync_calls' = [sync_calls EXCEPT ![t] = call]
    BY <1>2, <1>4, <1>5 DEF Sync!BeginWait
  <1> QED BY <1>1, <1>6, <1>7, <1>8, SyncMoves

LEMMA SyncTimesOut ==
    ASSUME SyncInv, NEW t \in Threads, Sync!TimeOut(t)
    PROVE  SyncInv'
  <1>1. SyncSame /\ sync_calls[t].at = "waits"
    BY DEF Sync!TimeOut, Sync!handle, Sync!object, SyncSame
  <1>2. PICK p \in SyncCall : p = sync_calls[t] /\ SyncCallOk(p)
    BY DEF SyncInv, SyncTypes
  <1>3. p.object # 0
    BY <1>1, <1>2 DEF SyncCallOk
  <1>5. PICK call : call = [p EXCEPT !.at = "found", !.until = 0]
    OBVIOUS
  <1>6. call \in SyncCall /\ call.at = "found" /\ call.object = p.object
    BY <1>5 DEF SyncCall, SyncPlaces
  <1>7. SyncCallOk(call)
    BY <1>2, <1>3, <1>6 DEF SyncCallOk
  <1>8. sync_calls' = [sync_calls EXCEPT ![t] = call]
    BY <1>2, <1>5 DEF Sync!TimeOut, Sync!AfterTimeout
  <1> QED BY <1>1, <1>6, <1>7, <1>8, SyncMoves

\* Wait, Try, Succeed.
LEMMA SyncTakes ==
    ASSUME SyncInv, NEW t \in Threads, Sync!Wait(t) \/ Sync!Try(t) \/ Sync!Succeed(t)
    PROVE  SyncInv'
  <1>1. /\ UNCHANGED <<sync_kind, sync_implementation, sync_created, sync_failures, sync_part>>
        /\ sync_calls[t].at \in {"found", "waits", "last"}
    BY DEF Sync!Wait, Sync!Try, Sync!Succeed, Sync!At, Sync!handle
  <1>2. sync_calls[t].object # 0
    BY <1>1 DEF SyncInv, SyncCallOk
  <1>3. CASE Sync!Take(t)
    BY <1>1, <1>2, <1>3, SyncTake
  <1>4. CASE Sync!Returns(t) /\ UNCHANGED Sync!object
    <2>1. SyncSame
      BY <1>1, <1>4 DEF Sync!object, SyncSame
    <2> QED BY <1>4, <2>1, SyncReturns
  <1> QED BY <1>3, <1>4 DEF Sync!Wait, Sync!Try, Sync!Succeed

LEMMA SyncRefusal ==
    ASSUME SyncInv, NEW t \in Threads, Sync!Refuse(t) \/ Sync!GiveUp(t)
    PROVE  SyncInv'
  <1>1. SyncSame /\ Sync!Returns(t)
    BY DEF Sync!Refuse, Sync!GiveUp, Sync!handle, Sync!object, SyncSame
  <1> QED BY <1>1, SyncReturns

\* sleep_for.
LEMMA SyncSleep ==
    ASSUME SyncInv, NEW t \in Threads, NEW time \in Nat, Sync!Sleep(t, time)
    PROVE  SyncInv'
  <1>1. PICK n \in Nat : n = Sync!duration_to_ticks(time) /\ time <= n * Parts
    BY SyncTicks
  <1>2. PICK call : call = [Sync!Idle EXCEPT !.op = "sleep", !.at = "sleeps", !.deadline = time, !.ticks = n]
    OBVIOUS
  <1>3. /\ call \in SyncCall /\ call.at = "sleeps" /\ call.object = 0
        /\ call.deadline = time /\ call.ticks = n
    BY <1>2 DEF Sync!Idle, SyncCall, SyncOps, SyncPlaces, Sync!None
  <1>4. SyncCallOk(call)
    BY <1>1, <1>3 DEF SyncCallOk
  <1>5. sync_calls' = [sync_calls EXCEPT ![t] = call] /\ SyncSame
    BY <1>1, <1>2 DEF Sync!Sleep, Sync!handle, Sync!object, SyncSame
  <1> QED BY <1>3, <1>4, <1>5, SyncMoves

LEMMA SyncChunk ==
    ASSUME SyncInv, NEW t \in Threads, Sync!SleepChunk(t)
    PROVE  SyncInv'
  <1>1. SyncSame /\ sync_calls[t].at = "sleeps" /\ sync_calls[t].ticks > 0
    BY DEF Sync!SleepChunk, Sync!At, Sync!handle, Sync!object, SyncSame
  <1>2. PICK p \in SyncCall : p = sync_calls[t] /\ SyncCallOk(p)
    BY DEF SyncInv, SyncTypes
  <1>3. /\ p.ticks \in Nat \ {0} /\ p.deadline \in Nat /\ p.deadline <= p.ticks * Parts
        /\ p.object \in {0, sync_implementation}
    BY <1>1, <1>2 DEF SyncCallOk, SyncCall
  <1>4. PICK k \in Nat \ {0} : k = Sync!Less(p.ticks, MaxFiniteWait - 1) /\ k <= p.ticks
    BY <1>3, SyncConstants DEF Sync!Less
  <1>5. PICK n \in Nat : n = Sync!Wakes(k + 1) /\ k * Parts <= n
    BY <1>4, SyncWakes DEF SyncInv
  <1>6. PICK left \in Nat : left = p.ticks - k
    BY <1>3, <1>4
  <1>7. p.ticks * Parts = left * Parts + k * Parts /\ left * Parts \in Nat /\ k * Parts \in Nat
    BY <1>3, <1>4, <1>6, SyncConstants
  <1>8. PICK call : call = [p EXCEPT !.at = "dozes", !.ticks = left, !.until = n]
    OBVIOUS
  <1>9. /\ call \in SyncCall /\ call.at = "dozes" /\ call.object = p.object
        /\ call.deadline = p.deadline /\ call.ticks = left /\ call.until = n
    BY <1>8 DEF SyncCall, SyncPlaces
  <1>10. call.deadline <= call.ticks * Parts + call.until
    BY <1>3, <1>5, <1>7, <1>9
  <1>11. SyncCallOk(call)
    BY <1>3, <1>9, <1>10 DEF SyncCallOk
  <1>12. sync_calls' = [sync_calls EXCEPT ![t] = call]
    BY <1>2, <1>4, <1>5, <1>6, <1>8 DEF Sync!SleepChunk
  <1> QED BY <1>1, <1>9, <1>11, <1>12, SyncMoves

LEMMA SyncWake ==
    ASSUME SyncInv, NEW t \in Threads, Sync!Wake(t)
    PROVE  SyncInv' /\ sync_calls[t].deadline <= sync_calls[t].ticks * Parts
  <1>1. SyncSame /\ sync_calls[t].at = "dozes" /\ sync_calls[t].until = 0
    BY DEF Sync!Wake, Sync!At, Sync!handle, Sync!object, SyncSame
  <1>2. PICK p \in SyncCall : p = sync_calls[t] /\ SyncCallOk(p)
    BY DEF SyncInv, SyncTypes
  <1>3. p.ticks * Parts \in Nat
    BY SyncConstants DEF SyncCall
  <1>4. p.deadline <= p.ticks * Parts
    BY <1>1, <1>2, <1>3 DEF SyncCallOk
  <1>5. CASE Sync!Returns(t)
    BY <1>1, <1>2, <1>4, <1>5, SyncReturns
  <1>6. CASE Sync!Goes(t, "sleeps")
    <2>1. SyncInv'
      BY <1>1, <1>2, <1>4, <1>6, SyncGoes DEF SyncPlaces
    <2> QED BY <1>2, <1>4, <2>1
  <1> QED BY <1>5, <1>6 DEF Sync!Wake

LEMMA SyncDestroy ==
    ASSUME SyncInv, Sync!Destroy
    PROVE  SyncInv'
  <1>0. SyncTypes /\ SyncObject /\ \A u \in Threads : SyncCallOk(sync_calls[u])
    BY DEF SyncInv
  <1>1. /\ sync_implementation' = 0 /\ sync_taken' = 0 /\ sync_owner = "nobody"
        /\ \A t \in Threads : sync_calls[t].object = 0
        /\ UNCHANGED <<sync_kind, sync_calls, sync_created, sync_failures, sync_owner, sync_depth, sync_count, sync_held, sync_part>>
    BY DEF Sync!Destroy, Sync!None, Sync!Nobody
  <1>2. SyncTypes'
    BY <1>0, <1>1 DEF SyncTypes
  <1>3. SyncObject'
    BY <1>0, <1>1 DEF SyncObject
  <1>4. ASSUME NEW u \in Threads PROVE SyncCallOk(sync_calls[u])'
    <2>1. SyncCallOk(sync_calls[u]) /\ sync_calls[u].object = 0
      BY <1>0, <1>1
    <2> QED BY <1>1, <2>1 DEF SyncCallOk
  <1> QED BY <1>2, <1>3, <1>4 DEF SyncInv

\* Time passes: deadlines come nearer, those of sleeps with the ends of the chunks.
LEMMA SyncPass ==
    ASSUME SyncInv, Sync!Pass
    PROVE  SyncInv'
  <1>0. SyncTypes /\ SyncObject /\ \A u \in Threads : SyncCallOk(sync_calls[u])
    BY DEF SyncInv
  <1>1. UNCHANGED <<sync_kind, sync_implementation, sync_created, sync_failures, sync_owner, sync_depth,
                    sync_count, sync_held, sync_taken>>
    BY DEF Sync!Pass, Sync!handle, Sync!object
  <1>2. sync_part' \in Int /\ 0 <= sync_part' /\ sync_part' < Parts
    <2>1. PICK n \in Int : n = sync_part + 1
      BY <1>0 DEF SyncTypes
    <2>2. n % Parts \in Int /\ 0 <= n % Parts /\ n % Parts < Parts
      BY SyncConstants
    <2> QED BY <2>1, <2>2 DEF Sync!Pass
  <1>3. ASSUME NEW u \in Threads
        PROVE  sync_calls'[u] \in SyncCall /\ SyncCallOk(sync_calls[u])'
    <2>1. PICK p \in SyncCall : p = sync_calls[u] /\ SyncCallOk(p)
      BY <1>0 DEF SyncTypes
    <2>2. PICK d \in Nat, n \in Nat : d = Sync!Left(p.deadline) /\ n = Sync!Left(p.until)
                /\ (p.deadline = 0 => d = 0) /\ d <= p.deadline
                /\ (p.until = 0 => n = 0) /\ (p.until # 0 => n = p.until - 1) /\ (p.deadline # 0 => d = p.deadline - 1)
      BY DEF Sync!Left, SyncCall
    <2>3. PICK call : call = [p EXCEPT !.deadline = d, !.until = n]
      OBVIOUS
    <2>4. sync_calls'[u] = call
      BY <2>1, <2>2, <2>3 DEF Sync!Pass
    <2>5. /\ call \in SyncCall /\ call.at = p.at /\ call.object = p.object /\ call.ticks = p.ticks
          /\ call.deadline = d /\ call.until = n
      BY <2>3 DEF SyncCall
    <2>6. PICK k \in Nat : k = p.ticks * Parts
      BY SyncConstants DEF SyncCall
    <2>7. p.deadline \in Nat /\ p.until \in Nat
      BY DEF SyncCall
    <2>8. (p.deadline <= k => d <= k) /\ (p.deadline <= k + p.until => d <= k + n)
      BY <2>2, <2>6, <2>7
    <2>9. SyncCallOk(call)
      BY <2>1, <2>2, <2>5, <2>6, <2>8 DEF SyncCallOk
    <2> QED BY <1>1, <2>4, <2>5, <2>9 DEF SyncCallOk
  <1>4. sync_calls' \in [Threads -> SyncCall]
    <2>1. DOMAIN sync_calls' = Threads /\ sync_calls' = [t \in Threads |-> sync_calls'[t]]
      BY DEF Sync!Pass
    <2> QED BY <1>3, <2>1
  <1>5. SyncTypes'
    BY <1>0, <1>1, <1>2, <1>4 DEF SyncTypes
  <1>6. SyncObject'
    BY <1>0, <1>1 DEF SyncObject
  <1> QED BY <1>3, <1>5, <1>6 DEF SyncInv

LEMMA SyncStep == SyncInv /\ [Sync!Next]_sync_vars => SyncInv'
  <1> SUFFICES ASSUME SyncInv, [Sync!Next]_sync_vars PROVE SyncInv'
    OBVIOUS
  <1>1. CASE UNCHANGED sync_vars
    BY <1>1 DEF sync_vars, SyncInv, SyncTypes, SyncObject, SyncCallOk
  <1>2. ASSUME NEW t \in Threads, NEW op \in {"wait", "try", "put"}, Sync!Call(t, op, 0) PROVE SyncInv'
    BY <1>2, SyncCalls
  <1>3. ASSUME NEW t \in Threads, NEW ahead \in 0 .. MaxWait, Sync!Call(t, "timed", ahead) PROVE SyncInv'
    BY <1>3, SyncCalls
  <1>4. ASSUME NEW t \in Threads, NEW time \in 1 .. MaxWait, Sync!Sleep(t, time) PROVE SyncInv'
    BY <1>4, SyncSleep
  <1>5. ASSUME NEW t \in Threads,
               \/ Sync!Load(t) \/ Sync!LockInitialization(t) \/ Sync!Ensure(t) \/ Sync!Refuse(t)
               \/ Sync!Wait(t) \/ Sync!Try(t) \/ Sync!deadline_wait_ticks(t) \/ Sync!BeginWait(t)
               \/ Sync!Succeed(t) \/ Sync!TimeOut(t) \/ Sync!GiveUp(t) \/ Sync!Put(t)
               \/ Sync!SleepChunk(t) \/ Sync!Wake(t)
        PROVE  SyncInv'
    BY <1>5, SyncLoad, SyncLocks, SyncEnsure, SyncRefusal, SyncTakes, SyncDeadline, SyncBegins,
       SyncTimesOut, SyncPut, SyncChunk, SyncWake
  <1>6. CASE Sync!Destroy
    BY <1>6, SyncDestroy
  <1>7. CASE Sync!Pass
    BY <1>7, SyncPass
  <1> QED
    BY <1>1, <1>2, <1>3, <1>4, <1>5, <1>6, <1>7 DEF Sync!Next

\* The steps of a thread are steps of its own call, and only some end it.
SyncWorks(t) ==
    \/ Sync!LockInitialization(t) \/ Sync!deadline_wait_ticks(t) \/ Sync!BeginWait(t) \/ Sync!TimeOut(t)
    \/ Sync!SleepChunk(t)
SyncMayEnd(t) ==
    \/ Sync!Load(t) \/ Sync!Ensure(t) \/ Sync!Refuse(t) \/ Sync!Wait(t) \/ Sync!Try(t) \/ Sync!Succeed(t)
    \/ Sync!GiveUp(t) \/ Sync!Put(t) \/ Sync!Wake(t)
SyncBegin(t) ==
    \/ \E op \in {"wait", "try", "put"} : Sync!Call(t, op, 0)
    \/ \E ahead \in 0 .. MaxWait : Sync!Call(t, "timed", ahead)
    \/ \E time \in 1 .. MaxWait : Sync!Sleep(t, time)

LEMMA SyncPlaced ==
    ASSUME NEW calls, calls \in [Threads -> SyncCall], NEW t \in Threads, NEW where
    PROVE  /\ [calls EXCEPT ![t].at = where][t].at = where
           /\ \A x : [calls EXCEPT ![t].at = where, ![t].object = x][t].at = where
           /\ \A x : [calls EXCEPT ![t].at = where, ![t].ticks = x][t].at = where
           /\ \A x : [calls EXCEPT ![t].at = where, ![t].until = x][t].at = where
           /\ \A x, y : [calls EXCEPT ![t].at = where, ![t].ticks = x, ![t].until = y][t].at = where
  <1>1. PICK p \in SyncCall : p = calls[t]
    OBVIOUS
  <1>2. DOMAIN calls = Threads
    OBVIOUS
  <1> QED BY <1>1, <1>2 DEF SyncCall

LEMMA SyncGoesOn ==
    ASSUME SyncTypes, NEW t \in Threads, SyncWorks(t)
    PROVE  sync_calls'[t].at # "idle"
  <1>1. sync_calls \in [Threads -> SyncCall]
    BY DEF SyncTypes
  <1>2. ASSUME Sync!LockInitialization(t) PROVE sync_calls'[t].at # "idle"
    BY <1>1, <1>2, SyncPlaced DEF Sync!LockInitialization, Sync!Goes
  <1>3. ASSUME Sync!deadline_wait_ticks(t) PROVE sync_calls'[t].at # "idle"
    <2>1. \/ sync_calls' = [sync_calls EXCEPT ![t].at = "last"]
          \/ \E n : sync_calls' = [sync_calls EXCEPT ![t].at = "begins", ![t].ticks = n]
      BY <1>3 DEF Sync!deadline_wait_ticks, Sync!Goes
    <2>2. CASE sync_calls' = [sync_calls EXCEPT ![t].at = "last"]
      BY <1>1, <2>2, SyncPlaced
    <2>3. CASE \E n : sync_calls' = [sync_calls EXCEPT ![t].at = "begins", ![t].ticks = n]
      <3>1. PICK n : sync_calls' = [sync_calls EXCEPT ![t].at = "begins", ![t].ticks = n]
        BY <2>3
      <3>2. PICK p \in SyncCall : p = sync_calls[t]
        BY <1>1
      <3>3. sync_calls'[t] = [p EXCEPT !.at = "begins", !.ticks = n]
        BY <1>1, <3>1, <3>2
      <3> QED BY <3>2, <3>3 DEF SyncCall
    <2> QED BY <2>1, <2>2, <2>3
  <1>4. ASSUME Sync!BeginWait(t) PROVE sync_calls'[t].at # "idle"
    BY <1>1, <1>4, SyncPlaced DEF Sync!BeginWait
  <1>5. ASSUME Sync!TimeOut(t) PROVE sync_calls'[t].at # "idle"
    BY <1>1, <1>5, SyncPlaced DEF Sync!TimeOut, Sync!AfterTimeout
  <1>6. ASSUME Sync!SleepChunk(t) PROVE sync_calls'[t].at # "idle"
    <2>1. PICK p \in SyncCall : p = sync_calls[t]
      BY <1>1
    <2>2. PICK k, n : sync_calls'[t] = [p EXCEPT !.at = "dozes", !.ticks = k, !.until = n]
      BY <1>1, <1>6, <2>1 DEF Sync!SleepChunk
    <2> QED BY <2>1, <2>2 DEF SyncCall
  <1> QED BY <1>2, <1>3, <1>4, <1>5, <1>6 DEF SyncWorks

LEMMA SyncOwn ==
    ASSUME SyncTypes, NEW t \in Threads, SyncBegin(t) \/ SyncWorks(t) \/ SyncMayEnd(t), NEW u \in Threads \ {t}
    PROVE  sync_calls'[u] = sync_calls[u]
  <1>1. sync_calls \in [Threads -> SyncCall]
    BY DEF SyncTypes
  <1>2. CASE SyncBegin(t)
    BY <1>1, <1>2 DEF SyncBegin, Sync!Call, Sync!Sleep
  <1>3. CASE SyncWorks(t)
    BY <1>1, <1>3 DEF SyncWorks, Sync!LockInitialization, Sync!deadline_wait_ticks, Sync!BeginWait, Sync!TimeOut,
       Sync!AfterTimeout, Sync!SleepChunk, Sync!Goes
  <1>4. CASE SyncMayEnd(t)
    BY <1>1, <1>4 DEF SyncMayEnd, Sync!Load, Sync!Ensure, Sync!Refuse, Sync!Wait, Sync!Try, Sync!Succeed,
       Sync!GiveUp, Sync!Put, Sync!Wake, Sync!Take, Sync!Goes, Sync!Returns
  <1> QED BY <1>2, <1>3, <1>4

\* A timed call or a sleep that ends with nothing ends at its deadline.
SyncEndsWithNothing(t) ==
    /\ sync_calls[t].op \in {"timed", "sleep"} /\ sync_calls'[t] = Sync!Idle
    /\ sync_held'[t] = sync_held[t] /\ sync_taken' = sync_taken /\ ~Sync!OwnsIt(t)
    /\ sync_failures' = sync_failures

LEMMA SyncEndsAtDeadline ==
    ASSUME SyncInv, NEW t \in Threads, SyncEndsWithNothing(t), SyncMayEnd(t)
    PROVE  sync_calls[t].deadline = 0
  <1>0. SyncTypes /\ \A u \in Threads : SyncCallOk(sync_calls[u])
    BY DEF SyncInv
  <1>1. /\ sync_calls'[t].at = "idle" /\ sync_calls[t].op \in {"timed", "sleep"}
        /\ sync_calls \in [Threads -> SyncCall]
    BY <1>0 DEF SyncEndsWithNothing, Sync!Idle, SyncTypes
  <1>2. ASSUME Sync!Load(t) PROVE FALSE
    <2>1. PICK p \in SyncCall : p = sync_calls[t]
      BY <1>1
    <2>2. \/ \E x : sync_calls'[t] = [p EXCEPT !.at = "found", !.object = x]
          \/ sync_calls'[t] = [p EXCEPT !.at = "ensures"]
      BY <1>1, <1>2, <2>1 DEF Sync!Load, Sync!Goes
    <2> QED BY <1>1, <2>1, <2>2 DEF SyncCall
  <1>3. ASSUME Sync!Ensure(t) PROVE FALSE
    <2>1. sync_failures \in Nat /\ sync_failures' = sync_failures
      BY <1>0 DEF SyncTypes, SyncEndsWithNothing
    <2>2. PICK p \in SyncCall : p = sync_calls[t]
      BY <1>1
    <2>3. PICK x : x = sync_implementation'
      OBVIOUS
    <2>4. sync_calls' = [sync_calls EXCEPT ![t].at = "found", ![t].object = x]
      BY <1>3, <2>1, <2>3 DEF Sync!Ensure
    <2>5. sync_calls'[t] = [p EXCEPT !.at = "found", !.object = x]
      BY <1>1, <2>2, <2>4
    <2> QED BY <1>1, <2>2, <2>5 DEF SyncCall
  <1>4. ~Sync!Refuse(t) /\ ~Sync!Wait(t) /\ ~Sync!Try(t) /\ ~Sync!Put(t)
    BY <1>1 DEF SyncEndsWithNothing, Sync!Refuse, Sync!Wait, Sync!Try, Sync!Put, Sync!At
  <1>5. ~Sync!Succeed(t)
    <2>1. ASSUME Sync!Take(t) PROVE FALSE
      <3>1. /\ sync_held \in [Threads -> Int] /\ sync_taken \in Int
            /\ sync_held'[t] = sync_held[t] /\ sync_taken' = sync_taken
        BY <1>0 DEF SyncTypes, SyncEndsWithNothing
      <3>2. CASE sync_kind = "semaphore"
        BY <2>1, <3>1, <3>2 DEF Sync!Take
      <3>3. CASE sync_kind # "semaphore"
        <4>1. sync_held' = [sync_held EXCEPT ![t] = sync_held[t] + 1]
          BY <2>1, <3>3 DEF Sync!Take
        <4>2. sync_held'[t] = sync_held[t] + 1 /\ sync_held[t] \in Int
          BY <3>1, <4>1
        <4> QED BY <3>1, <4>2
      <3> QED BY <3>2, <3>3
    <2> QED BY <2>1 DEF Sync!Succeed
  <1>6. CASE Sync!GiveUp(t)
    BY <1>0, <1>6 DEF Sync!GiveUp, SyncCallOk
  <1>7. CASE Sync!Wake(t)
    <2>1. sync_calls[t].deadline <= sync_calls[t].ticks * Parts /\ sync_calls[t].deadline \in Nat
      BY <1>1, <1>7, SyncWake DEF SyncCall
    <2>2. sync_calls[t].ticks = 0
      <3>1. PICK p \in SyncCall : p = sync_calls[t]
        BY <1>1
      <3>2. sync_calls[t].ticks = 0 \/ sync_calls'[t] = [p EXCEPT !.at = "sleeps"]
        BY <1>1, <1>7, <3>1 DEF Sync!Wake, Sync!Goes
      <3> QED BY <1>1, <3>1, <3>2 DEF SyncCall
    <2> QED BY <2>1, <2>2, SyncConstants
  <1> QED BY <1>2, <1>3, <1>4, <1>5, <1>6, <1>7 DEF SyncMayEnd

LEMMA SyncNeverEarly ==
    ASSUME SyncInv, [Sync!Next]_sync_vars, NEW t \in Threads, SyncEndsWithNothing(t)
    PROVE  sync_calls[t].deadline = 0
  <1>0. SyncTypes
    BY DEF SyncInv
  <1>1. /\ sync_calls'[t].op = "none" /\ sync_calls'[t].at = "idle" /\ sync_calls[t].op # "none"
        /\ sync_calls \in [Threads -> SyncCall]
    BY <1>0 DEF SyncEndsWithNothing, Sync!Idle, SyncTypes
  <1>2. sync_calls'[t] # sync_calls[t]
    BY <1>1
  <1>3. ~UNCHANGED sync_vars /\ ~Sync!Destroy
    BY <1>2 DEF sync_vars, Sync!Destroy
  <1>4. ~Sync!Pass
    <2>1. ASSUME Sync!Pass PROVE sync_calls'[t].op = sync_calls[t].op
      <3>1. PICK p \in SyncCall : p = sync_calls[t]
        BY <1>1
      <3>2. PICK d, n : sync_calls'[t] = [p EXCEPT !.deadline = d, !.until = n]
        BY <2>1, <3>1 DEF Sync!Pass
      <3> QED BY <3>1, <3>2 DEF SyncCall
    <2> QED BY <1>1, <2>1
  <1>5. PICK u \in Threads : SyncBegin(u) \/ SyncWorks(u) \/ SyncMayEnd(u)
    BY <1>3, <1>4 DEF Sync!Next, SyncBegin, SyncWorks, SyncMayEnd
  <1>6. u = t
    BY <1>0, <1>2, <1>5, SyncOwn
  <1>7. ~SyncBegin(t)
    BY <1>1 DEF SyncBegin, Sync!Call, Sync!Sleep, Sync!Idle
  <1>8. ~SyncWorks(t)
    BY <1>0, <1>1, SyncGoesOn
  <1> QED BY <1>5, <1>6, <1>7, <1>8, SyncEndsAtDeadline

\* All threads use the one kernel object, a timed call or a sleep is never early,
\* and no interrupt sees or makes half of an atomic operation: for every set of
\* threads and length of a tick.
THEOREM SynchronizationIsSoundHolds == Spec => SynchronizationIsSound
  <1> DEFINE Inv == SyncInv /\ AtomInv
             Safe == /\ Sync!OneObject
                     /\ subject = "Atomics" => Atomics!OperationsAreAtomic
             Stable == \A t \in Threads :
                          (sync_calls[t].op \in {"timed", "sleep"} /\ sync_calls'[t] = Sync!Idle
                              /\ sync_held'[t] = sync_held[t] /\ sync_taken' = sync_taken /\ ~Sync!OwnsIt(t)
                              /\ sync_failures' = sync_failures) => sync_calls[t].deadline = 0
  <1>1. Init => Inv
    BY SyncInitial, AtomInitial DEF Init
  <1>2. [Next]_vars => [Sync!Next]_sync_vars /\ [Atomics!Next]_atom_vars
    BY DEF Next, vars
  <1>3. Inv /\ [Next]_vars => Inv'
    BY <1>2, SyncStep, AtomStep
  <1>4. Inv => Safe
    BY SyncSafe, AtomSafe
  <1>5. Inv /\ [Next]_vars => [Stable]_(Sync!vars)
    BY <1>2, SyncNeverEarly DEF SyncEndsWithNothing
  <1>6. Spec => [][Stable]_(Sync!vars) /\ []Safe
    <2> HIDE DEF Inv, Safe, Stable
    <2> QED BY <1>1, <1>3, <1>4, <1>5, PTL DEF Spec
  <1> QED
    BY <1>6 DEF SynchronizationIsSound, Sync!NeverEarly

-----------------------------------------------------------------------------
(* backend.cpp: the steady and the system clock.                            *)

ClockReader == [at : {"idle", "timer", "compares"}, since : Nat, least : Int, ticks : Int, time : Int, previous : Int]
ClockTypes ==
    /\ clock_now \in Nat /\ clock_start \in Nat /\ clock_start < Counts /\ clock_start <= clock_now
    /\ clock_tick_epoch \in Nat /\ clock_last_tick \in Nat /\ clock_rollover \in Int
    /\ clock_offset \in Int /\ clock_last_system_time \in Int
    /\ clock_readers \in [Threads -> ClockReader]
\* The last sample of the ticks is less than a revolution old.
ClockTicks ==
    /\ \E revolutions \in Nat : clock_tick_epoch = TickWrap * revolutions
    /\ clock_last_tick < TickWrap
    /\ clock_tick_epoch + clock_last_tick <= clock_now \div Counts
    /\ clock_tick_epoch + clock_last_tick >= clock_rollover - (TickWrap \div 2 - 1)
    /\ clock_now \div Counts <= clock_rollover + Late
ClockCall(reader) ==
    reader.at # "idle" =>
        /\ reader.since <= clock_now /\ clock_now <= reader.since + MaxDelay
        /\ reader.least <= clock_last_system_time
        /\ reader.at = "timer" => reader.ticks = reader.since \div Counts
        /\ reader.at = "compares" =>
              /\ reader.time > reader.since - clock_start - Counts
              /\ reader.time < clock_now - clock_start + Counts
              /\ reader.least <= reader.previous /\ reader.previous <= clock_last_system_time
ClockInv ==
    /\ ClockTypes /\ ClockTicks
    /\ clock_last_system_time < clock_now - clock_start + Counts
    /\ \A t \in Threads : ClockCall(clock_readers[t])

LEMMA ClockConstants ==
    /\ Counts \in Nat \ {0} /\ TickWrap \in Nat \ {0, 1} /\ Modulus \in Nat \ {0}
    /\ Late \in Nat /\ Late <= TickWrap \div 2
    /\ MaxDelay \in Nat /\ 2 * (Counts + MaxDelay) <= Modulus
  BY ConstantsAssumption DEF ConstantsAssumption

\* Half a revolution of the ticks.
LEMMA ClockHalf ==
    /\ TickWrap \div 2 \in Nat \ {0} /\ 2 * (TickWrap \div 2) <= TickWrap
  BY ClockConstants, SMT

\* A time and its tick.
LEMMA ClockTickOf ==
    ASSUME NEW time \in Nat
    PROVE  time \div Counts \in Nat /\ (time \div Counts) * Counts <= time /\ time - Counts < (time \div Counts) * Counts
  <1>1. PICK q \in Int, r \in 0 .. Counts - 1 : time = Counts * q + r /\ time \div Counts = q
    BY ClockConstants, DivParts
  <1>2. Counts * q \in Int /\ q * Counts = Counts * q
    BY ClockConstants
  <1>3. q >= 0
    <2>1. ASSUME q <= -1 PROVE FALSE
      <3>1. Counts * q <= Counts * (-1)
        BY <2>1, ClockConstants
      <3> QED BY <1>1, <1>2, <3>1, ClockConstants
    <2> QED BY <2>1
  <1> QED BY <1>1, <1>2, <1>3, ClockConstants

LEMMA ClockTicksGrow ==
    ASSUME NEW time \in Nat
    PROVE  time \div Counts <= (time + 1) \div Counts
  <1>1. PICK a \in Nat : a = time \div Counts /\ a * Counts <= time
    BY ClockTickOf
  <1>0. PICK next \in Nat : next = time + 1
    OBVIOUS
  <1>2. PICK b \in Nat : b = (time + 1) \div Counts /\ next - Counts < b * Counts
    BY <1>0, ClockTickOf, ZenonT(30)
  <1>3. ASSUME a >= b + 1 PROVE FALSE
    <2>1. a * Counts >= (b + 1) * Counts /\ (b + 1) * Counts = b * Counts + Counts /\ b * Counts \in Nat /\ a * Counts \in Nat
      BY <1>3, ClockConstants
    <2> QED BY <1>0, <1>1, <1>2, <2>1, ClockConstants
  <1> QED BY <1>1, <1>2, <1>3

\* extend_tick_counter: a sample less than a revolution old tells the epoch.
LEMMA ClockExtends ==
    ASSUME ClockTypes, ClockTicks
    PROVE  /\ Clock!steady_ticks = clock_now \div Counts
           /\ \E revolutions \in Nat : Clock!Epoch = TickWrap * revolutions
           /\ (clock_now \div Counts) % TickWrap \in 0 .. TickWrap - 1
           /\ Clock!Epoch + ((clock_now \div Counts) % TickWrap) = clock_now \div Counts
  <1>1. PICK tick \in Nat : tick = clock_now \div Counts
    BY ClockTickOf DEF ClockTypes
  <1>a. tick \in Int
    OBVIOUS
  <1>2. PICK q \in Int, r \in 0 .. TickWrap - 1 : tick = TickWrap * q + r /\ tick % TickWrap = r
    BY <1>a, ClockConstants, DivParts, ZenonT(30)
  <1>3. PICK e \in Nat : clock_tick_epoch = TickWrap * e
    BY DEF ClockTicks
  <1>4. /\ TickWrap * e + clock_last_tick <= tick /\ tick < TickWrap * e + clock_last_tick + TickWrap
        /\ clock_last_tick \in 0 .. TickWrap - 1 /\ TickWrap * e \in Nat /\ TickWrap * q \in Int
    BY <1>1, <1>3, ClockHalf, ClockConstants DEF ClockTicks, ClockTypes
  <1>5. CASE r >= clock_last_tick
    <2>1. q = e
      <3>1. ASSUME q <= e - 1 PROVE FALSE
        <4>1. TickWrap * q <= TickWrap * e - TickWrap
          BY <3>1, ClockConstants
        <4> QED BY <1>2, <1>4, <4>1, ClockConstants
      <3>2. ASSUME q >= e + 1 PROVE FALSE
        <4>1. TickWrap * q >= TickWrap * e + TickWrap
          BY <3>2, ClockConstants
        <4> QED BY <1>2, <1>4, <1>5, <4>1, ClockConstants
      <3> QED BY <3>1, <3>2
    <2>2. Clock!Epoch = TickWrap * e
      BY <1>1, <1>2, <1>3, <1>4, <1>5 DEF Clock!Epoch, Clock!RollsOver, Clock!TrueTick
    <2> QED BY <1>1, <1>2, <2>1, <2>2 DEF Clock!steady_ticks, Clock!TrueTick
  <1>6. CASE r < clock_last_tick
    <2>1. q = e + 1
      <3>1. ASSUME q <= e PROVE FALSE
        <4>1. TickWrap * q <= TickWrap * e
          BY <3>1, ClockConstants
        <4> QED BY <1>2, <1>4, <1>6, <4>1, ClockConstants
      <3>2. ASSUME q >= e + 2 PROVE FALSE
        <4>1. TickWrap * q >= TickWrap * e + TickWrap + TickWrap
          BY <3>2, ClockConstants
        <4> QED BY <1>2, <1>4, <4>1, ClockConstants
      <3> QED BY <3>1, <3>2
    <2>2. Clock!Epoch = TickWrap * e + TickWrap
      BY <1>1, <1>2, <1>3, <1>4, <1>6 DEF Clock!Epoch, Clock!RollsOver, Clock!TrueTick
    <2>3. TickWrap * q = TickWrap * e + TickWrap
      BY <2>1, ClockConstants
    <2>4. q \in Nat
      BY <2>1
    <2> QED BY <1>1, <1>2, <2>2, <2>3, <2>4 DEF Clock!steady_ticks, Clock!TrueTick
  <1> QED BY <1>4, <1>5, <1>6

\* high_resolution_elapsed_nanoseconds: ticks less than half a revolution of the
\* timer off tell how often it has wrapped.
LEMMA ClockWraps ==
    ASSUME NEW revolution \in Nat \ {0}, NEW time \in Nat, NEW coarse \in Nat, NEW elapsed,
           elapsed = time % revolution,
           2 * (coarse - time) < revolution, 2 * (time - coarse) < revolution
    PROVE  elapsed + (IF coarse >= elapsed
                      THEN ((coarse - elapsed) \div revolution)
                               + IF ((coarse - elapsed) % revolution) >= revolution - ((coarse - elapsed) % revolution)
                                 THEN 1 ELSE 0
                      ELSE 0) * revolution = time
  <1>0. time \in Int
    OBVIOUS
  <1>1. PICK k \in Int, e \in 0 .. revolution - 1 : time = revolution * k + e /\ time % revolution = e
    BY <1>0, DivParts, ZenonT(30)
  <1>2. elapsed = e /\ revolution * k \in Int /\ k * revolution = revolution * k
    BY <1>1
  <1>3. k >= 0
    <2>1. ASSUME k <= -1 PROVE FALSE
      <3>1. revolution * k <= -revolution
        BY <2>1
      <3> QED BY <1>1, <3>1
    <2> QED BY <2>1
  <1>4. CASE coarse < e
    <2>1. ASSUME k >= 1 PROVE FALSE
      <3>1. revolution * k >= revolution
        BY <2>1
      <3> QED BY <1>1, <1>4, <3>1
    <2>2. k = 0 /\ time = e
      BY <1>1, <1>3, <2>1
    <2> QED BY <1>2, <1>4, <2>2
  <1>5. CASE coarse >= e
    <2>1. PICK d \in Nat : d = coarse - e
      BY <1>5
    <2>2. PICK x \in Int : x = coarse - time /\ d = revolution * k + x /\ 2 * x < revolution /\ -(2 * x) < revolution
      BY <1>1, <1>2, <2>1
    <2>3. CASE x >= 0
      <3>1. x \in 0 .. revolution - 1
        BY <2>2, <2>3
      <3>2. d \div revolution = k /\ d % revolution = x
        BY <2>2, <3>1, DivUnique, ModUnique
      <3>3. ~ (x >= revolution - x)
        BY <2>2
      <3>4. k + 0 = k
        OBVIOUS
      <3> QED BY <1>1, <1>2, <1>5, <2>1, <3>2, <3>3, <3>4
    <2>4. CASE x < 0
      <3>1. PICK y \in 0 .. revolution - 1 : y = revolution + x
        BY <2>2, <2>4
      <3>2. PICK j \in Int : j = k - 1
        OBVIOUS
      <3>3. d = revolution * j + y
        BY <2>2, <3>1, <3>2, <1>2
      <3>4. d \div revolution = j /\ d % revolution = y
        BY <3>1, <3>3, DivUnique, ModUnique
      <3>5. y >= revolution - y
        BY <2>2, <3>1
      <3>6. j + 1 = k
        BY <3>2
      <3> QED BY <1>1, <1>2, <1>5, <2>1, <3>4, <3>5, <3>6
    <2> QED BY <2>3, <2>4
  <1> QED BY <1>4, <1>5

\* The difference of two values of the wrapped counter.
LEMMA ClockDifference ==
    ASSUME NEW w \in Nat \ {0}, NEW a \in Int, NEW b \in Int, NEW d \in Int, d = a - b
    PROVE  ((a % w) - (b % w)) % w = d % w
  <1>1. PICK p \in Int, m \in 0 .. w - 1 : a = w * p + m /\ a % w = m
    BY DivParts, ZenonT(30)
  <1>2. PICK q \in Int, n \in 0 .. w - 1 : b = w * q + n /\ b % w = n
    BY DivParts, ZenonT(30)
  <1>3. PICK k \in Int, e \in 0 .. w - 1 : d = w * k + e /\ d % w = e
    BY DivParts, ZenonT(30)
  <1>4. PICK j \in Int : j = k - p + q
    OBVIOUS
  <1>5. /\ m \in Int /\ n \in Int /\ e \in Int
        /\ w * p \in Int /\ w * q \in Int /\ w * k \in Int /\ w * j = w * k - w * p + w * q
    BY <1>4
  <1>6. m - n = w * j + e
    BY <1>1, <1>2, <1>3, <1>5
  <1>7. (w * j + e) % w = e
    BY ModUnique, ZenonT(30)
  <1> QED BY <1>1, <1>2, <1>3, <1>6, <1>7

LEMMA ClockIdle == Clock!Idle \in ClockReader /\ Clock!Idle.at = "idle"
  BY DEF Clock!Idle, ClockReader

LEMMA ClockInitial == Clock!Init => ClockInv
  <1> SUFFICES ASSUME Clock!Init PROVE ClockInv
    OBVIOUS
  <1>1. /\ Clock!Idle \in ClockReader /\ Clock!Idle.at = "idle"
        /\ clock_readers = [t \in Threads |-> Clock!Idle]
    BY ClockIdle DEF Clock!Init
  <1>2. clock_start \in Nat /\ clock_start < Counts /\ clock_now = clock_start
    BY ClockConstants DEF Clock!Init
  <1>3. clock_now \div Counts = 0
    <2>1. PICK q \in Nat : q = clock_now \div Counts /\ q * Counts <= clock_now
      BY <1>2, ClockTickOf
    <2>2. ASSUME q >= 1 PROVE FALSE
      <3>1. q * Counts >= Counts
        BY <2>2, ClockConstants
      <3> QED BY <1>2, <2>1, <3>1, ClockConstants
    <2> QED BY <2>1, <2>2
  <1>4. /\ clock_tick_epoch = 0 /\ clock_last_tick = 0 /\ clock_rollover = TickWrap \div 2 - 1
        /\ clock_last_system_time = 0 /\ clock_offset \in Int
    BY <1>3, ClockHalf, ClockConstants DEF Clock!Init, Clock!TrueTick, Clock!ROLLOVER_SAMPLE_TICKS
  <1>5. ClockTypes
    BY <1>1, <1>2, <1>4, ClockHalf, ClockConstants DEF ClockTypes
  <1>6. ClockTicks
    <2>1. 0 \in Nat /\ TickWrap * 0 = 0
      BY ClockConstants
    <2> QED BY <1>3, <1>4, <2>1, ClockHalf, ClockConstants DEF ClockTicks
  <1>7. \A t \in Threads : ClockCall(clock_readers[t])
    BY <1>1 DEF ClockCall
  <1> QED BY <1>2, <1>4, <1>5, <1>6, <1>7, ClockConstants DEF ClockInv

\* A sample of the ticks, by a reader or by the timer that is there for it.
LEMMA ClockSample ==
    ASSUME ClockTypes, ClockTicks, Clock!Extends, UNCHANGED clock_now,
           clock_rollover' \in Int, clock_rollover <= clock_rollover',
           clock_rollover' - (TickWrap \div 2 - 1) <= clock_now \div Counts \/ UNCHANGED clock_rollover
    PROVE  ClockTicks' /\ clock_tick_epoch' \in Nat /\ clock_last_tick' \in Nat
  <1>1. PICK tick \in Nat : tick = clock_now \div Counts
    BY ClockTickOf DEF ClockTypes
  <1>2. PICK e \in Nat : clock_tick_epoch' = TickWrap * e
    BY ClockExtends DEF Clock!Extends
  <1>3. clock_last_tick' \in 0 .. TickWrap - 1 /\ TickWrap * e + clock_last_tick' = tick
    BY <1>1, <1>2, ClockExtends DEF Clock!Extends, Clock!TrueTick
  <1>4. TickWrap * e \in Nat
    BY ClockConstants
  <1>5. PICK half \in Int : half = TickWrap \div 2 - 1 /\ half >= 0
    BY ClockHalf
  <1>6. tick >= clock_rollover - half /\ tick <= clock_rollover + Late
    BY <1>1, <1>5, ClockConstants DEF ClockTicks, ClockTypes
  <1>7. tick >= clock_rollover' - half /\ tick <= clock_rollover' + Late
    BY <1>1, <1>5, <1>6, ClockConstants DEF ClockTypes
  <1>8. clock_now' \div Counts = tick
    BY <1>1
  <1>9. clock_tick_epoch' + clock_last_tick' = tick /\ clock_last_tick' < TickWrap
    <2>1. clock_tick_epoch' + clock_last_tick' = tick
      BY <1>2, <1>3, Zenon
    <2>2. clock_last_tick' < TickWrap
      BY <1>3, ClockConstants
    <2> QED BY <2>1, <2>2
  <1>10. ClockTicks'
    BY <1>2, <1>5, <1>7, <1>8, <1>9 DEF ClockTicks
  <1> QED BY <1>2, <1>3, <1>4, <1>10

LEMMA ClockRollover ==
    ASSUME ClockInv, Clock!rollover_timer_entry
    PROVE  ClockInv'
  <1>0. ClockTypes /\ ClockTicks /\ \A t \in Threads : ClockCall(clock_readers[t])
    BY DEF ClockInv
  <1>1. UNCHANGED <<clock_now, clock_start, clock_offset, clock_last_system_time, clock_readers>> /\ Clock!Extends
    BY DEF Clock!rollover_timer_entry, Clock!timer
  <1>2. PICK half \in Nat : half = TickWrap \div 2 - 1
    BY ClockHalf
  <1>3. clock_rollover' = clock_rollover + half /\ clock_now \div Counts >= clock_rollover /\ clock_now \div Counts \in Nat
    BY <1>0, <1>2, ClockTickOf DEF Clock!rollover_timer_entry, Clock!ROLLOVER_SAMPLE_TICKS, Clock!TrueTick, ClockTypes
  <1>4. /\ clock_rollover' \in Int /\ clock_rollover <= clock_rollover'
        /\ clock_rollover' - (TickWrap \div 2 - 1) <= clock_now \div Counts
    BY <1>0, <1>2, <1>3 DEF ClockTypes
  <1>5. ClockTicks' /\ clock_tick_epoch' \in Nat /\ clock_last_tick' \in Nat
    BY <1>0, <1>1, <1>4, ClockSample
  <1>6. ClockTypes'
    BY <1>0, <1>1, <1>4, <1>5 DEF ClockTypes
  <1>7. \A t \in Threads : ClockCall(clock_readers[t])'
    BY <1>0, <1>1 DEF ClockCall
  <1> QED BY <1>1, <1>5, <1>6, <1>7 DEF ClockInv

\* A step of one reader that leaves true time and the ticks.
LEMMA ClockReads ==
    ASSUME ClockInv, NEW t \in Threads, NEW call \in ClockReader, ClockCall(call)',
           clock_readers' = [clock_readers EXCEPT ![t] = call],
           UNCHANGED <<clock_now, clock_start, clock_rollover, clock_offset>>,
           ClockTicks', clock_tick_epoch' \in Nat, clock_last_tick' \in Nat,
           clock_last_system_time' \in Int, clock_last_system_time <= clock_last_system_time',
           clock_last_system_time' < clock_now - clock_start + Counts
    PROVE  ClockInv'
  <1>0. ClockTypes /\ ClockTicks /\ \A u \in Threads : ClockCall(clock_readers[u])
    BY DEF ClockInv
  <1>1. ClockTypes'
    BY <1>0 DEF ClockTypes
  <1>2. ASSUME NEW u \in Threads PROVE ClockCall(clock_readers[u])'
    <2>1. CASE u = t
      BY <1>0, <2>1 DEF ClockTypes
    <2>2. CASE u # t
      <3>1. PICK p \in ClockReader : p = clock_readers[u] /\ p = clock_readers'[u] /\ ClockCall(p)
        BY <1>0, <2>2 DEF ClockTypes
      <3>2. ClockCall(p)'
        BY <1>0, <3>1 DEF ClockCall, ClockReader, ClockTypes
      <3> QED BY <3>1, <3>2 DEF ClockCall
    <2> QED BY <2>1, <2>2
  <1> QED BY <1>1, <1>2 DEF ClockInv

LEMMA ClockReadTicks ==
    ASSUME ClockInv, NEW t \in Threads, Clock!ReadTicks(t)
    PROVE  ClockInv'
  <1>0. ClockTypes /\ ClockTicks /\ clock_last_system_time < clock_now - clock_start + Counts
    BY DEF ClockInv
  <1>1. /\ UNCHANGED <<clock_now, clock_start, clock_rollover, clock_offset, clock_last_system_time>>
        /\ Clock!Extends
    BY DEF Clock!ReadTicks, Clock!timer
  <1>2. ClockTicks' /\ clock_tick_epoch' \in Nat /\ clock_last_tick' \in Nat
    BY <1>0, <1>1, ClockSample DEF ClockTypes
  <1>3. PICK tick \in Nat : tick = clock_now \div Counts /\ tick = Clock!steady_ticks
    BY <1>0, ClockTickOf, ClockExtends DEF ClockTypes
  <1>4. PICK now \in Nat, last \in Int : now = clock_now /\ last = clock_last_system_time
    BY <1>0 DEF ClockTypes
  <1>a. PICK idle \in ClockReader : idle = Clock!Idle
    BY ClockIdle
  <1>5. PICK call : call = [idle EXCEPT !.at = "timer", !.since = now, !.least = last, !.ticks = tick]
    OBVIOUS
  <1>6. /\ call \in ClockReader /\ call.at = "timer" /\ call.since = now /\ call.least = last /\ call.ticks = tick
    <2>1. /\ call.at = "timer" /\ call.since = now /\ call.least = last /\ call.ticks = tick
          /\ call.time = idle.time /\ call.previous = idle.previous
      BY <1>5 DEF ClockReader
    <2>2. call \in ClockReader
      BY <1>5, tick \in Int DEF ClockReader
    <2> QED BY <2>1, <2>2
  <1>7. ClockCall(call)'
    BY <1>1, <1>3, <1>4, <1>6, ClockConstants DEF ClockCall
  <1>8. clock_readers' = [clock_readers EXCEPT ![t] = call]
    BY <1>3, <1>4, <1>a, <1>5 DEF Clock!ReadTicks, Clock!Goes
  <1>9. /\ clock_last_system_time' \in Int /\ clock_last_system_time <= clock_last_system_time'
        /\ clock_last_system_time' < clock_now - clock_start + Counts
    BY <1>0, <1>1 DEF ClockTypes
  <1> QED BY <1>1, <1>2, <1>6, <1>7, <1>8, <1>9, ClockReads

\* What a reader makes of the timer and of the ticks it has read: true to a tick.
LEMMA ClockElapsed ==
    ASSUME ClockInv, NEW t \in Threads, clock_readers[t].at = "timer",
           NEW time, time = Clock!Coarse(t) \/ time = Clock!Elapsed(t) + Clock!Wraps(t) * Modulus
    PROVE  /\ time \in Int /\ time > clock_readers[t].since - clock_start - Counts
           /\ time < clock_now - clock_start + Counts
  <1>0. ClockTypes /\ ClockTicks /\ ClockCall(clock_readers[t]) /\ clock_readers[t] \in ClockReader
    BY DEF ClockInv, ClockTypes
  <1>1. PICK since \in Nat : since = clock_readers[t].since /\ since <= clock_now /\ clock_now <= since + MaxDelay
                             /\ clock_readers[t].ticks = since \div Counts
    BY <1>0 DEF ClockReader, ClockCall
  <1>2. PICK tick \in Nat : tick = since \div Counts /\ tick * Counts <= since /\ since - Counts < tick * Counts
    BY ClockTickOf
  <1>3. clock_start \div Counts = 0
    <2>1. PICK q \in Nat : q = clock_start \div Counts /\ q * Counts <= clock_start
      BY <1>0, ClockTickOf DEF ClockTypes
    <2>2. ASSUME q >= 1 PROVE FALSE
      <3>1. q * Counts >= Counts
        BY <2>2, ClockConstants
      <3> QED BY <1>0, <2>1, <3>1, ClockConstants DEF ClockTypes
    <2> QED BY <2>1, <2>2
  <1>4. PICK coarse \in Nat : coarse = Clock!Coarse(t) /\ coarse <= since /\ since - Counts < coarse
    <2>1. tick * Counts \in Nat /\ tick - 0 = tick
      BY ClockConstants
    <2> QED BY <1>1, <1>2, <1>3, <2>1 DEF Clock!Coarse
  <1>5. PICK now \in Nat, start \in Nat : now = clock_now /\ start = clock_start /\ start <= now /\ start < Counts
    BY <1>0 DEF ClockTypes
  <1>6. CASE time = Clock!Coarse(t)
    BY <1>1, <1>4, <1>5, <1>6, ClockConstants
  <1>7. CASE time = Clock!Elapsed(t) + Clock!Wraps(t) * Modulus
    <2>1. PICK true \in Nat : true = now - start
      BY <1>5
    <2>2. PICK elapsed : elapsed = Clock!Elapsed(t)
      OBVIOUS
    <2>3. elapsed = true % Modulus
      <3>1. PICK offset \in Int : offset = clock_offset
        BY <1>0 DEF ClockTypes
      <3>2. PICK a \in Int, b \in Int : a = now + offset /\ b = start + offset /\ a - b = true
        BY <2>1
      <3>3. elapsed = ((a % Modulus) - (b % Modulus)) % Modulus
        BY <1>5, <2>2, <3>1, <3>2 DEF Clock!Elapsed, Clock!Counter
      <3>4. true \in Int /\ true = a - b
        BY <3>2
      <3>5. ((a % Modulus) - (b % Modulus)) % Modulus = true % Modulus
        <4>1. Modulus \in Nat \ {0}
          BY ClockConstants
        <4> QED BY <3>4, <4>1, ClockDifference, ZenonT(90)
      <3> QED BY <3>3, <3>5
    <2>4. 2 * (coarse - true) < Modulus /\ 2 * (true - coarse) < Modulus
      BY <1>1, <1>4, <1>5, <2>1, ClockConstants
    <2>5. elapsed + (IF coarse >= elapsed
                     THEN ((coarse - elapsed) \div Modulus)
                              + IF ((coarse - elapsed) % Modulus) >= Modulus - ((coarse - elapsed) % Modulus)
                                THEN 1 ELSE 0
                     ELSE 0) * Modulus = true
      BY <2>3, <2>4, ClockConstants, ClockWraps
    <2>6. time = true
      BY <1>4, <1>7, <2>2, <2>5 DEF Clock!Wraps
    <2> QED BY <1>1, <1>5, <2>1, <2>6, ClockConstants
  <1> QED BY <1>6, <1>7

LEMMA ClockReadTimer ==
    ASSUME ClockInv, NEW t \in Threads, Clock!ReadTimer(t)
    PROVE  ClockInv'
  <1>0. ClockTypes /\ ClockTicks /\ ClockCall(clock_readers[t])
        /\ clock_last_system_time < clock_now - clock_start + Counts
    BY DEF ClockInv
  <1>1. UNCHANGED <<clock_now, clock_start, clock_rollover, clock_offset, clock_last_system_time,
                    clock_tick_epoch, clock_last_tick>>
    BY DEF Clock!ReadTimer, Clock!timer, Clock!ticker
  <1>2. PICK p \in ClockReader : p = clock_readers[t] /\ ClockCall(p) /\ p.at = "timer"
    BY <1>0 DEF ClockTypes, Clock!ReadTimer
  <1>3. PICK time : /\ time = Clock!Coarse(t) \/ time = Clock!Elapsed(t) + Clock!Wraps(t) * Modulus
                    /\ time = IF clock_high_resolution_counter_available
                              THEN Clock!high_resolution_elapsed_nanoseconds(t) ELSE Clock!Coarse(t)
    BY DEF Clock!high_resolution_elapsed_nanoseconds
  <1>4. time \in Int /\ time > p.since - clock_start - Counts /\ time < clock_now - clock_start + Counts
    BY <1>2, <1>3, ClockElapsed
  <1>5. PICK last \in Int : last = clock_last_system_time
    BY <1>0 DEF ClockTypes
  <1>6. PICK call : call = [p EXCEPT !.at = "compares", !.ticks = 0, !.previous = last, !.time = time]
    OBVIOUS
  <1>7. /\ call \in ClockReader /\ call.at = "compares" /\ call.since = p.since /\ call.least = p.least
        /\ call.previous = last /\ call.time = time
    <2>1. PICK exact \in Int : exact = time
      BY <1>4
    <2>a. PICK zero \in Int, place \in {"idle", "timer", "compares"} : zero = 0 /\ place = "compares"
      OBVIOUS
    <2>2. call = [p EXCEPT !.at = place, !.ticks = zero, !.previous = last, !.time = exact]
      BY <1>6, <2>1, <2>a
    <2>3. call \in ClockReader
      BY <2>2 DEF ClockReader
    <2>4. /\ call.at = "compares" /\ call.since = p.since /\ call.least = p.least
          /\ call.previous = last /\ call.time = exact
      BY <2>2, <2>a DEF ClockReader
    <2> QED BY <2>1, <2>3, <2>4
  <1>8. ClockCall(call)'
    BY <1>1, <1>2, <1>4, <1>5, <1>7 DEF ClockCall
  <1>9. clock_readers' = [clock_readers EXCEPT ![t] = call]
    BY <1>2, <1>3, <1>5, <1>6 DEF Clock!ReadTimer, Clock!Goes
  <1>10. ClockTicks'
    BY <1>0, <1>1 DEF ClockTicks
  <1>11. /\ clock_last_system_time' \in Int /\ clock_last_system_time <= clock_last_system_time'
         /\ clock_last_system_time' < clock_now - clock_start + Counts
         /\ clock_tick_epoch' \in Nat /\ clock_last_tick' \in Nat
    BY <1>0, <1>1 DEF ClockTypes
  <1> QED BY <1>1, <1>7, <1>8, <1>9, <1>10, <1>11, ClockReads

LEMMA ClockPublish ==
    ASSUME ClockInv, NEW t \in Threads, Clock!Publish(t)
    PROVE  ClockInv'
  <1>0. ClockTypes /\ ClockTicks /\ ClockCall(clock_readers[t])
        /\ clock_last_system_time < clock_now - clock_start + Counts
    BY DEF ClockInv
  <1>1. UNCHANGED <<clock_now, clock_start, clock_rollover, clock_offset, clock_tick_epoch, clock_last_tick>>
    BY DEF Clock!Publish, Clock!timer, Clock!ticker
  <1>2. PICK p \in ClockReader : p = clock_readers[t] /\ ClockCall(p) /\ p.at = "compares"
    BY <1>0 DEF ClockTypes, Clock!Publish
  <1>3. ClockTicks'
    BY <1>0, <1>1 DEF ClockTicks
  <1>4. PICK last \in Int : last = clock_last_system_time
    BY <1>0 DEF ClockTypes
  <1>5. PICK time \in Int : time = p.time /\ time < clock_now - clock_start + Counts
    BY <1>2 DEF ClockReader, ClockCall
  <1>6. Clock!Idle \in ClockReader /\ ClockCall(Clock!Idle)'
    BY ClockIdle DEF ClockCall
  <1>a. clock_tick_epoch' \in Nat /\ clock_last_tick' \in Nat
    BY <1>0, <1>1 DEF ClockTypes
  <1>b. ASSUME UNCHANGED clock_last_system_time
        PROVE  /\ clock_last_system_time' \in Int /\ clock_last_system_time <= clock_last_system_time'
               /\ clock_last_system_time' < clock_now - clock_start + Counts
    BY <1>0, <1>b DEF ClockTypes
  <1>7. CASE Clock!Goes(t, Clock!Idle) /\ UNCHANGED clock_last_system_time
    <2>1. PICK idle \in ClockReader : idle = Clock!Idle
      BY <1>6
    <2>2. clock_readers' = [clock_readers EXCEPT ![t] = idle] /\ ClockCall(idle)'
      BY <1>6, <1>7, <2>1 DEF Clock!Goes
    <2> QED BY <1>1, <1>3, <1>a, <1>b, <1>7, <2>2, ClockReads
  <1>8. CASE /\ p.time > p.previous /\ last = p.previous
             /\ clock_last_system_time' = p.time /\ Clock!Goes(t, Clock!Idle)
    <2>1. clock_last_system_time <= time /\ clock_last_system_time' = time
      BY <1>4, <1>5, <1>8
    <2> QED BY <1>0, <1>1, <1>3, <1>5, <1>6, <1>8, <2>1, ClockReads DEF ClockTypes, Clock!Goes
  <1>9. CASE Clock!Goes(t, [p EXCEPT !.previous = last]) /\ UNCHANGED clock_last_system_time
    <2>1. PICK call : call = [p EXCEPT !.previous = last]
      OBVIOUS
    <2>2. /\ call \in ClockReader /\ call.at = p.at /\ call.since = p.since /\ call.least = p.least
          /\ call.previous = last /\ call.time = p.time /\ call.ticks = p.ticks
      BY <2>1 DEF ClockReader
    <2>3. ClockCall(call)'
      BY <1>1, <1>2, <1>4, <1>9, <2>2 DEF ClockCall
    <2>4. clock_readers' = [clock_readers EXCEPT ![t] = call]
      BY <1>9, <2>1 DEF Clock!Goes
    <2> QED BY <1>1, <1>3, <1>a, <1>b, <1>9, <2>2, <2>3, <2>4, ClockReads
  <1> QED BY <1>2, <1>4, <1>7, <1>8, <1>9 DEF Clock!Publish, Clock!Stale

LEMMA ClockPass ==
    ASSUME ClockInv, Clock!Pass
    PROVE  ClockInv'
  <1>0. /\ ClockTypes /\ ClockTicks /\ \A u \in Threads : ClockCall(clock_readers[u])
        /\ clock_last_system_time < clock_now - clock_start + Counts
    BY DEF ClockInv
  <1>1. /\ clock_now' = clock_now + 1 /\ (clock_now + 1) \div Counts <= clock_rollover + Late
        /\ UNCHANGED <<clock_start, clock_rollover, clock_offset, clock_tick_epoch, clock_last_tick,
                       clock_last_system_time, clock_readers>>
    BY DEF Clock!Pass, Clock!timer, Clock!ticker
  <1>2. PICK now \in Nat : now = clock_now
    BY <1>0 DEF ClockTypes
  <1>3. ClockTypes'
    BY <1>0, <1>1 DEF ClockTypes
  <1>4. ClockTicks'
    <2>1. now \div Counts <= (now + 1) \div Counts /\ now \div Counts \in Nat
      BY ClockTicksGrow, ClockTickOf
    <2>2. PICK a \in Nat, b \in Nat : a = now \div Counts /\ b = (now + 1) \div Counts /\ a <= b
      <3>1. now + 1 \in Nat
        OBVIOUS
      <3>2. (now + 1) \div Counts \in Nat
        BY <3>1, ClockTickOf
      <3> QED BY <2>1, <3>2
    <2>3. clock_tick_epoch + clock_last_tick <= b
      BY <1>0, <1>2, <2>2 DEF ClockTicks, ClockTypes
    <2>4. clock_now' \div Counts = b /\ b <= clock_rollover + Late
      BY <1>1, <1>2, <2>2
    <2> QED BY <1>0, <1>1, <2>3, <2>4 DEF ClockTicks
  <1>5. ASSUME NEW u \in Threads PROVE ClockCall(clock_readers[u])'
    <2>1. PICK p \in ClockReader : p = clock_readers[u] /\ ClockCall(p)
      BY <1>0 DEF ClockTypes
    <2>2. p.at # "idle" => clock_now < p.since + MaxDelay
      BY <2>1 DEF Clock!Pass
    <2>3. ClockCall(p)'
      BY <1>0, <1>1, <2>1, <2>2, ClockConstants DEF ClockCall, ClockReader, ClockTypes
    <2> QED BY <1>1, <2>1, <2>3
  <1>6. clock_last_system_time' < clock_now' - clock_start' + Counts
    <2>1. PICK start \in Nat, last \in Int : start = clock_start /\ last = clock_last_system_time
      BY <1>0 DEF ClockTypes
    <2>2. last < now + 1 - start + Counts
      BY <1>0, <1>2, <2>1, ClockConstants
    <2> QED BY <1>1, <1>2, <2>1, <2>2
  <1> QED BY <1>3, <1>4, <1>5, <1>6 DEF ClockInv

LEMMA ClockStep == ClockInv /\ [Clock!Next]_clock_vars => ClockInv'
  <1> SUFFICES ASSUME ClockInv, [Clock!Next]_clock_vars PROVE ClockInv'
    OBVIOUS
  <1>1. CASE UNCHANGED clock_vars
    BY <1>1 DEF clock_vars, ClockInv, ClockTypes, ClockTicks, ClockCall
  <1>2. ASSUME NEW t \in Threads, Clock!ReadTicks(t) \/ Clock!ReadTimer(t) \/ Clock!Publish(t) PROVE ClockInv'
    BY <1>2, ClockReadTicks, ClockReadTimer, ClockPublish
  <1>3. CASE Clock!rollover_timer_entry
    BY <1>3, ClockRollover
  <1>4. CASE Clock!Jump
    <2>1. UNCHANGED <<clock_now, clock_start, clock_rollover, clock_tick_epoch, clock_last_tick,
                      clock_last_system_time, clock_readers>> /\ clock_offset' \in Int
      BY <1>4, ClockConstants DEF Clock!Jump, Clock!ticker
    <2> QED BY <2>1 DEF ClockInv, ClockTypes, ClockTicks, ClockCall
  <1>5. CASE Clock!Pass
    BY <1>5, ClockPass
  <1> QED BY <1>1, <1>2, <1>3, <1>4, <1>5 DEF Clock!Next

\* What a call returns.
LEMMA ClockReturns ==
    ASSUME ClockInv, [Clock!Next]_clock_vars, NEW t \in Threads,
           clock_readers[t].at # "idle", clock_readers'[t].at = "idle"
    PROVE  /\ Clock!Result(t) >= clock_readers[t].least
           /\ Clock!Result(t) > clock_readers[t].since - clock_start - Counts
           /\ Clock!Result(t) < clock_now - clock_start + Counts
  <1>0. ClockTypes /\ ClockTicks /\ ClockCall(clock_readers[t])
        /\ clock_last_system_time < clock_now - clock_start + Counts
        /\ clock_readers[t] \in ClockReader
    BY DEF ClockInv, ClockTypes
  <1>1. clock_readers[t].at = "compares"
    <2>1. clock_readers' # clock_readers
      OBVIOUS
    <2>2. PICK u \in Threads : Clock!ReadTicks(u) \/ Clock!ReadTimer(u) \/ Clock!Publish(u)
      BY <2>1 DEF Clock!Next, clock_vars, Clock!rollover_timer_entry, Clock!Jump, Clock!Pass
    <2>3. PICK call : clock_readers' = [clock_readers EXCEPT ![u] = call]
      BY <2>2 DEF Clock!ReadTicks, Clock!ReadTimer, Clock!Publish, Clock!Goes
    <2>4. u = t
      BY <1>0, <2>3 DEF ClockTypes
    <2>5. clock_readers[t].at # "timer"
      <3>1. ASSUME clock_readers[t].at = "timer" PROVE FALSE
        <4>1. Clock!ReadTimer(t)
          BY <2>2, <2>4, <3>1 DEF Clock!ReadTicks, Clock!Publish
        <4>2. PICK p \in ClockReader : p = clock_readers[t]
          BY <1>0
        <4>3. PICK last, time : clock_readers'[t] = [p EXCEPT !.at = "compares", !.ticks = 0, !.previous = last, !.time = time]
          BY <1>0, <4>1, <4>2 DEF Clock!ReadTimer, Clock!Goes, ClockTypes
        <4> QED BY <4>2, <4>3 DEF ClockReader
      <3> QED BY <3>1
    <2> QED BY <1>0, <2>5 DEF ClockReader
  <1>2. PICK p \in ClockReader : p = clock_readers[t] /\ ClockCall(p) /\ p.at = "compares"
    BY <1>0, <1>1
  <1>3. /\ p.time \in Int /\ p.previous \in Int /\ p.least \in Int /\ p.since \in Nat
        /\ clock_now \in Nat /\ clock_start \in Nat /\ clock_last_system_time \in Int /\ Counts \in Nat
    BY <1>0, ClockConstants DEF ClockReader, ClockTypes
  <1>4. /\ p.time > p.since - clock_start - Counts /\ p.time < clock_now - clock_start + Counts
        /\ p.least <= p.previous /\ p.previous <= clock_last_system_time
    BY <1>2 DEF ClockCall
  <1>5. PICK result \in Int : result = Clock!Result(t)
            /\ result >= p.time /\ result >= p.previous /\ result \in {p.time, p.previous}
    BY <1>2, <1>3 DEF Clock!Result
  <1> QED BY <1>0, <1>2, <1>3, <1>4, <1>5

-----------------------------------------------------------------------------
(* Rtc.cpp: the calendar and its readers.                                   *)

CalDate == [year : 0 .. 99, month : 1 .. 12, day : 1 .. 31]
CalLength(d) == Calendar!days_in_month(2000 + d.year, d.month)
CalLeap(year) == IF year % 4 = 0 THEN 1 ELSE 0
\* Days of the months before, in a year that is not a leap year.
CalBefore == <<0, 31, 59, 90, 120, 151, 181, 212, 243, 273, 304, 334>>
CalMonths(year, months) == {p \in (1 .. months) \X (1 .. 31) : p[2] <= Calendar!days_in_month(year, p[1])}

LEMMA CalCardinality ==
    ASSUME NEW S
    PROVE  Calendar!Cardinality(S) = Cardinality(S)
  BY ZenonT(30) DEF Calendar!Cardinality, Cardinality

\* Leap days before a year.
LEMMA CalLeapDays ==
    ASSUME NEW year \in Nat
    PROVE  Cardinality({y \in 0 .. year - 1 : y % 4 = 0}) = (year + 3) \div 4
  <1> DEFINE S == {y \in 0 .. year - 1 : y % 4 = 0}
  <1>1. PICK n \in Nat : n = (year + 3) \div 4 /\ 4 * n <= year + 3 /\ year + 3 < 4 * n + 4
    OBVIOUS
  <1> DEFINE f == [i \in 1 .. n |-> 4 * (i - 1)]
  <1>2. ASSUME NEW i \in 1 .. n PROVE 4 * (i - 1) \in S
    <2>1. PICK j \in Nat : j = i - 1
      OBVIOUS
    <2>2. (4 * j) % 4 = 0 /\ 4 * j \in 0 .. year - 1
      BY <1>1, <2>1
    <2> QED BY <2>1, <2>2
  <1>3. f \in [1 .. n -> S]
    BY <1>2
  <1>4. \A a, b \in 1 .. n : f[a] = f[b] => a = b
    OBVIOUS
  <1>5. ASSUME NEW y \in S PROVE \E i \in 1 .. n : f[i] = y
    <2>1. PICK j \in Nat : y = 4 * j /\ y \in 0 .. year - 1
      OBVIOUS
    <2>2. j + 1 \in 1 .. n
      BY <1>1, <2>1
    <2> QED BY <2>1, <2>2
  <1> HIDE DEF S, f
  <1>6. f \in Bijection(1 .. n, S)
    BY <1>3, <1>4, <1>5 DEF Bijection, Injection, Surjection, IsInjective
  <1>7. Cardinality(S) = n
    BY <1>6, FS_CountingElements DEF ExistsBijection
  <1> QED BY <1>1, <1>7 DEF S

\* The days of one month.
LEMMA CalMonth ==
    ASSUME NEW year, NEW k \in 1 .. 12, NEW n \in 0 .. 31, n = Calendar!days_in_month(year, k),
           IsFiniteSet(CalMonths(year, k - 1))
    PROVE  /\ IsFiniteSet(CalMonths(year, k))
           /\ Cardinality(CalMonths(year, k)) = Cardinality(CalMonths(year, k - 1)) + n
  <1> DEFINE Month == {k} \X (1 .. n)
             f == [i \in 1 .. n |-> <<k, i>>]
  <1>1. f \in [1 .. n -> Month] /\ (\A a, b \in 1 .. n : f[a] = f[b] => a = b) /\ \A p \in Month : \E i \in 1 .. n : f[i] = p
    OBVIOUS
  <1>2. ExistsBijection(1 .. n, Month)
    <2> HIDE DEF Month, f
    <2>1. f \in Bijection(1 .. n, Month)
      BY <1>1 DEF Bijection, Injection, Surjection, IsInjective
    <2> QED BY <2>1 DEF ExistsBijection
  <1>3. Cardinality(Month) = n /\ IsFiniteSet(Month)
    <2> HIDE DEF Month
    <2>a. n \in Nat
      OBVIOUS
    <2>1. Cardinality(Month) = n
      BY <1>2, <2>a, FS_CountingElements
    <2>2. IsFiniteSet(1 .. n)
      BY FS_Interval
    <2> QED BY <1>2, <2>1, <2>2, FS_Bijection
  <1>4. CalMonths(year, k) = CalMonths(year, k - 1) \cup Month
    <2>1. ASSUME NEW p \in CalMonths(year, k) PROVE p \in CalMonths(year, k - 1) \cup Month
      <3>1. PICK a \in 1 .. k, b \in 1 .. 31 : p = <<a, b>> /\ b <= Calendar!days_in_month(year, a)
        BY DEF CalMonths
      <3>2. CASE a = k
        BY <3>1, <3>2
      <3>3. CASE a # k
        <4>1. a \in 1 .. k - 1
          BY <3>3
        <4> QED BY <3>1, <4>1 DEF CalMonths
      <3> QED BY <3>2, <3>3
    <2>2. ASSUME NEW p \in CalMonths(year, k - 1) PROVE p \in CalMonths(year, k)
      <3>1. PICK a \in 1 .. k - 1, b \in 1 .. 31 : p = <<a, b>> /\ b <= Calendar!days_in_month(year, a)
        BY DEF CalMonths
      <3>2. a \in 1 .. k
        OBVIOUS
      <3> QED BY <3>1, <3>2 DEF CalMonths
    <2>3. ASSUME NEW p \in Month PROVE p \in CalMonths(year, k)
      <3>1. PICK b \in 1 .. n : p = <<k, b>>
        OBVIOUS
      <3>2. b \in 1 .. 31 /\ b <= n /\ k \in 1 .. k
        OBVIOUS
      <3> QED BY <3>1, <3>2 DEF CalMonths
    <2> HIDE DEF Month
    <2> QED BY <2>1, <2>2, <2>3
  <1>5. CalMonths(year, k - 1) \cap Month = {}
    <2>1. ASSUME NEW p \in CalMonths(year, k - 1), p \in Month PROVE FALSE
      <3>1. PICK a \in 1 .. k - 1, b \in 1 .. 31 : p = <<a, b>>
        BY DEF CalMonths
      <3>2. p[1] = a /\ p[1] = k
        BY <2>1, <3>1
      <3> QED BY <3>1, <3>2
    <2> HIDE DEF Month
    <2> QED BY <2>1
  <1> HIDE DEF Month
  <1>6. Cardinality({}) = 0
    BY FS_EmptySet
  <1>7. Cardinality(CalMonths(year, k - 1)) \in Nat
    BY FS_CardinalityType
  <1>8. /\ IsFiniteSet(CalMonths(year, k - 1) \cup Month)
        /\ Cardinality(CalMonths(year, k - 1) \cup Month)
             = Cardinality(CalMonths(year, k - 1)) + Cardinality(Month) - Cardinality(CalMonths(year, k - 1) \cap Month)
    BY <1>3, FS_Union
  <1> QED BY <1>3, <1>4, <1>5, <1>6, <1>7, <1>8

LEMMA CalLengths ==
    ASSUME NEW year \in 0 .. 99
    PROVE  /\ Calendar!days_in_month(2000 + year, 2) = 28 + CalLeap(year)
           /\ \A month \in {4, 6, 9, 11} : Calendar!days_in_month(2000 + year, month) = 30
           /\ \A month \in {1, 3, 5, 7, 8, 10, 12} : Calendar!days_in_month(2000 + year, month) = 31
  <1>1. Calendar!is_leap_year(2000 + year) <=> year % 4 = 0
    <2>1. (2000 + year) % 4 = year % 4
      OBVIOUS
    <2>2. CASE year = 0
      BY <2>1, <2>2 DEF Calendar!is_leap_year
    <2>3. CASE year # 0
      <3>1. (2000 + year) % 100 # 0
        BY <2>3
      <3> QED BY <2>1, <3>1 DEF Calendar!is_leap_year
    <2> QED BY <2>2, <2>3
  <1>2. Calendar!days_in_month(2000 + year, 2) = 28 + CalLeap(year)
    BY <1>1 DEF Calendar!days_in_month, CalLeap
  <1>3. ASSUME NEW month \in {4, 6, 9, 11} PROVE Calendar!days_in_month(2000 + year, month) = 30
    <2>1. month # 2
      OBVIOUS
    <2> QED BY <2>1 DEF Calendar!days_in_month
  <1>4. ASSUME NEW month \in {1, 3, 5, 7, 8, 10, 12} PROVE Calendar!days_in_month(2000 + year, month) = 31
    <2>1. month # 2 /\ month \notin {4, 6, 9, 11}
      OBVIOUS
    <2> QED BY <2>1 DEF Calendar!days_in_month
  <1> QED BY <1>2, <1>3, <1>4

LEMMA CalDays ==
    ASSUME NEW year \in 0 .. 99, NEW month \in 1 .. 12
    PROVE  Cardinality(CalMonths(2000 + year, month - 1)) = CalBefore[month] + (IF month > 2 THEN CalLeap(year) ELSE 0)
  <1> DEFINE M(k) == CalMonths(2000 + year, k)
             Is(k, n) == IsFiniteSet(M(k)) /\ Cardinality(M(k)) = n
  <1>1. PICK leap \in {0, 1} : leap = CalLeap(year)
    BY DEF CalLeap
  <1>2. ASSUME NEW k \in 1 .. 12, NEW n \in 0 .. 31, n = Calendar!days_in_month(2000 + year, k), NEW m \in Nat, Is(k - 1, m)
        PROVE  Is(k, m + n)
    BY <1>2, CalMonth
  <1>3. Is(0, 0)
    <2>1. CalMonths(2000 + year, 0) = {}
      BY DEF CalMonths
    <2> QED BY <2>1, FS_EmptySet
  <1> HIDE DEF M, Is
  <1>4. Is(1, 31)
    <2>1. Is(1 - 1, 0)
      BY <1>3
    <2>2. 31 = Calendar!days_in_month(2000 + year, 1)
      BY CalLengths
    <2>3. Is(1, 0 + 31)
      BY <1>2, <2>1, <2>2
    <2> QED BY <2>3
  <1>5. Is(2, 59 + leap)
    <2>1. Is(2 - 1, 31)
      BY <1>4
    <2>2. PICK n \in 0 .. 31 : n = 28 + leap /\ n = Calendar!days_in_month(2000 + year, 2)
      BY <1>1, CalLengths
    <2>3. Is(2, 31 + n)
      BY <1>2, <2>1, <2>2
    <2>4. 31 + n = 59 + leap
      BY <2>2
    <2> QED BY <2>3, <2>4
  <1>6. Is(3, 90 + leap)
    <2>1. PICK m \in Nat : m = 59 + leap /\ Is(3 - 1, m)
      BY <1>5
    <2>2. 31 = Calendar!days_in_month(2000 + year, 3)
      BY CalLengths
    <2>3. Is(3, m + 31)
      BY <1>2, <2>1, <2>2
    <2>4. m + 31 = 90 + leap
      BY <2>1
    <2> QED BY <2>3, <2>4
  <1>7. Is(4, 120 + leap)
    <2>1. PICK m \in Nat : m = 90 + leap /\ Is(4 - 1, m)
      BY <1>6
    <2>2. 30 = Calendar!days_in_month(2000 + year, 4)
      BY CalLengths
    <2>3. Is(4, m + 30)
      BY <1>2, <2>1, <2>2
    <2>4. m + 30 = 120 + leap
      BY <2>1
    <2> QED BY <2>3, <2>4
  <1>8. Is(5, 151 + leap)
    <2>1. PICK m \in Nat : m = 120 + leap /\ Is(5 - 1, m)
      BY <1>7
    <2>2. 31 = Calendar!days_in_month(2000 + year, 5)
      BY CalLengths
    <2>3. Is(5, m + 31)
      BY <1>2, <2>1, <2>2
    <2>4. m + 31 = 151 + leap
      BY <2>1
    <2> QED BY <2>3, <2>4
  <1>9. Is(6, 181 + leap)
    <2>1. PICK m \in Nat : m = 151 + leap /\ Is(6 - 1, m)
      BY <1>8
    <2>2. 30 = Calendar!days_in_month(2000 + year, 6)
      BY CalLengths
    <2>3. Is(6, m + 30)
      BY <1>2, <2>1, <2>2
    <2>4. m + 30 = 181 + leap
      BY <2>1
    <2> QED BY <2>3, <2>4
  <1>10. Is(7, 212 + leap)
    <2>1. PICK m \in Nat : m = 181 + leap /\ Is(7 - 1, m)
      BY <1>9
    <2>2. 31 = Calendar!days_in_month(2000 + year, 7)
      BY CalLengths
    <2>3. Is(7, m + 31)
      BY <1>2, <2>1, <2>2
    <2>4. m + 31 = 212 + leap
      BY <2>1
    <2> QED BY <2>3, <2>4
  <1>11. Is(8, 243 + leap)
    <2>1. PICK m \in Nat : m = 212 + leap /\ Is(8 - 1, m)
      BY <1>10
    <2>2. 31 = Calendar!days_in_month(2000 + year, 8)
      BY CalLengths
    <2>3. Is(8, m + 31)
      BY <1>2, <2>1, <2>2
    <2>4. m + 31 = 243 + leap
      BY <2>1
    <2> QED BY <2>3, <2>4
  <1>12. Is(9, 273 + leap)
    <2>1. PICK m \in Nat : m = 243 + leap /\ Is(9 - 1, m)
      BY <1>11
    <2>2. 30 = Calendar!days_in_month(2000 + year, 9)
      BY CalLengths
    <2>3. Is(9, m + 30)
      BY <1>2, <2>1, <2>2
    <2>4. m + 30 = 273 + leap
      BY <2>1
    <2> QED BY <2>3, <2>4
  <1>13. Is(10, 304 + leap)
    <2>1. PICK m \in Nat : m = 273 + leap /\ Is(10 - 1, m)
      BY <1>12
    <2>2. 31 = Calendar!days_in_month(2000 + year, 10)
      BY CalLengths
    <2>3. Is(10, m + 31)
      BY <1>2, <2>1, <2>2
    <2>4. m + 31 = 304 + leap
      BY <2>1
    <2> QED BY <2>3, <2>4
  <1>14. Is(11, 334 + leap)
    <2>1. PICK m \in Nat : m = 304 + leap /\ Is(11 - 1, m)
      BY <1>13
    <2>2. 30 = Calendar!days_in_month(2000 + year, 11)
      BY CalLengths
    <2>3. Is(11, m + 30)
      BY <1>2, <2>1, <2>2
    <2>4. m + 30 = 334 + leap
      BY <2>1
    <2> QED BY <2>3, <2>4
  <1>15. month \in {1, 2, 3, 4, 5, 6, 7, 8, 9, 10, 11, 12}
    OBVIOUS
  <1>16. CASE month = 1
    <2>1. Cardinality(M(0)) = 0
      BY <1>3 DEF Is
    <2>2. month - 1 = 0 /\ CalBefore[month] = 0 /\ ~ (month > 2)
      BY <1>16 DEF CalBefore
    <2> QED BY <1>1, <2>1, <2>2 DEF M
  <1>17. CASE month = 2
    <2>1. Cardinality(M(1)) = 31
      BY <1>4 DEF Is
    <2>2. month - 1 = 1 /\ CalBefore[month] = 31 /\ ~ (month > 2)
      BY <1>17 DEF CalBefore
    <2> QED BY <1>1, <2>1, <2>2 DEF M
  <1>18. CASE month = 3
    <2>1. Cardinality(M(2)) = 59 + leap
      BY <1>5 DEF Is
    <2>2. month - 1 = 2 /\ CalBefore[month] = 59 /\ month > 2
      BY <1>18 DEF CalBefore
    <2> QED BY <1>1, <2>1, <2>2 DEF M
  <1>19. CASE month = 4
    <2>1. Cardinality(M(3)) = 90 + leap
      BY <1>6 DEF Is
    <2>2. month - 1 = 3 /\ CalBefore[month] = 90 /\ month > 2
      BY <1>19 DEF CalBefore
    <2> QED BY <1>1, <2>1, <2>2 DEF M
  <1>20. CASE month = 5
    <2>1. Cardinality(M(4)) = 120 + leap
      BY <1>7 DEF Is
    <2>2. month - 1 = 4 /\ CalBefore[month] = 120 /\ month > 2
      BY <1>20 DEF CalBefore
    <2> QED BY <1>1, <2>1, <2>2 DEF M
  <1>21. CASE month = 6
    <2>1. Cardinality(M(5)) = 151 + leap
      BY <1>8 DEF Is
    <2>2. month - 1 = 5 /\ CalBefore[month] = 151 /\ month > 2
      BY <1>21 DEF CalBefore
    <2> QED BY <1>1, <2>1, <2>2 DEF M
  <1>22. CASE month = 7
    <2>1. Cardinality(M(6)) = 181 + leap
      BY <1>9 DEF Is
    <2>2. month - 1 = 6 /\ CalBefore[month] = 181 /\ month > 2
      BY <1>22 DEF CalBefore
    <2> QED BY <1>1, <2>1, <2>2 DEF M
  <1>23. CASE month = 8
    <2>1. Cardinality(M(7)) = 212 + leap
      BY <1>10 DEF Is
    <2>2. month - 1 = 7 /\ CalBefore[month] = 212 /\ month > 2
      BY <1>23 DEF CalBefore
    <2> QED BY <1>1, <2>1, <2>2 DEF M
  <1>24. CASE month = 9
    <2>1. Cardinality(M(8)) = 243 + leap
      BY <1>11 DEF Is
    <2>2. month - 1 = 8 /\ CalBefore[month] = 243 /\ month > 2
      BY <1>24 DEF CalBefore
    <2> QED BY <1>1, <2>1, <2>2 DEF M
  <1>25. CASE month = 10
    <2>1. Cardinality(M(9)) = 273 + leap
      BY <1>12 DEF Is
    <2>2. month - 1 = 9 /\ CalBefore[month] = 273 /\ month > 2
      BY <1>25 DEF CalBefore
    <2> QED BY <1>1, <2>1, <2>2 DEF M
  <1>26. CASE month = 11
    <2>1. Cardinality(M(10)) = 304 + leap
      BY <1>13 DEF Is
    <2>2. month - 1 = 10 /\ CalBefore[month] = 304 /\ month > 2
      BY <1>26 DEF CalBefore
    <2> QED BY <1>1, <2>1, <2>2 DEF M
  <1>27. CASE month = 12
    <2>1. Cardinality(M(11)) = 334 + leap
      BY <1>14 DEF Is
    <2>2. month - 1 = 11 /\ CalBefore[month] = 334 /\ month > 2
      BY <1>27 DEF CalBefore
    <2> QED BY <1>1, <2>1, <2>2 DEF M
  <1> QED BY <1>15, <1>16, <1>17, <1>18, <1>19, <1>20, <1>21, <1>22, <1>23, <1>24, <1>25, <1>26, <1>27

\* The day of a date, in the closed form that both definitions come to.
CalDay(d) ==
    10957 + 365 * d.year + ((d.year + 3) \div 4) + d.day - 1
        + CalBefore[d.month] + (IF d.month > 2 THEN CalLeap(d.year) ELSE 0)

LEMMA CalTable ==
    ASSUME NEW month \in 1 .. 12
    PROVE  /\ CalBefore[month] \in Nat
           /\ ((153 * (month + (IF month > 2 THEN -3 ELSE 9)) + 2) \div 5)
                = CalBefore[month] + (IF month > 2 THEN -59 ELSE 306)
  <1>0. month \in {1, 2, 3, 4, 5, 6, 7, 8, 9, 10, 11, 12}
    OBVIOUS
  <1>1. CASE month = 1
    BY <1>1 DEF CalBefore
  <1>2. CASE month = 2
    BY <1>2 DEF CalBefore
  <1>3. CASE month = 3
    BY <1>3 DEF CalBefore
  <1>4. CASE month = 4
    BY <1>4 DEF CalBefore
  <1>5. CASE month = 5
    BY <1>5 DEF CalBefore
  <1>6. CASE month = 6
    BY <1>6 DEF CalBefore
  <1>7. CASE month = 7
    BY <1>7 DEF CalBefore
  <1>8. CASE month = 8
    BY <1>8 DEF CalBefore
  <1>9. CASE month = 9
    BY <1>9 DEF CalBefore
  <1>10. CASE month = 10
    BY <1>10 DEF CalBefore
  <1>11. CASE month = 11
    BY <1>11 DEF CalBefore
  <1>12. CASE month = 12
    BY <1>12 DEF CalBefore
  <1> QED BY <1>0, <1>1, <1>2, <1>3, <1>4, <1>5, <1>6, <1>7, <1>8, <1>9, <1>10, <1>11, <1>12

\* The reference counts to it,
LEMMA CalDaysBefore ==
    ASSUME NEW d \in CalDate
    PROVE  Calendar!DaysBefore(d) = CalDay(d)
  <1>1. PICK year \in 0 .. 99, month \in 1 .. 12, day \in 1 .. 31 : year = d.year /\ month = d.month /\ day = d.day
    BY DEF CalDate
  <1>2. PICK before \in Nat, leap \in Int : before = CalBefore[month] /\ leap = IF month > 2 THEN CalLeap(year) ELSE 0
    BY CalTable DEF CalLeap
  <1>3. Calendar!Cardinality({y \in 0 .. year - 1 : y % 4 = 0}) = (year + 3) \div 4
    <2>1. year \in Nat
      OBVIOUS
    <2>2. Cardinality({y \in 0 .. year - 1 : y % 4 = 0}) = (year + 3) \div 4
      BY <2>1, CalLeapDays
    <2> QED BY <2>2, CalCardinality
  <1>4. Calendar!Cardinality({p \in (1 .. month - 1) \X (1 .. 31) :
                                  p[2] <= Calendar!days_in_month(Calendar!RTC_EPOCH_YEAR + year, p[1])}) = before + leap
    <2>1. Cardinality(CalMonths(2000 + year, month - 1)) = before + leap
      BY <1>2, CalDays
    <2>2. PICK S : S = {p \in (1 .. month - 1) \X (1 .. 31) :
                         p[2] <= Calendar!days_in_month(Calendar!RTC_EPOCH_YEAR + year, p[1])}
      OBVIOUS
    <2>3. S = CalMonths(2000 + year, month - 1)
      BY <2>2 DEF CalMonths, Calendar!RTC_EPOCH_YEAR
    <2>4. Calendar!Cardinality(S) = before + leap
      BY <2>1, <2>3, CalCardinality
    <2> QED BY <2>2, <2>4
  <1>5. Calendar!DaysBefore(d) = 10957 + 365 * year + ((year + 3) \div 4) + day - 1 + (before + leap)
    BY <1>1, <1>3, <1>4 DEF Calendar!DaysBefore
  <1> QED BY <1>1, <1>2, <1>5 DEF CalDay

\* and so does the arithmetic of the code.
LEMMA CalCivil ==
    ASSUME NEW d \in CalDate
    PROVE  Calendar!Days(d) = CalDay(d)
  <1>1. PICK year \in 0 .. 99, month \in 1 .. 12, day \in 1 .. 31 : year = d.year /\ month = d.month /\ day = d.day
    BY DEF CalDate
  <1>2. PICK before \in Nat, leap \in Int :
           /\ before = CalBefore[month] /\ leap = IF year % 4 = 0 THEN 1 ELSE 0
           /\ leap = CalLeap(year)
    BY CalTable DEF CalLeap
  <1>3. PICK days \in Int : /\ days = (153 * (month + (IF month > 2 THEN -3 ELSE 9)) + 2) \div 5
                            /\ days = before + (IF month > 2 THEN -59 ELSE 306)
    BY <1>2, CalTable
  <1>a. PICK january \in {0, 1} : january = IF month <= 2 THEN 1 ELSE 0
    OBVIOUS
  <1>4. PICK y \in Int : y = 2000 + year - january
    OBVIOUS
  <1>5. Calendar!Days(d) = (y \div 400) * 146097
            + (y % 400) * 365 + ((y % 400) \div 4) - ((y % 400) \div 100) + (days + day - 1) - 719468
    BY <1>1, <1>3, <1>a, <1>4 DEF Calendar!Days, Calendar!days_from_civil, Calendar!January, Calendar!RTC_EPOCH_YEAR
  <1>6. CalDay(d) = 10957 + 365 * year + ((year + 3) \div 4) + day - 1 + before + (IF month > 2 THEN leap ELSE 0)
    BY <1>1, <1>2 DEF CalDay
  <1>7. CASE y = 1999
    <2>1. year = 0 /\ month <= 2
      BY <1>4, <1>a, <1>7
    <2>2. y \div 400 = 4 /\ y % 400 = 399 /\ 399 \div 4 = 99 /\ 399 \div 100 = 3 /\ (year + 3) \div 4 = 0
      BY <1>7, <2>1
    <2> QED BY <1>3, <1>5, <1>6, <2>1, <2>2
  <1>8. CASE y >= 2000
    <2>1. PICK e \in 0 .. 99 : e = y - 2000
      BY <1>4, <1>8
    <2>2. y \div 400 = 5 /\ y % 400 = e /\ e \div 100 = 0
      BY <2>1
    <2>3. CASE month <= 2
      <3>1. e = year - 1 /\ (year + 3) \div 4 = (e \div 4) + 1
        BY <1>4, <1>a, <2>1, <2>3
      <3> QED BY <1>3, <1>5, <1>6, <2>2, <2>3, <3>1
    <2>4. CASE month > 2
      <3>1. e = year /\ (year + 3) \div 4 = (e \div 4) + 1 - leap
        BY <1>2, <1>4, <1>a, <2>1, <2>4
      <3> QED BY <1>3, <1>5, <1>6, <2>2, <2>4, <3>1
    <2> QED BY <2>3, <2>4
  <1> QED BY <1>4, <1>a, <1>7, <1>8

\* The days before a month and its own.
LEMMA CalGrow ==
    ASSUME NEW month \in 1 .. 11, NEW later \in 1 .. 12, later = month + 1, NEW leap \in {0, 1}
    PROVE  CalBefore[later] + (IF later > 2 THEN leap ELSE 0)
             = CalBefore[month] + (IF month > 2 THEN leap ELSE 0)
                 + (CASE month = 2 -> 28 + leap [] month \in {4, 6, 9, 11} -> 30 [] OTHER -> 31)
  <1>0. month \in {1, 2, 3, 4, 5, 6, 7, 8, 9, 10, 11}
    OBVIOUS
  <1>1. CASE month = 1
    BY <1>1 DEF CalBefore
  <1>2. CASE month = 2
    BY <1>2 DEF CalBefore
  <1>3. CASE month = 3
    BY <1>3 DEF CalBefore
  <1>4. CASE month = 4
    BY <1>4 DEF CalBefore
  <1>5. CASE month = 5
    BY <1>5 DEF CalBefore
  <1>6. CASE month = 6
    BY <1>6 DEF CalBefore
  <1>7. CASE month = 7
    BY <1>7 DEF CalBefore
  <1>8. CASE month = 8
    BY <1>8 DEF CalBefore
  <1>9. CASE month = 9
    BY <1>9 DEF CalBefore
  <1>10. CASE month = 10
    BY <1>10 DEF CalBefore
  <1>11. CASE month = 11
    BY <1>11 DEF CalBefore
  <1> QED BY <1>0, <1>1, <1>2, <1>3, <1>4, <1>5, <1>6, <1>7, <1>8, <1>9, <1>10, <1>11

\* The day after a date.
LEMMA CalNext ==
    ASSUME NEW d \in CalDate, d.day <= CalLength(d), d.year < 99
    PROVE  /\ Calendar!NextDay(d) \in CalDate
           /\ Calendar!NextDay(d).day <= CalLength(Calendar!NextDay(d))
           /\ CalDay(Calendar!NextDay(d)) = CalDay(d) + 1
  <1>1. PICK year \in 0 .. 98, month \in 1 .. 12, day \in 1 .. 31 : year = d.year /\ month = d.month /\ day = d.day
    <2>1. d.year \in 0 .. 99 /\ d.month \in 1 .. 12 /\ d.day \in 1 .. 31
      BY DEF CalDate
    <2>2. d.year \in 0 .. 98
      BY <2>1
    <2> QED BY <2>1, <2>2
  <1>2. PICK n \in Nat : n = CalLength(d) /\ day <= n
        /\ n = CASE month = 2 -> 28 + CalLeap(year) [] month \in {4, 6, 9, 11} -> 30 [] OTHER -> 31
    <2>1. month \in {4, 6, 9, 11} \/ month = 2 \/ month \in {1, 3, 5, 7, 8, 10, 12}
      OBVIOUS
    <2>2. CalLeap(year) \in {0, 1}
      BY DEF CalLeap
    <2>3. year \in 0 .. 99
      OBVIOUS
    <2>4. CASE month = 2
      BY <1>1, <2>2, <2>3, <2>4, CalLengths DEF CalLength
    <2>5. CASE month \in {4, 6, 9, 11}
      BY <1>1, <2>3, <2>5, CalLengths DEF CalLength
    <2>6. CASE month \in {1, 3, 5, 7, 8, 10, 12}
      BY <1>1, <2>3, <2>6, CalLengths DEF CalLength
    <2> QED BY <2>1, <2>4, <2>5, <2>6
  <1>3. \A m \in 1 .. 12 : Calendar!days_in_month(2000 + year, m) >= 28
    <2>1. \A m \in 1 .. 12 : m \in {4, 6, 9, 11} \/ m = 2 \/ m \in {1, 3, 5, 7, 8, 10, 12}
      OBVIOUS
    <2>2. CalLeap(year) \in {0, 1} /\ year \in 0 .. 99
      BY DEF CalLeap
    <2> QED BY <2>1, <2>2, CalLengths
  <1>a. Calendar!days_in_month(Calendar!RTC_EPOCH_YEAR + d.year, d.month) = n
    BY <1>2 DEF CalLength, Calendar!RTC_EPOCH_YEAR
  <1>b. CalBefore[month] \in Nat /\ CalLeap(year) \in {0, 1} /\ CalLeap(year + 1) \in {0, 1}
    BY CalTable DEF CalLeap
  <1>4. CASE day < n
    <2>1. PICK later \in 1 .. 31 : later = day + 1
      BY <1>2, <1>4 DEF CalLeap
    <2>2. PICK e : e = [d EXCEPT !.day = later]
      OBVIOUS
    <2>3. e \in CalDate /\ e.year = year /\ e.month = month /\ e.day = later
      BY <1>1, <2>2 DEF CalDate
    <2>4. Calendar!NextDay(d) = e
      BY <1>1, <1>4, <1>a, <2>1, <2>2 DEF Calendar!NextDay
    <2>5. CalLength(e) = n
      BY <1>1, <1>2, <2>3 DEF CalLength
    <2>6. CalDay(e) = CalDay(d) + 1
      BY <1>1, <1>b, <2>1, <2>3 DEF CalDay
    <2> QED BY <1>4, <2>1, <2>3, <2>4, <2>5, <2>6
  <1>5. CASE day = n /\ month < 12
    <2>1. PICK later \in 1 .. 12, one \in 1 .. 31 : later = month + 1 /\ one = 1
      BY <1>5
    <2>2. PICK e : e = [d EXCEPT !.day = one, !.month = later]
      OBVIOUS
    <2>3. e \in CalDate /\ e.year = year /\ e.month = later /\ e.day = 1
      <3>1. e \in CalDate
        BY <2>2 DEF CalDate
      <3>2. e.year = d.year /\ e.month = later /\ e.day = one
        BY <2>2 DEF CalDate
      <3> QED BY <1>1, <2>1, <3>1, <3>2
    <2>4. Calendar!NextDay(d) = e
      BY <1>1, <1>5, <1>a, <2>1, <2>2 DEF Calendar!NextDay
    <2>5. CalLength(e) >= 28
      BY <1>3, <2>3 DEF CalLength
    <2>6. CalBefore[later] + (IF later > 2 THEN CalLeap(year) ELSE 0)
             = CalBefore[month] + (IF month > 2 THEN CalLeap(year) ELSE 0) + n
      BY <1>2, <1>5, <1>b, <2>1, CalGrow
    <2>7. CalDay(e) = CalDay(d) + 1
      <3>1. PICK a \in Int, b \in Int :
               /\ a = CalBefore[later] + (IF later > 2 THEN CalLeap(year) ELSE 0)
               /\ b = CalBefore[month] + (IF month > 2 THEN CalLeap(year) ELSE 0) /\ a = b + n
        BY <1>b, <2>6
      <3>2. PICK c \in Int : c = 10957 + 365 * year + ((year + 3) \div 4)
        OBVIOUS
      <3>3. CalBefore[later] \in Nat
        BY CalTable
      <3>4. CalDay(e) = c + 1 - 1 + a
        BY <1>b, <2>3, <3>1, <3>2, <3>3 DEF CalDay
      <3>5. CalDay(d) = c + day - 1 + b
        BY <1>1, <1>b, <3>1, <3>2 DEF CalDay
      <3> QED BY <1>5, <3>1, <3>4, <3>5
    <2>8. e.day <= CalLength(e)
      <3>1. Calendar!days_in_month(2000 + year, later) \in Int
        <4>1. later \in {4, 6, 9, 11} \/ later = 2 \/ later \in {1, 3, 5, 7, 8, 10, 12}
          OBVIOUS
        <4>2. year \in 0 .. 99
          OBVIOUS
        <4> QED BY <1>b, <4>1, <4>2, CalLengths
      <3> QED BY <2>3, <2>5, <3>1 DEF CalLength
    <2> QED BY <2>3, <2>4, <2>7, <2>8
  <1>6. CASE day = n /\ month = 12
    <2>1. PICK later \in 0 .. 99, one \in 1 .. 31, january \in 1 .. 12 : later = year + 1 /\ one = 1 /\ january = 1
      OBVIOUS
    <2>2. PICK e : e = [d EXCEPT !.day = one, !.month = january, !.year = later]
      OBVIOUS
    <2>3. e \in CalDate /\ e.year = later /\ e.month = 1 /\ e.day = 1
      <3>1. e \in CalDate
        BY <2>2 DEF CalDate
      <3>2. e.year = later /\ e.month = january /\ e.day = one
        BY <2>2 DEF CalDate
      <3> QED BY <2>1, <3>1, <3>2
    <2>4. Calendar!NextDay(d) = e
      BY <1>1, <1>6, <1>a, <2>1, <2>2 DEF Calendar!NextDay
    <2>5. CalLength(e) = 31
      BY <2>1, <2>3, CalLengths DEF CalLength
    <2>6. n = 31 /\ CalBefore[12] = 334 /\ CalBefore[1] = 0
      BY <1>2, <1>6 DEF CalBefore
    <2>7. (later + 3) \div 4 = ((year + 3) \div 4) + CalLeap(year)
      BY <2>1 DEF CalLeap
    <2>8. CalDay(e) = CalDay(d) + 1
      BY <1>1, <1>6, <1>b, <2>1, <2>3, <2>6, <2>7 DEF CalDay
    <2> QED BY <2>3, <2>4, <2>5, <2>8
  <1> QED BY <1>1, <1>2, <1>4, <1>5, <1>6

\* Times as readers get them and as the calendar shows them.
CalTime == [days : Int, second : Int, ns : Int]
CalRead == [status : {"read", "ok", "error"}, date : CalDate, second : {0, 86399}, subseconds : 0 .. SecondFraction]
CalAt(date, second, subseconds) ==
    [days |-> CalDay(date), second |-> second, ns |-> Calendar!Nanoseconds(subseconds)]
CalOf(read) == CalAt(read.date, read.second, read.subseconds)
CalNow == CalAt(cal_date, cal_second, cal_subseconds)
CalTypes ==
    /\ cal_date \in CalDate /\ cal_date.day <= CalLength(cal_date)
    /\ cal_second \in {0, 86399} /\ cal_subseconds \in 0 .. SecondFraction
    /\ cal_shadow \in CalRead \cup {Calendar!None}
    /\ cal_at \in [Threads -> {"out", "time", "date", "convert"}]
    /\ cal_time \in [Threads -> CalRead \cup {Calendar!None}]
    /\ cal_seen \in [Threads -> CalTime \cup {Calendar!None}]
\* What a reader has read is a time that the calendar showed since its call; the
\* registers are frozen for the one that masks interrupts, if at all.
CalOk(r, at, primask, seen, time, shadow, now) ==
    /\ at \in {"time", "date"} => primask = r
    /\ at # "out" => seen \in CalTime
    /\ at = "time" => Calendar!NotAfter(seen, now)
    /\ at = "date" => /\ shadow \in CalRead /\ time \in CalRead
                      /\ time.second = shadow.second /\ time.subseconds = shadow.subseconds
                      /\ Calendar!NotAfter(seen, CalOf(shadow)) /\ Calendar!NotAfter(CalOf(shadow), now)
    /\ at = "convert" => /\ time \in CalRead
                         /\ Calendar!NotAfter(seen, CalOf(time)) /\ Calendar!NotAfter(CalOf(time), now)
CalReader(r) == CalOk(r, cal_at[r], cal_primask, cal_seen[r], cal_time[r], cal_shadow, CalNow)
CalInv ==
    /\ CalTypes
    /\ cal_shadow # Calendar!None => \E r \in Threads : cal_at[r] = "date"
    /\ \A r \in Threads : CalReader(r)
    /\ cal_wrong = {}

LEMMA CalConstants ==
    /\ Years \subseteq 0 .. 99 /\ FirstDays \subseteq 1 .. 31
    /\ SecondFraction \in Nat /\ NANOSECONDS_PER_SECOND \in Nat \ {0} /\ "nobody" \notin Threads
  BY ConstantsAssumption DEF ConstantsAssumption

LEMMA CalNothing == Calendar!None \notin CalRead /\ Calendar!None \notin CalTime
  <1>1. Calendar!None \notin CalRead
    <2>1. Calendar!None.status = "none"
      BY DEF Calendar!None
    <2>2. \A read \in CalRead : read.status # "none"
      BY DEF CalRead
    <2> QED BY <2>1, <2>2
  <1>2. Calendar!None \notin CalTime
    <2>1. DOMAIN Calendar!None = {"status"}
      BY DEF Calendar!None
    <2>2. \A time \in CalTime : "days" \in DOMAIN time
      BY DEF CalTime
    <2> QED BY <2>1, <2>2
  <1> QED BY <1>1, <1>2

\* Division keeps the order.
LEMMA CalDivides ==
    ASSUME NEW p \in Nat \ {0}, NEW a \in Int, NEW b \in Int, a <= b
    PROVE  a \div p <= b \div p
  <1>1. PICK q \in Int, r \in 0 .. p - 1 : a = p * q + r /\ a \div p = q
    BY DivParts, ZenonT(30)
  <1>2. PICK s \in Int, u \in 0 .. p - 1 : b = p * s + u /\ b \div p = s
    BY DivParts, ZenonT(30)
  <1>3. ASSUME s <= q - 1 PROVE FALSE
    <2>1. p * s <= p * q - p /\ p * s \in Int /\ p * q \in Int
      BY <1>3
    <2> QED BY <1>1, <1>2, <2>1
  <1> QED BY <1>1, <1>2, <1>3

\* Fractions of a second, which the hardware counts down.
LEMMA CalFractions ==
    ASSUME NEW n \in 0 .. SecondFraction
    PROVE  /\ Calendar!Nanoseconds(n) \in 0 .. NANOSECONDS_PER_SECOND - 1
           /\ n > 0 => Calendar!Nanoseconds(n) <= Calendar!Nanoseconds(n - 1)
  <1>1. PICK p \in Nat \ {0} : p = SecondFraction + 1
    BY CalConstants
  <1>2. PICK k \in Nat \ {0} : k = NANOSECONDS_PER_SECOND
    BY CalConstants
  <1>3. PICK f \in Nat : f = SecondFraction - n /\ f <= p - 1
    BY <1>1, CalConstants
  <1>4. PICK a \in Nat : a = f * k
    OBVIOUS
  <1>5. Calendar!Nanoseconds(n) = a \div p
    BY <1>1, <1>2, <1>3, <1>4 DEF Calendar!Nanoseconds
  <1>6. a < p * k
    <2>1. f * k <= (p - 1) * k /\ (p - 1) * k = p * k - k /\ p * k \in Int
      BY <1>3
    <2> QED BY <1>4, <2>1
  <1>7. PICK q \in Int, r \in 0 .. p - 1 : a = p * q + r /\ a \div p = q
    <2>1. a \in Int
      OBVIOUS
    <2> QED BY <2>1, DivParts, ZenonT(30)
  <1>8. q >= 0
    <2>1. ASSUME q <= -1 PROVE FALSE
      <3>1. p * q <= -p
        BY <2>1
      <3> QED BY <1>7, <3>1
    <2> QED BY <2>1
  <1>9. q <= k - 1
    <2>1. ASSUME q >= k PROVE FALSE
      <3>1. p * q >= p * k /\ p * q \in Int /\ p * k \in Int
        BY <2>1
      <3> QED BY <1>6, <1>7, <3>1
    <2> QED BY <2>1
  <1>10. ASSUME n > 0 PROVE Calendar!Nanoseconds(n) <= Calendar!Nanoseconds(n - 1)
    <2>1. PICK b \in Nat : b = (f + 1) * k
      OBVIOUS
    <2>2. SecondFraction - (n - 1) = f + 1
      BY <1>3, CalConstants
    <2>3. Calendar!Nanoseconds(n - 1) = b \div p
      BY <1>1, <1>2, <2>1, <2>2 DEF Calendar!Nanoseconds
    <2>4. a <= b
      <3>1. (f + 1) * k = f * k + k
        OBVIOUS
      <3> QED BY <1>4, <2>1, <3>1
    <2>5. a \in Int /\ b \in Int
      OBVIOUS
    <2>6. a \div p <= b \div p
      BY <2>4, <2>5, CalDivides, ZenonT(30)
    <2> QED BY <1>5, <2>3, <2>6
  <1> QED BY <1>2, <1>5, <1>7, <1>8, <1>9, <1>10

\* The order of times.
LEMMA CalOrder ==
    ASSUME NEW a \in CalTime, NEW b \in CalTime, NEW c \in CalTime
    PROVE  /\ Calendar!NotAfter(a, a)
           /\ Calendar!NotAfter(a, b) /\ Calendar!NotAfter(b, c) => Calendar!NotAfter(a, c)
  BY DEF CalTime, Calendar!NotAfter

LEMMA CalShows ==
    ASSUME NEW date \in CalDate, NEW second \in Int, NEW subseconds \in 0 .. SecondFraction
    PROVE  /\ CalAt(date, second, subseconds) \in CalTime
           /\ CalAt(date, second, subseconds).days = CalDay(date)
           /\ CalAt(date, second, subseconds).second = second
           /\ CalAt(date, second, subseconds).ns = Calendar!Nanoseconds(subseconds)
  <1>1. PICK ns \in Int : ns = Calendar!Nanoseconds(subseconds)
    BY CalFractions, CalConstants
  <1>2. PICK days \in Int : days = CalDay(date)
    <2>1. PICK year \in 0 .. 99, month \in 1 .. 12, day \in 1 .. 31 : year = date.year /\ month = date.month /\ day = date.day
      BY DEF CalDate
    <2>2. CalBefore[month] \in Nat /\ CalLeap(year) \in {0, 1}
      BY CalTable DEF CalLeap
    <2> QED BY <2>1, <2>2 DEF CalDay
  <1> QED BY <1>1, <1>2 DEF CalAt, CalTime

LEMMA CalReadShows ==
    ASSUME NEW read \in CalRead
    PROVE  CalOf(read) \in CalTime /\ CalOf(read).ns = Calendar!Nanoseconds(read.subseconds)
  <1>1. read.date \in CalDate /\ read.second \in Int /\ read.subseconds \in 0 .. SecondFraction
    BY DEF CalRead
  <1> QED BY <1>1, CalShows DEF CalOf

LEMMA CalNowShows ==
    ASSUME CalTypes
    PROVE  CalNow \in CalTime /\ CalNow = Calendar!Moment
  <1>1. cal_second \in Int
    BY DEF CalTypes
  <1>2. CalNow \in CalTime
    BY <1>1, CalShows DEF CalTypes, CalNow
  <1>3. Calendar!DaysBefore(cal_date) = CalDay(cal_date)
    BY CalDaysBefore DEF CalTypes
  <1> QED BY <1>2, <1>3 DEF CalNow, CalAt, Calendar!Moment

\* What a reader has stays good when the calendar goes on.
LEMMA CalLater ==
    ASSUME NEW r, NEW at, NEW primask, NEW seen, NEW time, NEW shadow, NEW now \in CalTime, NEW later \in CalTime,
           CalOk(r, at, primask, seen, time, shadow, now), Calendar!NotAfter(now, later)
    PROVE  CalOk(r, at, primask, seen, time, shadow, later)
  <1>1. at # "out" => seen \in CalTime
    BY DEF CalOk
  <1>2. at = "time" => Calendar!NotAfter(seen, later)
    <2>1. ASSUME at = "time" PROVE Calendar!NotAfter(seen, later)
      <3>1. seen \in CalTime /\ Calendar!NotAfter(seen, now)
        BY <2>1 DEF CalOk
      <3> QED BY <3>1, CalOrder
    <2> QED BY <2>1
  <1>3. at = "date" => Calendar!NotAfter(CalOf(shadow), later)
    <2>1. ASSUME at = "date" PROVE Calendar!NotAfter(CalOf(shadow), later)
      <3>1. CalOf(shadow) \in CalTime /\ Calendar!NotAfter(CalOf(shadow), now)
        BY <2>1, CalReadShows DEF CalOk
      <3> QED BY <3>1, CalOrder
    <2> QED BY <2>1
  <1>4. at = "convert" => Calendar!NotAfter(CalOf(time), later)
    <2>1. ASSUME at = "convert" PROVE Calendar!NotAfter(CalOf(time), later)
      <3>1. CalOf(time) \in CalTime /\ Calendar!NotAfter(CalOf(time), now)
        BY <2>1, CalReadShows DEF CalOk
      <3> QED BY <3>1, CalOrder
    <2> QED BY <2>1
  <1> QED BY <1>1, <1>2, <1>3, <1>4 DEF CalOk

LEMMA CalInitial == Calendar!Init => CalInv
  <1> SUFFICES ASSUME Calendar!Init PROVE CalInv
    OBVIOUS
  <1>1. cal_date \in CalDate /\ cal_date.day <= CalLength(cal_date)
    <2>1. PICK d \in [year : Years, month : 1 .. 12, day : FirstDays] :
             d = cal_date /\ d.day <= Calendar!days_in_month(Calendar!RTC_EPOCH_YEAR + d.year, d.month)
      BY DEF Calendar!Init
    <2>2. [year : Years, month : 1 .. 12, day : FirstDays] \subseteq CalDate
      BY CalConstants DEF CalDate
    <2> QED BY <2>1, <2>2 DEF CalLength, Calendar!RTC_EPOCH_YEAR
  <1>2. CalTypes
    BY <1>1, CalConstants DEF Calendar!Init, CalTypes, Calendar!SECONDS_PER_DAY
  <1>3. \A r \in Threads : CalReader(r)
    BY DEF Calendar!Init, CalReader, CalOk
  <1> QED BY <1>2, <1>3 DEF CalInv, Calendar!Init

LEMMA CalGoesOn ==
    ASSUME CalInv, Calendar!Step
    PROVE  CalInv'
  <1>0. CalTypes /\ CalNow \in CalTime /\ \A r \in Threads : CalReader(r)
    BY CalNowShows DEF CalInv
  <1>1. UNCHANGED <<cal_shadow, cal_primask, cal_at, cal_time, cal_seen, cal_wrong>>
    BY DEF Calendar!Step
  <1>2. PICK d \in CalDate, s \in {0, 86399}, n \in 0 .. SecondFraction :
           d = cal_date /\ s = cal_second /\ n = cal_subseconds /\ d.day <= CalLength(d)
    BY <1>0 DEF CalTypes
  <1>3. ASSUME NEW date \in CalDate, NEW second \in {0, 86399}, NEW subseconds \in 0 .. SecondFraction,
               cal_date' = date, cal_second' = second, cal_subseconds' = subseconds, date.day <= CalLength(date),
               Calendar!NotAfter(CalNow, CalAt(date, second, subseconds))
        PROVE  CalInv'
    <2>1. CalNow' = CalAt(date, second, subseconds)
      BY <1>3 DEF CalNow
    <2>2. CalAt(date, second, subseconds) \in CalTime
      <3>1. second \in Int
        OBVIOUS
      <3> QED BY <3>1, CalShows
    <2>3. ASSUME NEW r \in Threads PROVE CalReader(r)'
      <3>1. CalOk(r, cal_at[r], cal_primask, cal_seen[r], cal_time[r], cal_shadow, CalNow)
        BY <1>0 DEF CalReader
      <3>2. CalOk(r, cal_at[r], cal_primask, cal_seen[r], cal_time[r], cal_shadow, CalAt(date, second, subseconds))
        BY <1>0, <1>3, <2>2, <3>1, CalLater
      <3> QED BY <1>1, <2>1, <3>2 DEF CalReader
    <2>4. CalTypes'
      <3>1. CalLength(cal_date)' = CalLength(date)
        BY <1>3 DEF CalLength
      <3> QED BY <1>0, <1>1, <1>3, <3>1 DEF CalTypes
    <2> QED BY <1>1, <2>3, <2>4 DEF CalInv
  <1>4. PICK now \in CalTime : now = CalNow /\ now.days = CalDay(d) /\ now.second = s /\ now.ns = Calendar!Nanoseconds(n)
    <2>1. s \in Int
      OBVIOUS
    <2> QED BY <1>2, <2>1, CalShows DEF CalNow
  <1>5. CASE n > 0
    <2>1. PICK m \in 0 .. SecondFraction : m = n - 1
      BY <1>5, CalConstants
    <2>2. cal_date' = d /\ cal_second' = s /\ cal_subseconds' = m
      BY <1>2, <1>5, <2>1 DEF Calendar!Step
    <2>3. PICK next \in CalTime : /\ next = CalAt(d, s, m) /\ next.days = CalDay(d) /\ next.second = s
                                  /\ next.ns = Calendar!Nanoseconds(m)
      <3>1. s \in Int
        OBVIOUS
      <3> QED BY <3>1, CalShows
    <2>4. now.ns <= next.ns
      BY <1>4, <1>5, <2>1, <2>3, CalFractions
    <2>5. Calendar!NotAfter(now, next)
      BY <1>4, <2>3, <2>4 DEF Calendar!NotAfter
    <2> QED BY <1>2, <1>3, <1>4, <2>2, <2>3, <2>5
  <1>6. CASE n = 0
    <2>1. PICK full \in 0 .. SecondFraction, second \in {0, 86399} :
             full = SecondFraction /\ second = Calendar!SECONDS_PER_DAY - 1 - s
      BY CalConstants DEF Calendar!SECONDS_PER_DAY
    <2>2. cal_subseconds' = full /\ cal_second' = second
      BY <1>2, <1>6, <2>1 DEF Calendar!Step
    <2>a. second \in Int
      OBVIOUS
    <2>3. CASE s = 0
      <3>1. cal_date' = d /\ second = 86399
        BY <1>2, <1>6, <2>1, <2>3 DEF Calendar!Step, Calendar!SECONDS_PER_DAY
      <3>2. PICK next \in CalTime : next = CalAt(d, second, full) /\ next.days = CalDay(d) /\ next.second = second
        BY <2>a, CalShows
      <3>3. Calendar!NotAfter(now, next)
        BY <1>4, <2>3, <3>1, <3>2 DEF Calendar!NotAfter
      <3> QED BY <1>2, <1>3, <1>4, <2>2, <3>1, <3>2, <3>3
    <2>4. CASE s # 0
      <3>1. d.year < 99 /\ cal_date' = Calendar!NextDay(d)
        BY <1>2, <1>6, <2>4 DEF Calendar!Step
      <3>2. PICK e \in CalDate : e = Calendar!NextDay(d) /\ e.day <= CalLength(e) /\ CalDay(e) = CalDay(d) + 1
        BY <1>2, <3>1, CalNext
      <3>3. PICK next \in CalTime : next = CalAt(e, second, full) /\ next.days = CalDay(e)
        BY <2>a, CalShows
      <3>4. now.days < next.days
        BY <1>4, <3>2, <3>3 DEF CalTime
      <3>5. Calendar!NotAfter(now, next)
        BY <3>4 DEF Calendar!NotAfter
      <3> QED BY <1>3, <1>4, <2>2, <3>1, <3>2, <3>3, <3>5
    <2> QED BY <2>3, <2>4
  <1> QED BY <1>5, <1>6

\* A step of one reader, while no other one masks interrupts.
LEMMA CalReads ==
    ASSUME CalInv, NEW r \in Threads, Calendar!MayRun(r),
           NEW at \in {"out", "time", "date", "convert"}, NEW seen \in CalTime \cup {Calendar!None},
           NEW time \in CalRead \cup {Calendar!None},
           UNCHANGED <<cal_date, cal_second, cal_subseconds, cal_wrong>>,
           cal_at' = [cal_at EXCEPT ![r] = at], cal_seen' = [cal_seen EXCEPT ![r] = seen],
           cal_time' = [cal_time EXCEPT ![r] = time],
           cal_shadow' \in CalRead \cup {Calendar!None},
           at # "date" => cal_shadow' = Calendar!None,
           CalOk(r, at, cal_primask', seen, time, cal_shadow', CalNow)
    PROVE  CalInv'
  <1>0. CalTypes /\ \A u \in Threads : CalReader(u)
    BY DEF CalInv
  <1>1. CalTypes'
    <2>1. CalLength(cal_date)' = CalLength(cal_date)
      BY DEF CalLength
    <2> QED BY <1>0, <2>1 DEF CalTypes
  <1>2. CalNow' = CalNow
    BY DEF CalNow
  <1>3. ASSUME NEW u \in Threads PROVE CalReader(u)'
    <2>1. CASE u = r
      <3>1. cal_at'[u] = at /\ cal_seen'[u] = seen /\ cal_time'[u] = time
        BY <1>0, <2>1 DEF CalTypes
      <3> QED BY <1>2, <2>1, <3>1 DEF CalReader
    <2>2. CASE u # r
      <3>1. cal_at'[u] = cal_at[u] /\ cal_seen'[u] = cal_seen[u] /\ cal_time'[u] = cal_time[u]
        BY <1>0, <2>2 DEF CalTypes
      <3>2. cal_primask # u
        BY <2>2, CalConstants DEF Calendar!MayRun, Calendar!Nobody
      <3>3. CalOk(u, cal_at[u], cal_primask, cal_seen[u], cal_time[u], cal_shadow, CalNow)
        BY <1>0 DEF CalReader
      <3>4. CalOk(u, cal_at[u], cal_primask', cal_seen[u], cal_time[u], cal_shadow', CalNow)
        BY <3>2, <3>3 DEF CalOk
      <3> QED BY <1>2, <3>1, <3>4 DEF CalReader
    <2> QED BY <2>1, <2>2
  <1>4. cal_shadow' # Calendar!None => cal_at'[r] = "date"
    BY <1>0 DEF CalTypes
  <1> QED BY <1>1, <1>3, <1>4 DEF CalInv

\* Nothing is frozen while a reader that may run does not read.
LEMMA CalFree ==
    ASSUME CalInv, NEW r \in Threads, Calendar!MayRun(r), cal_at[r] # "date"
    PROVE  cal_shadow = Calendar!None
  <1>1. ASSUME NEW u \in Threads, cal_at[u] = "date" PROVE FALSE
    <2>1. cal_primask = u
      BY <1>1 DEF CalInv, CalReader, CalOk
    <2>2. u = r
      BY <2>1, CalConstants DEF Calendar!MayRun, Calendar!Nobody
    <2> QED BY <1>1, <2>2
  <1> QED BY <1>1 DEF CalInv

LEMMA CalCalls ==
    ASSUME CalInv, NEW r \in Threads, Calendar!Call(r)
    PROVE  CalInv'
  <1>0. CalTypes
    BY DEF CalInv
  <1>1. PICK now \in CalTime : now = CalNow /\ now = Calendar!Moment
    BY <1>0, CalNowShows
  <1>2. PICK time \in CalRead \cup {Calendar!None} : time = cal_time[r]
    BY <1>0 DEF CalTypes
  <1>3. /\ Calendar!MayRun(r) /\ cal_at[r] = "out" /\ cal_primask' = r
        /\ cal_at' = [cal_at EXCEPT ![r] = "time"] /\ cal_seen' = [cal_seen EXCEPT ![r] = now]
        /\ UNCHANGED <<cal_date, cal_second, cal_subseconds, cal_shadow, cal_time, cal_wrong>>
    BY <1>1 DEF Calendar!Call, Calendar!Guarded
  <1>4. cal_shadow = Calendar!None
    BY <1>3, CalFree
  <1>5. cal_time' = [cal_time EXCEPT ![r] = time]
    BY <1>0, <1>2, <1>3 DEF CalTypes
  <1>6. CalOk(r, "time", cal_primask', now, time, cal_shadow', CalNow)
    BY <1>1, <1>3, CalOrder DEF CalOk
  <1> QED BY <1>3, <1>4, <1>5, <1>6, CalReads

LEMMA CalGetTime ==
    ASSUME CalInv, NEW r \in Threads, NEW status \in {"ok", "error"}, Calendar!HAL_RTC_GetTime(r, status)
    PROVE  CalInv'
  <1>0. CalTypes /\ CalReader(r)
    BY DEF CalInv
  <1>1. /\ Calendar!MayRun(r) /\ cal_at[r] = "time"
        /\ UNCHANGED <<cal_date, cal_second, cal_subseconds, cal_primask, cal_seen, cal_wrong>>
        /\ cal_at' = [cal_at EXCEPT ![r] = "date"]
    BY DEF Calendar!HAL_RTC_GetTime
  <1>2. cal_shadow = Calendar!None
    BY <1>1, CalFree
  <1>3. PICK frozen : frozen = Calendar!Registers
    OBVIOUS
  <1>4. frozen \in CalRead /\ CalOf(frozen) = CalNow
    BY <1>0, <1>3 DEF CalTypes, CalRead, Calendar!Registers, CalOf, CalNow
  <1>5. PICK read : read = [frozen EXCEPT !.status = status]
    OBVIOUS
  <1>6. read \in CalRead /\ read.second = frozen.second /\ read.subseconds = frozen.subseconds
    <2>1. PICK f \in CalRead, st \in {"read", "ok", "error"} : f = frozen /\ st = status
      BY <1>4
    <2>2. read = [f EXCEPT !.status = st]
      BY <1>5, <2>1
    <2>3. read \in CalRead
      BY <2>2 DEF CalRead
    <2>4. read.second = f.second /\ read.subseconds = f.subseconds
      BY <2>2 DEF CalRead
    <2> QED BY <2>1, <2>3, <2>4
  <1>7. cal_shadow' = frozen /\ cal_time' = [cal_time EXCEPT ![r] = read]
    BY <1>2, <1>3, <1>5 DEF Calendar!HAL_RTC_GetTime
  <1>8. PICK seen \in CalTime : seen = cal_seen[r] /\ Calendar!NotAfter(seen, CalNow) /\ cal_primask = r
    BY <1>0, <1>1 DEF CalReader, CalOk
  <1>9. cal_seen' = [cal_seen EXCEPT ![r] = seen]
    BY <1>0, <1>1, <1>8 DEF CalTypes
  <1>10. CalNow \in CalTime
    BY <1>0, CalNowShows
  <1>11. CalOk(r, "date", cal_primask', seen, read, cal_shadow', CalNow)
    BY <1>1, <1>4, <1>6, <1>7, <1>8, <1>10, CalOrder DEF CalOk
  <1> QED BY <1>1, <1>4, <1>6, <1>7, <1>9, <1>11, CalReads

LEMMA CalGetDate ==
    ASSUME CalInv, NEW r \in Threads, Calendar!HAL_RTC_GetDate(r)
    PROVE  CalInv'
  <1>0. CalTypes /\ CalReader(r)
    BY DEF CalInv
  <1>1. /\ Calendar!MayRun(r) /\ cal_at[r] = "date" /\ cal_shadow' = Calendar!None
        /\ UNCHANGED <<cal_date, cal_second, cal_subseconds, cal_seen, cal_wrong>>
        /\ cal_at' = [cal_at EXCEPT ![r] = "convert"]
    BY DEF Calendar!HAL_RTC_GetDate, Calendar!Released
  <1>2. PICK shadow \in CalRead, time \in CalRead, seen \in CalTime :
           /\ shadow = cal_shadow /\ time = cal_time[r] /\ seen = cal_seen[r]
           /\ time.second = shadow.second /\ time.subseconds = shadow.subseconds
           /\ Calendar!NotAfter(seen, CalOf(shadow)) /\ Calendar!NotAfter(CalOf(shadow), CalNow)
    BY <1>0, <1>1 DEF CalReader, CalOk
  <1>3. shadow # Calendar!None
    BY CalNothing
  <1>4. PICK date \in CalDate : date = shadow.date
    BY DEF CalRead
  <1>5. PICK read : read = [time EXCEPT !.date = date]
    OBVIOUS
  <1>6. /\ read \in CalRead /\ read.date = date /\ read.second = time.second /\ read.subseconds = time.subseconds
    <2>1. read \in CalRead
      BY <1>5 DEF CalRead
    <2>2. read.date = date /\ read.second = time.second /\ read.subseconds = time.subseconds
      BY <1>5 DEF CalRead
    <2> QED BY <2>1, <2>2
  <1>7. cal_time' = [cal_time EXCEPT ![r] = read]
    BY <1>2, <1>3, <1>4, <1>5 DEF Calendar!HAL_RTC_GetDate
  <1>8. cal_seen' = [cal_seen EXCEPT ![r] = seen]
    BY <1>0, <1>1, <1>2 DEF CalTypes
  <1>9. CalOf(read) = CalOf(shadow)
    BY <1>2, <1>4, <1>6 DEF CalOf
  <1>10. CalOk(r, "convert", cal_primask', seen, read, cal_shadow', CalNow)
    BY <1>2, <1>6, <1>9 DEF CalOk
  <1> QED BY <1>1, <1>6, <1>7, <1>8, <1>10, CalReads

LEMMA CalConverts ==
    ASSUME CalInv, NEW r \in Threads, Calendar!_gettimeofday(r)
    PROVE  CalInv'
  <1>0. CalTypes /\ CalReader(r) /\ cal_wrong = {}
    BY DEF CalInv
  <1>1. /\ Calendar!MayRun(r) /\ cal_at[r] = "convert"
        /\ UNCHANGED <<cal_date, cal_second, cal_subseconds, cal_shadow, cal_primask>>
        /\ cal_at' = [cal_at EXCEPT ![r] = "out"] /\ cal_seen' = [cal_seen EXCEPT ![r] = Calendar!None]
        /\ cal_time' = [cal_time EXCEPT ![r] = Calendar!None]
    BY DEF Calendar!_gettimeofday
  <1>2. PICK time \in CalRead, seen \in CalTime :
           /\ time = cal_time[r] /\ seen = cal_seen[r]
           /\ Calendar!NotAfter(seen, CalOf(time)) /\ Calendar!NotAfter(CalOf(time), CalNow)
    BY <1>0, <1>1 DEF CalReader, CalOk
  <1>3. PICK got \in CalTime : got = CalOf(time) /\ got = Calendar!getTime(r)
    <2>1. CalOf(time) \in CalTime
      BY CalReadShows
    <2>2. Calendar!Days(time.date) = CalDay(time.date)
      BY CalCivil DEF CalRead
    <2> QED BY <1>2, <2>1, <2>2 DEF CalOf, CalAt, Calendar!getTime
  <1>4. got.ns \in 0 .. NANOSECONDS_PER_SECOND - 1
    <2>1. time.subseconds \in 0 .. SecondFraction
      BY DEF CalRead
    <2>2. got.ns = Calendar!Nanoseconds(time.subseconds)
      BY <1>3, CalReadShows
    <2> QED BY <2>1, <2>2, CalFractions
  <1>5. Calendar!NotAfter(Calendar!Microseconds(got), got)
    <2>1. PICK ns \in Nat : ns = got.ns
      BY <1>4, CalConstants
    <2>2. PICK whole \in Nat : whole = (ns \div 1000) * 1000 /\ whole <= ns
      OBVIOUS
    <2>3. Calendar!Microseconds(got) = [got EXCEPT !.ns = whole]
      BY <2>1, <2>2 DEF Calendar!Microseconds
    <2>4. PICK rounded : rounded = [got EXCEPT !.ns = whole]
      OBVIOUS
    <2>5. rounded.days = got.days /\ rounded.second = got.second /\ rounded.ns = whole
      BY <2>4 DEF CalTime
    <2> QED BY <2>1, <2>2, <2>3, <2>4, <2>5 DEF Calendar!NotAfter
  <1>6. Calendar!IsReal(r)
    <2>1. Calendar!Moment = CalNow
      BY <1>0, CalNowShows
    <2>2. got.ns < NANOSECONDS_PER_SECOND
      BY <1>4, CalConstants
    <2> QED BY <1>2, <1>3, <1>5, <2>1, <2>2 DEF Calendar!IsReal
  <1>7. cal_wrong' = cal_wrong
    BY <1>6 DEF Calendar!_gettimeofday
  <1>8. cal_shadow = Calendar!None
    BY <1>1, CalFree
  <1>9. CalOk(r, "out", cal_primask', Calendar!None, Calendar!None, cal_shadow', CalNow)
    BY DEF CalOk
  <1> QED BY <1>1, <1>7, <1>8, <1>9, CalReads

LEMMA CalStep == CalInv /\ [Calendar!Next]_cal_vars => CalInv'
  <1> SUFFICES ASSUME CalInv, [Calendar!Next]_cal_vars PROVE CalInv'
    OBVIOUS
  <1>1. CASE UNCHANGED cal_vars
    BY <1>1 DEF cal_vars, CalInv, CalTypes, CalReader, CalOk, CalNow, CalLength
  <1>2. CASE Calendar!Step
    BY <1>2, CalGoesOn
  <1>3. ASSUME NEW r \in Threads, Calendar!Call(r) \/ Calendar!HAL_RTC_GetDate(r) \/ Calendar!_gettimeofday(r)
        PROVE  CalInv'
    BY <1>3, CalCalls, CalGetDate, CalConverts
  <1>4. ASSUME NEW r \in Threads, NEW status \in {"ok", "error"}, Calendar!HAL_RTC_GetTime(r, status)
        PROVE  CalInv'
    BY <1>4, CalGetTime
  <1> QED BY <1>1, <1>2, <1>3, <1>4 DEF Calendar!Next

\* The steady clock counts every tick, what a call of the system clock returns is
\* less than a tick off and not less than an earlier call returned, and a reader of
\* the calendar gets a time that it showed: for every set of threads, every tick,
\* width of the counters and fraction of a second.
THEOREM ClocksAreRightHolds == Spec => ClocksAreRight
  <1> DEFINE Inv == ClockInv /\ CalInv
             Safe == subject = "Calendar" => Calendar!TimesAreReal
             Ticks == Clock!steady_ticks = Clock!TrueTick
             Returns == \A r \in Threads : clock_readers[r].at # "idle" /\ clock_readers'[r].at = "idle" =>
                           /\ Clock!Result(r) >= clock_readers[r].least
                           /\ Clock!Result(r) > clock_readers[r].since - clock_start - Counts
                           /\ Clock!Result(r) < clock_now - clock_start + Counts
  <1>1. Init => Inv
    BY ClockInitial, CalInitial DEF Init
  <1>2. [Next]_vars => [Clock!Next]_clock_vars /\ [Calendar!Next]_cal_vars
    BY DEF Next, vars
  <1>3. Inv /\ [Next]_vars => Inv'
    BY <1>2, ClockStep, CalStep
  <1>4. Inv => Safe /\ Ticks
    BY ClockExtends DEF ClockInv, CalInv, Calendar!TimesAreReal, Clock!TrueTick
  <1>5. Inv /\ [Next]_vars => [Returns]_(Clock!vars)
    BY <1>2, ClockReturns
  <1>6. Spec => [][Ticks]_(Clock!vars) /\ [][Returns]_(Clock!vars) /\ []Safe
    <2> HIDE DEF Inv, Safe, Ticks, Returns
    <2> QED BY <1>1, <1>3, <1>4, <1>5, PTL DEF Spec
  <1> QED
    BY <1>6 DEF ClocksAreRight, Clock!ClocksAreRight
=============================================================================
