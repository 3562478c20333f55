------------------------- MODULE Il2CppFunctions_proofs -------------------------
(***************************************************************************)
(* Proofs about Il2CppFunctions, for any number of threads and blocks and  *)
(* whatever a game's binary may lack.                                      *)
(*                                                                         *)
(* initialize() takes no lock, and works because every thread that runs it *)
(* does all of it: a thread at step i has found, itself, what the steps    *)
(* before i give (InProgress), nothing is ever forgotten, and the flag     *)
(* that lets others skip it is set at its last step (PublishedComplete).   *)
(***************************************************************************)
EXTENDS Il2CppFunctions, TLAPS

NSteps == 15

(* What the steps before step i give, and that the traces among them that  *)
(* are checked found everything.                                           *)
Given(i) == UNION {Steps[j].gives : j \in 1 .. (i - 1)}

CheckedBefore(i) == \A j \in 1 .. (i - 1) : Steps[j].failing = "abort" => Steps[j].gives \intersect missing = {}

Kinds == {"leave null", "abort", "undefined", "has_gc_funcs", "initialized"}

--------------------------------------------------------------------------------
(* The order of the steps: each needs what earlier ones give only.         *)
LEMMA StepsLength == Len(Steps) = NSteps /\ DOMAIN Steps = 1 .. NSteps
  BY DEF Steps, NSteps

(* A step adds what it gives. *)
LEMMA GivenNext ==
  ASSUME NEW i \in 1 .. NSteps
  PROVE  Given(i + 1) = Given(i) \union Steps[i].gives
  BY DEF Given, NSteps

(* What an earlier step gives is given. *)
LEMMA GivenGrows ==
  ASSUME NEW i \in 1 .. NSteps, NEW j \in 1 .. (i - 1)
  PROVE  Steps[j].gives \subseteq Given(i)
  BY DEF Given, NSteps

(* After the last step everything is given, before the first nothing. *)
LEMMA GivenAll == Pointers = Given(NSteps + 1) /\ Given(1) = {}
  BY StepsLength DEF Pointers, Given, NSteps

(* What each step does when its pointer is missing. *)
LEMMA StepFailing ==
  /\ Steps[1].failing = "leave null" /\ Steps[2].failing = "leave null" /\ Steps[3].failing = "abort"
  /\ Steps[4].failing = "abort" /\ Steps[5].failing = "abort" /\ Steps[6].failing = "abort"
  /\ Steps[7].failing = "abort" /\ Steps[8].failing = "abort" /\ Steps[9].failing = "undefined"
  /\ Steps[10].failing = "abort" /\ Steps[11].failing = "leave null" /\ Steps[12].failing = "has_gc_funcs"
  /\ Steps[13].failing = "undefined" /\ Steps[14].failing = "abort" /\ Steps[15].failing = "initialized"
  BY DEF Steps, Finding, init_api, manual_definitions, find_class_init,
         find_get_type_info_from_type_definition_index, find__type_get_name_, find_class_from_il2cpp_type,
         find_generic_class_create_class, find_class_get_ptr_class, find_s_Assemblies, find_GC_free,
         find_GC_AllocFixed, set_has_gc_funcs, find_il2cpp_defaults, find_metadata_pointers, set_initialized

(* The steps that set flags. *)
LEMMA StepKinds ==
  ASSUME NEW i \in 1 .. NSteps
  PROVE  /\ Steps[i].failing = "initialized" <=> i = 15
         /\ Steps[i].failing = "has_gc_funcs" <=> i = 12
         /\ Steps[i].failing \in Kinds
  <1>1. \/ i = 1 \/ i = 2 \/ i = 3 \/ i = 4 \/ i = 5 \/ i = 6 \/ i = 7 \/ i = 8 \/ i = 9 \/ i = 10
        \/ i = 11 \/ i = 12 \/ i = 13 \/ i = 14 \/ i = 15
    BY DEF NSteps
  <1> QED
    BY <1>1, StepFailing DEF Kinds

(* The pointers that calls use, at the steps that give them. *)
LEMMA StepGives ==
  /\ {"class_from_system_type", "type_get_assembly_qualified_name", "class_from_il2cpp_type",
      "domain_assembly_open", "shutdown", "gc_free_fixed", "gc_alloc_fixed", "get_corlib",
      "object_new", "resolve_icall", "gc_is_disabled"} \subseteq Steps[1].gives
  /\ "type_get_class" \in Steps[2].gives
  /\ "Class_InitNative" \in Steps[3].gives
  /\ "GlobalMetadata_GetTypeInfoFromTypeDefinitionIndex" \in Steps[4].gives
  /\ "_Type_GetName_" \in Steps[5].gives
  /\ "Class_FromIl2CppTypeNative" \in Steps[6].gives
  /\ "GenericClass_CreateClass" \in Steps[7].gives
  /\ "Class_GetPtrClass" \in Steps[8].gives
  /\ "GC_free" \in Steps[10].gives
  /\ "GarbageCollector_AllocateFixed" \in Steps[11].gives
  /\ Steps[12].gives = {}
  /\ "defaults" \in Steps[13].gives
  /\ Steps[14].gives = find_metadata_pointers.gives
  /\ Steps[15].gives = {}
  BY DEF Steps, Finding, init_api, manual_definitions, find_class_init,
         find_get_type_info_from_type_definition_index, find__type_get_name_, find_class_from_il2cpp_type,
         find_generic_class_create_class, find_class_get_ptr_class, find_s_Assemblies, find_GC_free,
         find_GC_AllocFixed, set_has_gc_funcs, find_il2cpp_defaults, find_metadata_pointers, set_initialized

(* Where each step's trace begins: at something that an earlier step gives. *)
LEMMA StepFrom ==
  /\ Steps[1].from = {} /\ Steps[2].from = {} /\ Steps[3].from \subseteq Steps[1].gives
  /\ Steps[4].from \subseteq Steps[2].gives /\ Steps[5].from \subseteq Steps[1].gives
  /\ Steps[6].from \subseteq Steps[1].gives /\ Steps[7].from \subseteq Steps[6].gives
  /\ Steps[8].from \subseteq Steps[6].gives /\ Steps[9].from \subseteq Steps[1].gives
  /\ Steps[10].from \subseteq Steps[1].gives /\ Steps[11].from = {} /\ Steps[12].from = {}
  /\ Steps[13].from \subseteq Steps[1].gives /\ Steps[14].from \subseteq Steps[4].gives /\ Steps[15].from = {}
  BY DEF Steps, Finding, init_api, manual_definitions, find_class_init,
         find_get_type_info_from_type_definition_index, find__type_get_name_, find_class_from_il2cpp_type,
         find_generic_class_create_class, find_class_get_ptr_class, find_s_Assemblies, find_GC_free,
         find_GC_AllocFixed, set_has_gc_funcs, find_il2cpp_defaults, find_metadata_pointers, set_initialized

(* So a step that is reached has what it reads. *)
LEMMA NeedsAreGiven ==
  ASSUME NEW i \in 1 .. NSteps
  PROVE  Steps[i].from \subseteq Given(i)
  <1>1. \/ i \in {1, 2, 11, 12, 15}
        \/ i \in {3, 5, 6, 9, 10, 13} /\ 1 \in 1 .. (i - 1)
        \/ i = 4 /\ 2 \in 1 .. (i - 1)
        \/ i \in {7, 8} /\ 6 \in 1 .. (i - 1)
        \/ i = 14 /\ 4 \in 1 .. (i - 1)
    BY DEF NSteps
  <1> QED
    BY <1>1, StepFrom, GivenGrows

--------------------------------------------------------------------------------
(* The invariant.                                                          *)
Labels == {"out", "init", "allocate_fixed", "roots", "use_roots",
           "unsafe_set", "unsafe_new", "unsafe_restore"} \union Calls

Typed ==
  /\ TypeOK
  /\ block \in [Blocks -> {"free", "gc", "native"}]
  /\ owner \in [Blocks -> {"none", "specific", "gc_allocator"}]

(* A thread in initialize() has done itself what comes before its step.    *)
InProgress(t) ==
  pc[t] = "init" =>
    /\ handle
    /\ Given(step[t]) \ missing \subseteq found
    /\ CheckedBefore(step[t])
    /\ step[t] > 12 => has_gc_funcs

(* What the callers of initialize() need is there once it has returned;    *)
(* only gc_allocator may have come too early.                              *)
Returned(t) ==
  pc[t] \in {"resolve_icall", "check_roots", "roots", "use_roots", "unsafe"} => initialized

RootsRead(t) ==
  /\ pc[t] = "roots" => /\ step[t] <= Len(root_order)
                        /\ \A i \in 1 .. (step[t] - 1) : root_order[i] \in roots
  /\ pc[t] = "use_roots" => {"s_GlobalMetadata", "s_GlobalMetadataHeader"} \subseteq roots

ThreadOK(t) == InProgress(t) /\ Returned(t) /\ RootsRead(t)

GCFuncsFound == has_gc_funcs => Steps[1].gives \ missing \subseteq found

IInv ==
  /\ Typed
  /\ running => handle
  /\ GCFuncsFound
  /\ PublishedComplete
  /\ \A t \in Threads : ThreadOK(t)

--------------------------------------------------------------------------------
(* The invariant holds at first. *)
LEMMA InitIInv == Init => IInv
  <1> SUFFICES ASSUME Init PROVE IInv
    OBVIOUS
  <1>1. roots = {root_order[i] : i \in 1 .. 0} /\ 0 \in 0 .. Len(root_order)
    BY DEF Init, root_order
  <1>2. missing \subseteq Fragile
    BY DEF Init
  <1>3. \E n \in 0 .. Len(root_order) : roots = {root_order[i] : i \in 1 .. n}
    BY <1>1
  <1>4. step \in [Threads -> 1 .. Len(Steps)] /\ pc \in [Threads -> Labels] /\ call \in [Threads -> Calls]
    BY StepsLength DEF Init, NSteps, Labels, Calls
  <1>5. Typed
    BY <1>2, <1>3, <1>4 DEF Init, Typed, TypeOK, Labels
  <1> QED
    BY <1>5 DEF Init, IInv, GCFuncsFound, PublishedComplete, ThreadOK, InProgress, Returned, RootsRead

(* root_order's prefixes are what the threads have read of it. *)
LEMMA RootOrder ==
  /\ Len(root_order) = 3 /\ root_order[1] = "s_GlobalMetadata" /\ root_order[2] = "s_GlobalMetadataHeader"
  /\ root_order[3] = "s_Il2CppMetadataRegistration"
  BY DEF root_order

Prefix(n) == {root_order[i] : i \in 1 .. n}

(* A root that is read after those before it leaves the roots read in order. *)
LEMMA PrefixGrows ==
  ASSUME NEW n \in 0 .. 3, NEW k \in 1 .. 3, \A i \in 1 .. (k - 1) : root_order[i] \in Prefix(n)
  PROVE  \E m \in 0 .. 3 : Prefix(n) \union {root_order[k]} = Prefix(m)
  <1>1. k <= n + 1
    <2> SUFFICES ASSUME k > n + 1 PROVE FALSE
      OBVIOUS
    <2>1. n + 1 \in 1 .. (k - 1)
      OBVIOUS
    <2>2. PICK i \in 1 .. n : root_order[n + 1] = root_order[i]
      BY <2>1 DEF Prefix
    <2>3. (n = 1 /\ i = 1) \/ n = 0 \/ (n = 2 /\ i \in {1, 2})
      OBVIOUS
    <2> QED
      BY <2>2, <2>3, RootOrder
  <1>2. CASE k <= n
    BY <1>2 DEF Prefix
  <1>3. CASE k = n + 1
    <2>1. k \in 0 .. 3 /\ Prefix(n) \union {root_order[k]} = Prefix(k)
      BY <1>3 DEF Prefix
    <2> QED
      BY <2>1
  <1> QED
    BY <1>1, <1>2, <1>3

(* Every step keeps the types. *)
LEMMA TypeStep == IInv /\ [Next]_vars => Typed'
  <1> SUFFICES ASSUME IInv, [Next]_vars PROVE Typed'
    OBVIOUS
  <1> USE DEF IInv, Typed, TypeOK, world, published, heap, sizes, control, At, Goto, Die
  <1>1. CASE LoadLibrary \/ RunGame \/ GameNew \/ SwitchGC
    BY <1>1 DEF LoadLibrary, RunGame, GameNew, SwitchGC
  <1>2. ASSUME NEW t \in Threads, NEW c \in Calls, initialize(t, c) PROVE Typed'
    BY <1>2, StepsLength DEF initialize, NSteps
  <1>3. ASSUME NEW t \in Threads, Find(t) \/ FindGC(t) PROVE Typed'
    <2>1. step[t] \in 1 .. NSteps /\ step[t] # 15
      BY <1>3, StepsLength, StepKinds DEF Find, FindGC, Here
    <2>2. step' \in [Threads -> 1 .. Len(Steps)] /\ UNCHANGED <<pc, call>>
      <3>1. step' = [step EXCEPT ![t] = @ + 1] /\ UNCHANGED <<pc, call>>
        BY <1>3 DEF Find, FindGC, Advance
      <3>2. step \in [Threads -> 1 .. NSteps] /\ step[t] + 1 \in 1 .. NSteps
        BY <2>1, StepsLength DEF NSteps
      <3> QED
        BY <3>1, <3>2, StepsLength
    <2>3. Here(t).gives \subseteq Pointers
      BY <2>1, StepsLength DEF Here, Pointers
    <2>4. found' \subseteq Pointers /\ has_gc_funcs' \in BOOLEAN
      BY <1>3, <2>3 DEF Find, FindGC
    <2> QED
      BY <1>3, <2>2, <2>4 DEF Find, FindGC
  <1>4. ASSUME NEW t \in Threads, FindFails(t) PROVE Typed'
    BY <1>4 DEF FindFails
  <1>5. ASSUME NEW t \in Threads, Initialized(t) PROVE Typed'
    BY <1>5 DEF Initialized
  <1>6. ASSUME NEW t \in Threads, resolve_icall(t) \/ allocate(t) \/ MetadataCache_Get(t) PROVE Typed'
    BY <1>6 DEF resolve_icall, allocate, MetadataCache_Get
  <1>7. ASSUME NEW t \in Threads, CheckS_GlobalMetadata(t) PROVE Typed'
    <2>1. pc' \in [Threads -> Labels]
      BY <1>7 DEF CheckS_GlobalMetadata, Labels
    <2>2. 1 \in 1 .. Len(Steps)
      BY StepsLength DEF NSteps
    <2>3. step' \in [Threads -> 1 .. Len(Steps)] /\ call' = call
      BY <1>7, <2>2 DEF CheckS_GlobalMetadata
    <2> QED
      BY <1>7, <2>1, <2>3 DEF CheckS_GlobalMetadata, Labels
  <1>8. ASSUME NEW t \in Threads, ReadRoot(t) PROVE Typed'
    <2>1. CASE Die("null")
      BY <1>8, <2>1
    <2>2. CASE ~Die("null")
      <3>1. PICK n \in 0 .. 3 : roots = Prefix(n)
        BY RootOrder DEF Prefix
      <3>2. step[t] \in 1 .. 3 /\ \A i \in 1 .. (step[t] - 1) : root_order[i] \in Prefix(n)
        BY <1>8, <3>1, RootOrder, StepsLength DEF ReadRoot, ThreadOK, RootsRead
      <3>3. \E m \in 0 .. 3 : roots' = Prefix(m)
        BY <1>8, <2>2, <3>1, <3>2, PrefixGrows DEF ReadRoot
      <3>4. step' \in [Threads -> 1 .. Len(Steps)] /\ pc' \in [Threads -> Labels] /\ call' = call
        BY <1>8, <2>2, <3>2, RootOrder, StepsLength DEF ReadRoot, Advance, NSteps, Labels
      <3> QED
        BY <1>8, <2>2, <3>3, <3>4, RootOrder DEF ReadRoot, Prefix, Labels
    <2> QED
      BY <2>1, <2>2
  <1>9. ASSUME NEW t \in Threads, allocate_fixed(t) PROVE Typed'
    <2>1. CASE UNCHANGED heap
      BY <1>9, <2>1 DEF allocate_fixed
    <2>2. ASSUME NEW b \in Blocks, Allocated(b, "gc", "gc_allocator") PROVE Typed'
      BY <1>9, <2>2 DEF allocate_fixed, Allocated
    <2> QED
      BY <1>9, <2>1, <2>2 DEF allocate_fixed
  <1>10. ASSUME NEW t \in Threads, gc_alloc_specific(t) PROVE Typed'
    <2>1. PICK b \in Blocks : Allocated(b, heap_now, "specific")
      BY <1>10 DEF gc_alloc_specific
    <2> QED
      BY <1>10, <2>1 DEF gc_alloc_specific, Allocated, heap_now
  <1>11. ASSUME NEW t \in Threads, gc_alloc_specific_fails(t) PROVE Typed'
    BY <1>11 DEF gc_alloc_specific_fails
  <1>12. ASSUME NEW t \in Threads, gc_free_specific(t) \/ deallocate(t) PROVE Typed'
    <2>1. PICK b \in Blocks, h \in {"gc", "native"} : Freed(b, h)
      BY <1>12 DEF gc_free_specific, deallocate, heap_now
    <2> QED
      BY <1>12, <2>1 DEF gc_free_specific, deallocate, Freed
  <1>13. ASSUME NEW t \in Threads, gc_realloc_specific(t) PROVE Typed'
    <2>1. PICK b \in Blocks, c \in Blocks :
            /\ owner[b] = "specific" /\ block[c] = "free"
            /\ block' = [block EXCEPT ![b] = "free", ![c] = heap_now]
            /\ owner' = [owner EXCEPT ![b] = "none", ![c] = "specific"]
            /\ mismatched' = (mismatched \/ block[b] # heap_now)
      BY <1>13 DEF gc_realloc_specific
    <2>2. heap_now \in {"gc", "native"} /\ b # c
      BY <2>1 DEF heap_now
    <2> QED
      BY <1>13, <2>1, <2>2 DEF gc_realloc_specific
  <1>14. ASSUME NEW t \in Threads, SaveSize(t) PROVE Typed'
    BY <1>14 DEF SaveSize
  <1>15. ASSUME NEW t \in Threads, SetSize(t) \/ New(t) \/ RestoreSize(t) PROVE Typed'
    <2>1. pc' \in [Threads -> Labels] /\ UNCHANGED <<step, call>>
      BY <1>15 DEF SetSize, New, RestoreSize, Labels
    <2>2. instance_size' \in Sizes \union {ObjectSize} /\ UNCHANGED <<asked, saved>>
      BY <1>15 DEF SetSize, New, RestoreSize
    <2>3. small' \in BOOLEAN
      BY <1>15 DEF SetSize, New, RestoreSize
    <2> QED
      BY <1>15, <2>1, <2>2, <2>3 DEF SetSize, New, RestoreSize, Labels
  <1>16. CASE UNCHANGED vars
    BY <1>16 DEF vars
  <1> QED
    BY <1>1, <1>2, <1>3, <1>4, <1>5, <1>6, <1>7, <1>8, <1>9, <1>10, <1>11, <1>12, <1>13, <1>14, <1>15, <1>16
       DEF Next, Step, Mod

--------------------------------------------------------------------------------
(* Nothing that is found is forgotten, and no flag is taken back, whatever *)
(* other threads that run initialize() write again.                        *)
Grows ==
  /\ missing' = missing /\ found \subseteq found' /\ roots \subseteq roots'
  /\ handle => handle'
  /\ has_gc_funcs => has_gc_funcs'
  /\ initialized => initialized'

(* Nothing that has been found, published or read is forgotten. *)
LEMMA GrowsStep == IInv /\ [Next]_vars => Grows
  <1> SUFFICES ASSUME IInv, [Next]_vars PROVE Grows
    OBVIOUS
  <1> USE DEF world, published, Grows, Die
  <1>1. ASSUME NEW t \in Threads, FindGC(t) PROVE Grows
    <2>1. step[t] \in 1 .. NSteps /\ step[t] = 12
      BY <1>1, StepsLength, StepKinds DEF FindGC, Here, IInv, Typed, TypeOK
    <2>2. pc[t] = "init" /\ InProgress(t)
      BY <1>1 DEF FindGC, At, IInv, ThreadOK
    <2>3. Given(12) \ missing \subseteq found /\ CheckedBefore(12)
      BY <2>1, <2>2 DEF InProgress
    <2>4. 10 \in 1 .. (12 - 1) /\ 11 \in 1 .. (12 - 1) /\ 12 \in 1 .. NSteps
      BY DEF NSteps
    <2>5. "GC_free" \in Given(12) /\ "GarbageCollector_AllocateFixed" \in Given(12)
      BY <2>4, GivenGrows, StepGives
    <2>6. "GC_free" \notin missing /\ "GarbageCollector_AllocateFixed" \notin missing
      BY <2>3, <2>4, StepGives, StepFailing, FragileAssumption DEF CheckedBefore, IInv, Typed, TypeOK
    <2>7. has_gc_funcs'
      BY <1>1, <2>3, <2>5, <2>6 DEF FindGC
    <2> QED
      BY <1>1, <2>7 DEF FindGC
  <1>2. CASE LoadLibrary \/ RunGame \/ GameNew \/ SwitchGC
    BY <1>2 DEF LoadLibrary, RunGame, GameNew, SwitchGC
  <1>3. ASSUME NEW t \in Threads, Find(t) \/ FindFails(t) \/ Initialized(t) PROVE Grows
    <2>1. CASE Find(t)
      BY <2>1 DEF Find
    <2>2. CASE FindFails(t)
      BY <2>2 DEF FindFails
    <2>3. CASE Initialized(t)
      BY <2>3 DEF Initialized
    <2> QED
      BY <1>3, <2>1, <2>2, <2>3
  <1>4. ASSUME NEW t \in Threads, \/ resolve_icall(t) \/ CheckS_GlobalMetadata(t) \/ ReadRoot(t)
                                 \/ MetadataCache_Get(t) \/ allocate(t) \/ allocate_fixed(t)
        PROVE  Grows
    BY <1>4 DEF resolve_icall, CheckS_GlobalMetadata, ReadRoot, MetadataCache_Get, allocate, allocate_fixed
  <1>5. ASSUME NEW t \in Threads, SaveSize(t) \/ SetSize(t) \/ New(t) \/ RestoreSize(t) PROVE Grows
    BY <1>5 DEF SaveSize, SetSize, New, RestoreSize
  <1>6. ASSUME NEW t \in Threads, Mod(t) PROVE Grows
    BY <1>6 DEF Mod, initialize, gc_alloc_specific, gc_alloc_specific_fails, gc_free_specific,
                gc_realloc_specific, deallocate
  <1>7. CASE UNCHANGED vars
    BY <1>7 DEF vars
  <1> QED
    BY <1>1, <1>2, <1>3, <1>4, <1>5, <1>6, <1>7 DEF Next, Step

(* What holds of a thread that does not move still holds.                  *)
LEMMA Others ==
  ASSUME Grows, NEW t \in Threads, ThreadOK(t), pc'[t] = pc[t], step'[t] = step[t]
  PROVE  ThreadOK(t)'
  <1>1. InProgress(t)'
    BY DEF Grows, ThreadOK, InProgress, CheckedBefore
  <1>2. Returned(t)' /\ RootsRead(t)'
    BY DEF Grows, ThreadOK, Returned, RootsRead
  <1> QED
    BY <1>1, <1>2 DEF ThreadOK

(* A thread in another call than those of the invariant.                   *)
LEMMA Elsewhere ==
  ASSUME NEW t \in Threads,
         pc'[t] \in {"out", "allocate", "allocate_fixed", "unsafe_set", "unsafe_new", "unsafe_restore"}
  PROVE  ThreadOK(t)'
  BY DEF ThreadOK, InProgress, Returned, RootsRead

Moved(t) == \A u \in Threads \ {t} : pc'[u] = pc[u] /\ step'[u] = step[u]

(* Every step leaves each thread with what its place says it has: the      *)
(* thread that moves by the step, the others because nothing is forgotten. *)
LEMMA ThreadsStep ==
  ASSUME IInv, [Next]_vars
  PROVE  \A u \in Threads : ThreadOK(u)'
  <1> DEFINE Goal == \A u \in Threads : ThreadOK(u)'
  <1> SUFFICES Goal
    OBVIOUS
  <1>0. Grows
    BY GrowsStep
  <1>a. pc \in [Threads -> Labels] /\ step \in [Threads -> 1 .. NSteps] /\ call \in [Threads -> Calls]
    BY StepsLength DEF IInv, Typed, TypeOK, Labels
  <1>b. ASSUME NEW t \in Threads, ThreadOK(t)', Moved(t) PROVE Goal
    BY <1>0, <1>b, Others DEF Moved, IInv
  <1>c. ASSUME UNCHANGED <<pc, step>> PROVE Goal
    BY <1>0, <1>c, Others DEF IInv
  <1> HIDE DEF Goal
  <1>1. CASE LoadLibrary \/ RunGame \/ GameNew \/ SwitchGC
    BY <1>1, <1>c DEF LoadLibrary, RunGame, GameNew, SwitchGC, control
  <1>2. ASSUME NEW t \in Threads, NEW c \in Calls, initialize(t, c) PROVE Goal
    <2>1. pc'[t] = (IF initialized \/ ~handle THEN c ELSE "init") /\ step'[t] = 1 /\ Moved(t)
      BY <1>2, <1>a DEF initialize, Moved
    <2>2. CASE initialized
      <3>1. pc'[t] \in Calls /\ initialized'
        BY <1>0, <2>1, <2>2 DEF Grows
      <3>2. ThreadOK(t)'
        BY <3>1 DEF Calls, ThreadOK, InProgress, Returned, RootsRead
      <3> QED
        BY <1>b, <2>1, <3>2
    <2>3. CASE ~initialized /\ ~handle
      <3>1. pc'[t] = c /\ c = "allocate"
        BY <1>2, <2>1, <2>3 DEF initialize, Calls, IInv
      <3> QED
        BY <1>b, <2>1, <3>1, Elsewhere
    <2>4. CASE ~initialized /\ handle
      <3>1. pc'[t] = "init" /\ handle'
        BY <1>0, <2>1, <2>4 DEF Grows
      <3>2. Given(1) = {} /\ CheckedBefore(1)'
        BY GivenAll DEF CheckedBefore
      <3>3. ThreadOK(t)'
        BY <2>1, <3>1, <3>2 DEF ThreadOK, InProgress, Returned, RootsRead, CheckedBefore
      <3> QED
        BY <1>b, <2>1, <3>3
    <2> QED
      BY <2>2, <2>3, <2>4
  <1>3. ASSUME NEW t \in Threads, Find(t) PROVE Goal
    <2> DEFINE i == step[t]
    <2>1. /\ pc[t] = "init" /\ pc'[t] = "init" /\ i \in 1 .. NSteps /\ step'[t] = i + 1
          /\ Moved(t) /\ InProgress(t)
      BY <1>3, <1>a DEF Find, Advance, At, Moved, IInv, ThreadOK
    <2>2. i # 12 /\ (Steps[i].failing = "abort" => Steps[i].gives \intersect missing = {})
      BY <1>3, <2>1, StepKinds DEF Find, Here, Lost
    <2>3. Steps[i].gives \ missing \subseteq found'
      BY <1>3 DEF Find, Here
    <2> HIDE DEF i
    <2>4. Given(i + 1) \ missing \subseteq found' /\ handle' /\ missing' = missing
      BY <1>0, <2>1, <2>3, GivenNext DEF InProgress, Grows, i
    <2>5. CheckedBefore(i) /\ \A j \in 1 .. (i + 1 - 1) : j \in 1 .. (i - 1) \/ j = i
      BY <2>1 DEF InProgress, i, NSteps
    <2>6. \A j \in 1 .. (i + 1 - 1) : Steps[j].failing = "abort" => Steps[j].gives \intersect missing = {}
      BY <2>2, <2>5 DEF CheckedBefore
    <2>7. i + 1 > 12 => has_gc_funcs'
      <3>1. i + 1 > 12 => i > 12
        BY <2>1, <2>2 DEF NSteps
      <3> QED
        BY <1>0, <2>1, <3>1 DEF InProgress, Grows, i
    <2>8. ThreadOK(t)'
      BY <2>1, <2>4, <2>6, <2>7 DEF ThreadOK, InProgress, Returned, RootsRead, CheckedBefore
    <2> QED
      BY <1>b, <2>1, <2>8
  <1>4. ASSUME NEW t \in Threads, FindFails(t) \/ gc_alloc_specific_fails(t) PROVE Goal
    BY <1>4, <1>c DEF FindFails, gc_alloc_specific_fails, Die, control
  <1>5. ASSUME NEW t \in Threads, FindGC(t) PROVE Goal
    <2>1. /\ pc[t] = "init" /\ pc'[t] = "init" /\ step[t] = 12 /\ step'[t] = 13 /\ Moved(t) /\ InProgress(t)
      BY <1>5, <1>a, StepKinds DEF FindGC, Here, Advance, At, Moved, IInv, ThreadOK
    <2>2. 12 \in 1 .. NSteps /\ 10 \in 1 .. (12 - 1) /\ 11 \in 1 .. (12 - 1)
      BY DEF NSteps
    <2>3. Given(12) \ missing \subseteq found /\ CheckedBefore(12) /\ handle'
      BY <1>0, <2>1 DEF InProgress, Grows
    <2>4. Given(13) \ missing \subseteq found' /\ missing' = missing
      <3>1. Given(12 + 1) = Given(12) \union Steps[12].gives
        BY <2>2, GivenNext
      <3>2. Given(13) = Given(12)
        BY <3>1, StepGives
      <3> QED
        BY <1>0, <2>3, <3>2 DEF Grows
    <2>5. \A j \in 1 .. (13 - 1) : Steps[j].failing = "abort" => Steps[j].gives \intersect missing = {}
      <3>1. \A j \in 1 .. (13 - 1) : j \in 1 .. (12 - 1) \/ j = 12
        OBVIOUS
      <3> QED
        BY <2>3, <3>1, StepFailing DEF CheckedBefore
    <2>6. "GC_free" \in found /\ "GarbageCollector_AllocateFixed" \in found
      <3>1. "GC_free" \in Given(12) /\ "GarbageCollector_AllocateFixed" \in Given(12)
        BY <2>2, GivenGrows, StepGives
      <3>2. "GC_free" \notin missing /\ "GarbageCollector_AllocateFixed" \notin missing
        BY <2>2, <2>3, StepGives, StepFailing, FragileAssumption DEF CheckedBefore, IInv, Typed, TypeOK
      <3> QED
        BY <2>3, <3>1, <3>2
    <2>7. has_gc_funcs'
      BY <1>5, <2>6 DEF FindGC
    <2>8. ThreadOK(t)'
      BY <2>1, <2>3, <2>4, <2>5, <2>7 DEF ThreadOK, InProgress, Returned, RootsRead, CheckedBefore
    <2> QED
      BY <1>b, <2>1, <2>8
  <1>6. ASSUME NEW t \in Threads, Initialized(t) PROVE Goal
    <2>1. pc'[t] \in Calls /\ initialized' /\ Moved(t)
      BY <1>6, <1>a DEF Initialized, Goto, Moved
    <2>2. ThreadOK(t)'
      BY <2>1 DEF Calls, ThreadOK, InProgress, Returned, RootsRead
    <2> QED
      BY <1>b, <2>1, <2>2
  <1>7. ASSUME NEW t \in Threads, \/ resolve_icall(t) \/ MetadataCache_Get(t) \/ allocate(t) \/ allocate_fixed(t)
                                 \/ SaveSize(t) \/ SetSize(t) \/ New(t) \/ RestoreSize(t)
        PROVE  Goal
    <2>1. CASE UNCHANGED <<pc, step>>
      BY <1>c, <2>1
    <2>2. CASE \E l \in {"out", "allocate_fixed", "unsafe_set", "unsafe_new", "unsafe_restore"} : Goto(t, l)
      <3>1. pc'[t] \in {"out", "allocate_fixed", "unsafe_set", "unsafe_new", "unsafe_restore"} /\ Moved(t)
        BY <1>a, <2>2 DEF Goto, Moved
      <3> QED
        BY <1>b, <3>1, Elsewhere
    <2> QED
      BY <1>7, <2>1, <2>2 DEF resolve_icall, MetadataCache_Get, allocate, allocate_fixed, SaveSize, SetSize, New,
                              RestoreSize, Die, control
  <1>8. ASSUME NEW t \in Threads, CheckS_GlobalMetadata(t) PROVE Goal
    <2>1. Returned(t) /\ initialized /\ Moved(t)
      BY <1>8, <1>a DEF CheckS_GlobalMetadata, At, IInv, ThreadOK, Returned, Moved, Goto
    <2>2. CASE "s_GlobalMetadataHeader" \in roots
      <3>1. pc'[t] = "use_roots"
        BY <1>8, <1>a, <2>2 DEF CheckS_GlobalMetadata, Goto
      <3>2. PICK n \in 0 .. 3 : roots = Prefix(n)
        BY RootOrder DEF Prefix, IInv, Typed, TypeOK
      <3>3. n >= 2
        BY <2>2, <3>2, RootOrder DEF Prefix
      <3>4. "s_GlobalMetadata" \in roots
        BY <3>2, <3>3, RootOrder DEF Prefix
      <3>5. ThreadOK(t)'
        BY <1>0, <2>1, <2>2, <3>1, <3>4 DEF ThreadOK, InProgress, Returned, RootsRead, Grows
      <3> QED
        BY <1>b, <2>1, <3>5
    <2>3. CASE "s_GlobalMetadataHeader" \notin roots
      <3>1. pc'[t] = "roots" /\ step'[t] = 1
        BY <1>8, <1>a, <2>3 DEF CheckS_GlobalMetadata
      <3>2. ThreadOK(t)'
        BY <1>0, <2>1, <3>1, RootOrder DEF ThreadOK, InProgress, Returned, RootsRead, Grows
      <3> QED
        BY <1>b, <2>1, <3>2
    <2> QED
      BY <2>2, <2>3
  <1>9. ASSUME NEW t \in Threads, ReadRoot(t) PROVE Goal
    <2>1. CASE Die("null")
      BY <1>c, <2>1 DEF Die, control
    <2>2. CASE ~Die("null")
      <3>1. /\ roots' = roots \union {root_order[step[t]]} /\ initialized /\ RootsRead(t) /\ pc[t] = "roots"
            /\ IF step[t] < Len(root_order) THEN Advance(t) ELSE Goto(t, "use_roots")
        BY <1>9, <2>2 DEF ReadRoot, At, IInv, ThreadOK, Returned
      <3>2. step[t] \in 1 .. 3 /\ \A i \in 1 .. (step[t] - 1) : root_order[i] \in roots
        BY <1>a, <3>1, RootOrder DEF RootsRead, NSteps
      <3>3. \A i \in 1 .. step[t] : root_order[i] \in roots'
        BY <3>1, <3>2
      <3>4. CASE step[t] < 3
        <4>1. pc'[t] = "roots" /\ step'[t] = step[t] + 1 /\ Moved(t)
          BY <1>a, <3>1, <3>4, RootOrder DEF Advance, Moved
        <4>2. ThreadOK(t)'
          BY <1>0, <3>1, <3>2, <3>3, <3>4, <4>1, RootOrder DEF ThreadOK, InProgress, Returned, RootsRead, Grows
        <4> QED
          BY <1>b, <4>1, <4>2
      <3>5. CASE step[t] = 3
        <4>1. pc'[t] = "use_roots" /\ Moved(t)
          BY <1>a, <3>1, <3>5, RootOrder DEF Goto, Moved
        <4>2. 1 \in 1 .. step[t] /\ 2 \in 1 .. step[t]
          BY <3>5
        <4>3. {"s_GlobalMetadata", "s_GlobalMetadataHeader"} \subseteq roots'
          BY <3>3, <4>2, RootOrder
        <4>4. ThreadOK(t)'
          BY <1>0, <3>1, <4>1, <4>3 DEF ThreadOK, InProgress, Returned, RootsRead, Grows
        <4> QED
          BY <1>b, <4>1, <4>4
      <3> QED
        BY <3>2, <3>4, <3>5
    <2> QED
      BY <2>1, <2>2
  <1>10. ASSUME NEW t \in Threads, \/ gc_alloc_specific(t) \/ gc_free_specific(t) \/ gc_realloc_specific(t)
                                  \/ deallocate(t)
         PROVE  Goal
    BY <1>10, <1>c DEF gc_alloc_specific, gc_free_specific, gc_realloc_specific, deallocate, control
  <1>11. CASE UNCHANGED vars
    BY <1>11, <1>c DEF vars, control
  <1> QED
    BY <1>1, <1>2, <1>3, <1>4, <1>5, <1>6, <1>7, <1>8, <1>9, <1>10, <1>11 DEF Next, Step, Mod
--------------------------------------------------------------------------------
(* The flags: a thread sets them when it has done what they stand for.     *)
LEMMA AllRequired ==
  ASSUME CheckedBefore(NSteps)
  PROVE  Required \intersect missing = {}
  <1>1. \A j \in {3, 4, 5, 6, 7, 8, 10} : j \in 1 .. (NSteps - 1)
    BY DEF NSteps
  <1>2. \A j \in {3, 4, 5, 6, 7, 8, 10} : Steps[j].gives \intersect missing = {}
    BY <1>1, StepFailing DEF CheckedBefore
  <1>3. \A p \in Required : \E j \in {3, 4, 5, 6, 7, 8, 10} : p \in Steps[j].gives
    BY StepGives DEF Required
  <1> QED
    BY <1>2, <1>3

(* Every step leaves the flags with what they stand for. *)
LEMMA FlagsStep ==
  ASSUME IInv, [Next]_vars
  PROVE  (running' => handle') /\ GCFuncsFound' /\ PublishedComplete'
  <1>0. Grows
    BY GrowsStep
  <1>a. ASSUME NEW t \in Threads, pc[t] = "init"
        PROVE  /\ step[t] \in 1 .. NSteps /\ handle
               /\ Given(step[t]) \ missing \subseteq found /\ CheckedBefore(step[t])
               /\ step[t] > 12 => has_gc_funcs
    BY <1>a, StepsLength DEF IInv, Typed, TypeOK, ThreadOK, InProgress
  <1>b. ASSUME UNCHANGED <<running, has_gc_funcs, initialized>>
        PROVE  (running' => handle') /\ GCFuncsFound' /\ PublishedComplete'
    BY <1>0, <1>b DEF IInv, Grows, GCFuncsFound, PublishedComplete
  <1>1. CASE LoadLibrary \/ RunGame \/ GameNew \/ SwitchGC
    <2>1. UNCHANGED <<has_gc_funcs, initialized>> /\ (running' => handle')
      BY <1>1 DEF LoadLibrary, RunGame, GameNew, SwitchGC, published, world, IInv
    <2> QED
      BY <1>0, <2>1 DEF IInv, Grows, GCFuncsFound, PublishedComplete
  <1>2. ASSUME NEW t \in Threads, FindGC(t)
        PROVE  (running' => handle') /\ GCFuncsFound' /\ PublishedComplete'
    <2>1. pc[t] = "init" /\ step[t] = 12 /\ UNCHANGED <<running, initialized, handle>>
      BY <1>2, <1>a, StepKinds DEF FindGC, Here, At, world
    <2>2. 12 \in 1 .. NSteps /\ 1 \in 1 .. (12 - 1)
      BY DEF NSteps
    <2>3. Steps[1].gives \ missing \subseteq found
      BY <1>a, <2>1, <2>2, GivenGrows
    <2> QED
      BY <1>0, <2>1, <2>3 DEF IInv, Grows, GCFuncsFound, PublishedComplete
  <1>3. ASSUME NEW t \in Threads, Initialized(t)
        PROVE  (running' => handle') /\ GCFuncsFound' /\ PublishedComplete'
    <2>1. pc[t] = "init" /\ step[t] = NSteps /\ UNCHANGED <<missing, found, running, has_gc_funcs, handle>>
      BY <1>3, <1>a, StepKinds DEF Initialized, Here, At, world, NSteps
    <2>2. NSteps \in 1 .. NSteps /\ NSteps > 12 /\ Steps[NSteps].gives = {}
      BY StepGives DEF NSteps
    <2>3. Pointers = Given(NSteps)
      BY <2>2, GivenNext, GivenAll
    <2>4. Pointers \ missing \subseteq found /\ has_gc_funcs
      BY <1>a, <2>1, <2>2, <2>3
    <2>5. Required \intersect missing = {}
      BY <1>a, <2>1, AllRequired
    <2> QED
      BY <1>0, <2>1, <2>4, <2>5 DEF IInv, Grows, GCFuncsFound, PublishedComplete
  <1>4. ASSUME NEW t \in Threads, \/ Find(t) \/ FindFails(t) \/ resolve_icall(t) \/ CheckS_GlobalMetadata(t)
                                 \/ ReadRoot(t) \/ MetadataCache_Get(t) \/ allocate(t) \/ allocate_fixed(t)
                                 \/ SaveSize(t) \/ SetSize(t) \/ New(t) \/ RestoreSize(t)
        PROVE  UNCHANGED <<running, has_gc_funcs, initialized>>
    BY <1>4 DEF Find, FindFails, Die, world, published, resolve_icall, CheckS_GlobalMetadata, ReadRoot,
                MetadataCache_Get, allocate, allocate_fixed, SaveSize, SetSize, New, RestoreSize
  <1>5. ASSUME NEW t \in Threads, Mod(t)
        PROVE  UNCHANGED <<running, has_gc_funcs, initialized>>
    BY <1>5 DEF Mod, initialize, gc_alloc_specific, gc_alloc_specific_fails, gc_free_specific,
                gc_realloc_specific, deallocate, world, published, Die
  <1>6. CASE UNCHANGED vars
    BY <1>6, <1>b DEF vars, world, published
  <1> QED
    BY <1>1, <1>2, <1>3, <1>4, <1>5, <1>6, <1>b DEF Next, Step

(* The inductive invariant: threads in initialize() have found what its    *)
(* earlier steps give, those past it find it initialized, and the metadata *)
(* roots are read in their order.                                          *)
THEOREM Invariance == Spec => []IInv
  <1>1. IInv /\ [Next]_vars => IInv'
    <2> SUFFICES ASSUME IInv, [Next]_vars PROVE IInv'
      OBVIOUS
    <2>1. Typed' /\ (\A t \in Threads : ThreadOK(t)')
      BY TypeStep, ThreadsStep
    <2>2. (running' => handle') /\ GCFuncsFound' /\ PublishedComplete'
      BY FlagsStep
    <2> QED
      BY <2>1, <2>2 DEF IInv
  <1> QED
    BY <1>1, InitIInv, PTL DEF Spec

(* Every reachable state is well typed; the roots are a prefix of the      *)
(* order they are read in, and a block's owner goes with its heap.         *)
THEOREM TypeCorrect == Spec => []TypeOK
  <1>1. IInv => TypeOK
    BY DEF IInv, Typed
  <1> QED
    BY <1>1, Invariance, PTL

(* Whoever sees `initialized` can use all that the binary has, and blocks  *)
(* come from the GC from then on.                                          *)
THEOREM PublishedIsComplete == Spec => []PublishedComplete
  <1>1. IInv => PublishedComplete
    BY DEF IInv
  <1> QED
    BY <1>1, Invariance, PTL

--------------------------------------------------------------------------------
(* No step calls null unless the binary lacks something. *)
LEMMA NullNeedsMissing ==
  ASSUME IInv, OnlyMissingKills, [Next]_vars
  PROVE  OnlyMissingKills'
  <1>0. missing' = missing
    BY GrowsStep DEF Grows
  <1>a. ASSUME NEW t \in Threads
        PROVE  ThreadOK(t) /\ step[t] \in 1 .. NSteps
    BY StepsLength DEF IInv, Typed, TypeOK
  <1>b. ASSUME initialized, missing = {} PROVE Pointers \subseteq found
    BY <1>b DEF IInv, PublishedComplete
  <1>c. /\ {"resolve_icall", "gc_alloc_fixed", "object_new", "defaults"} \subseteq Pointers
        /\ find_metadata_pointers.gives \subseteq Pointers
    <2>1. 1 \in DOMAIN Steps /\ 13 \in DOMAIN Steps /\ 14 \in DOMAIN Steps
      BY StepsLength DEF NSteps
    <2> QED
      BY <2>1, StepGives DEF Pointers
  <1> SUFFICES ASSUME missing = {}, crashed' \in {"null", "abort"}, crashed \notin {"null", "abort"}
               PROVE  FALSE
    BY <1>0 DEF OnlyMissingKills
  <1>1. ASSUME NEW t \in Threads, FindFails(t) PROVE FALSE
    <2>1. pc[t] = "init" /\ ~(Steps[step[t]].from \subseteq found)
      BY <1>1 DEF FindFails, At, Here, Lost
    <2>2. Given(step[t]) \subseteq found
      BY <1>a, <2>1 DEF ThreadOK, InProgress
    <2> QED
      BY <1>a, <2>1, <2>2, NeedsAreGiven
  <1>2. ASSUME NEW t \in Threads, resolve_icall(t) PROVE FALSE
    BY <1>2, <1>a, <1>b, <1>c DEF resolve_icall, At, ThreadOK, Returned, Die
  <1>3. ASSUME NEW t \in Threads, ReadRoot(t) PROVE FALSE
    BY <1>3, <1>a, <1>b, <1>c DEF ReadRoot, At, ThreadOK, Returned, Die
  <1>4. ASSUME NEW t \in Threads, MetadataCache_Get(t) PROVE FALSE
    BY <1>4, <1>a DEF MetadataCache_Get, At, ThreadOK, RootsRead, Die
  <1>5. ASSUME NEW t \in Threads, SaveSize(t) PROVE FALSE
    BY <1>5, <1>a, <1>b, <1>c DEF SaveSize, At, ThreadOK, Returned, Die
  <1>6. ASSUME NEW t \in Threads, gc_alloc_specific_fails(t) PROVE FALSE
    <2>1. has_gc_funcs /\ "gc_alloc_fixed" \notin found
      BY <1>6 DEF gc_alloc_specific_fails, Die
    <2> QED
      BY <2>1, StepGives DEF IInv, GCFuncsFound
  <1>7. CASE LoadLibrary \/ RunGame \/ GameNew \/ SwitchGC
    BY <1>7 DEF LoadLibrary, RunGame, GameNew, SwitchGC
  <1>8. ASSUME NEW t \in Threads, \/ Find(t) \/ FindGC(t) \/ Initialized(t) \/ CheckS_GlobalMetadata(t)
                                 \/ allocate(t) \/ allocate_fixed(t) \/ SetSize(t) \/ New(t) \/ RestoreSize(t)
        PROVE  FALSE
    BY <1>8 DEF Find, FindGC, Initialized, CheckS_GlobalMetadata, allocate, allocate_fixed, SetSize, New, RestoreSize
  <1>9. ASSUME NEW t \in Threads, \/ \E c \in Calls : initialize(t, c)
                                 \/ gc_alloc_specific(t) \/ gc_free_specific(t) \/ gc_realloc_specific(t)
                                 \/ deallocate(t)
        PROVE  FALSE
    BY <1>9 DEF initialize, gc_alloc_specific, gc_free_specific, gc_realloc_specific, deallocate
  <1>10. CASE UNCHANGED vars
    BY <1>10 DEF vars
  <1> QED
    BY <1>1, <1>2, <1>3, <1>4, <1>5, <1>6, <1>7, <1>8, <1>9, <1>10 DEF Next, Step, Mod

(* However many threads initialize at once, a null pointer or a failed     *)
(* trace kills the process only when the game's binary lacks something.    *)
THEOREM OnlyMissingIsFatal == Spec => []OnlyMissingKills
  <1>1. Init => OnlyMissingKills
    BY DEF Init, OnlyMissingKills
  <1>2. IInv /\ OnlyMissingKills /\ [Next]_vars => OnlyMissingKills'
    BY NullNeedsMissing
  <1> QED
    BY <1>1, <1>2, Invariance, PTL DEF Spec
--------------------------------------------------------------------------------
(* Blocks that gc_alloc_specific handed out exist only once initialize()   *)
(* has set has_gc_funcs, and then come from the GC.                        *)
HeapsMatch ==
  /\ ~mismatched
  /\ \A b \in Blocks : owner[b] = "specific" => initialized /\ block[b] = "gc"

(* Every step keeps blocks in the allocator they came from, if none is     *)
(* taken before initialization.                                            *)
LEMMA HeapStep ==
  ASSUME ~Early, IInv, HeapsMatch, [Next]_vars
  PROVE  HeapsMatch'
  <1> USE DEF heap, HeapsMatch
  <1>0. initialized => initialized' /\ heap_now = "gc"
    BY GrowsStep DEF Grows, IInv, PublishedComplete, heap_now
  <1>a. \A b \in Blocks : owner[b] = "gc_allocator" => block[b] = "gc"
    BY DEF IInv, Typed, TypeOK
  <1>b. block \in [Blocks -> {"free", "gc", "native"}] /\ owner \in [Blocks -> {"none", "specific", "gc_allocator"}]
    BY DEF IInv, Typed
  <1>1. ASSUME NEW t \in Threads, gc_alloc_specific(t) PROVE HeapsMatch'
    BY <1>1, <1>0, <1>b DEF gc_alloc_specific, Allocated
  <1>2. ASSUME NEW t \in Threads, gc_free_specific(t) PROVE HeapsMatch'
    BY <1>2, <1>0, <1>b DEF gc_free_specific, Freed
  <1>3. ASSUME NEW t \in Threads, gc_realloc_specific(t) PROVE HeapsMatch'
    <2>1. PICK b \in Blocks, c \in Blocks :
            /\ owner[b] = "specific" /\ block[c] = "free"
            /\ block' = [block EXCEPT ![b] = "free", ![c] = heap_now]
            /\ owner' = [owner EXCEPT ![b] = "none", ![c] = "specific"]
            /\ mismatched' = (mismatched \/ block[b] # heap_now)
      BY <1>3 DEF gc_realloc_specific
    <2>2. initialized' /\ heap_now = "gc" /\ b # c /\ ~mismatched'
      BY <1>0, <2>1
    <2>3. \A d \in Blocks \ {c} : owner'[d] = "specific" => owner[d] = "specific" /\ block'[d] = block[d]
      BY <1>b, <2>1
    <2>4. block'[c] = "gc"
      BY <1>b, <2>1, <2>2
    <2> QED
      BY <1>0, <2>2, <2>3, <2>4
  <1>4. ASSUME NEW t \in Threads, allocate_fixed(t) PROVE HeapsMatch'
    BY <1>4, <1>0, <1>b DEF allocate_fixed, Allocated
  <1>5. ASSUME NEW t \in Threads, deallocate(t) PROVE HeapsMatch'
    BY <1>5, <1>0, <1>a, <1>b DEF deallocate, Freed
  <1>6. ASSUME UNCHANGED heap PROVE HeapsMatch'
    BY <1>6, <1>0
  <1>7. CASE LoadLibrary \/ RunGame \/ GameNew \/ SwitchGC
    BY <1>7, <1>6 DEF LoadLibrary, RunGame, GameNew, SwitchGC
  <1>8. ASSUME NEW t \in Threads, Step(t), ~allocate_fixed(t) PROVE UNCHANGED heap
    BY <1>8 DEF Step, Die, Find, FindFails, FindGC, Initialized, resolve_icall, CheckS_GlobalMetadata, ReadRoot,
                MetadataCache_Get, allocate, SaveSize, SetSize, New, RestoreSize
  <1>9. ASSUME NEW t \in Threads, gc_alloc_specific_fails(t) \/ \E c \in Calls : initialize(t, c)
        PROVE  UNCHANGED heap
    BY <1>9 DEF gc_alloc_specific_fails, initialize, Die
  <1>10. CASE UNCHANGED vars
    BY <1>10, <1>6 DEF vars
  <1> QED
    BY <1>1, <1>2, <1>3, <1>4, <1>5, <1>6, <1>7, <1>8, <1>9, <1>10 DEF Next, Mod

(* When mods allocate fixed blocks only after initialize(), every block    *)
(* goes back to the heap it came from, though gc_free_specific chooses the *)
(* heap by what has been found when the block is freed.                    *)
THEOREM BlocksGoHome ==
  ASSUME ~Early
  PROVE  Spec => []FreedByItsAllocator
  <1>1. Init => HeapsMatch
    BY DEF Init, HeapsMatch
  <1>2. IInv /\ HeapsMatch /\ [Next]_vars => HeapsMatch'
    BY HeapStep
  <1>3. HeapsMatch => FreedByItsAllocator
    BY DEF HeapsMatch, FreedByItsAllocator
  <1> QED
    BY <1>1, <1>2, <1>3, Invariance, PTL DEF Spec

--------------------------------------------------------------------------------
(* System.Object's size belongs to the one thread in __allocate_unsafe:    *)
(* what it saved is the real size, and what it asked for is set while it   *)
(* allocates.                                                              *)
Inside == {"unsafe_set", "unsafe_new", "unsafe_restore"}

UnsafeOwner(t) ==
  /\ pc[t] \in Inside \union {"unsafe"} \/ (pc[t] = "init" /\ call[t] = "unsafe") => t \in UnsafeThreads
  /\ pc[t] \in Inside => saved[t] = ObjectSize
  /\ pc[t] = "unsafe_new" => instance_size = asked[t]

SizesKept ==
  /\ UnsafeKeepsSizes
  /\ \A t \in Threads : UnsafeOwner(t)

(* Every step keeps System.Object's size, or its thread in the allocation  *)
(* remembers it.                                                           *)
LEMMA SizesStep ==
  ASSUME \A t, u \in UnsafeThreads : t = u, IInv, SizesKept, [Next]_vars
  PROVE  SizesKept'
  <1> DEFINE Goal == SizesKept'
  <1> SUFFICES Goal
    OBVIOUS
  <1>a. /\ pc \in [Threads -> Labels] /\ call \in [Threads -> Calls]
        /\ asked \in [Threads -> Sizes \union {ObjectSize}] /\ saved \in [Threads -> Sizes \union {ObjectSize}]
        /\ instance_size \in Nat /\ instance_size >= ObjectSize /\ ObjectSize \in Nat
    BY SizesAssumption DEF IInv, Typed, TypeOK, Labels
  <1>b. ASSUME UNCHANGED sizes,
               \A u \in Threads : \/ pc'[u] = pc[u] /\ call'[u] = call[u]
                                  \/ pc'[u] \in {"out", "allocate", "resolve_icall", "check_roots", "roots", "use_roots",
                                                 "allocate_fixed"} /\ pc[u] \notin Inside
                                  \/ pc'[u] \in {"unsafe", "init"} /\ pc[u] \notin Inside
                                     /\ (pc'[u] = "unsafe" \/ call'[u] = "unsafe" => u \in UnsafeThreads)
        PROVE  Goal
    BY <1>b DEF sizes, SizesKept, UnsafeKeepsSizes, UnsafeOwner, Inside
  <1> HIDE DEF Goal
  <1>1. CASE LoadLibrary \/ RunGame \/ SwitchGC
    BY <1>1, <1>b DEF LoadLibrary, RunGame, SwitchGC, control
  <1>2. CASE GameNew
    <2>1. ~(instance_size < ObjectSize)
      BY <1>a
    <2>2. small' = (small \/ instance_size < ObjectSize) /\ UNCHANGED <<instance_size, asked, saved, pc, call>>
      BY <1>2 DEF GameNew, control
    <2>3. ~small
      BY DEF SizesKept, UnsafeKeepsSizes
    <2>4. ~small'
      BY <2>1, <2>2, <2>3, Zenon
    <2> QED
      BY <2>2, <2>4 DEF Goal, SizesKept, UnsafeKeepsSizes, UnsafeOwner
  <1>3. ASSUME NEW t \in Threads, NEW c \in Calls, initialize(t, c) PROVE Goal
    <2>1. /\ UNCHANGED sizes /\ pc[t] = "out" /\ pc'[t] \in {c, "init"} /\ call'[t] = c
          /\ c = "unsafe" => t \in UnsafeThreads
          /\ \A u \in Threads \ {t} : pc'[u] = pc[u] /\ call'[u] = call[u]
      BY <1>3, <1>a DEF initialize, At
    <2> QED
      BY <1>b, <2>1 DEF Inside, Calls
  <1>4. ASSUME NEW t \in Threads, Initialized(t) PROVE Goal
    <2>1. /\ UNCHANGED sizes /\ pc[t] = "init" /\ pc'[t] = call[t] /\ call' = call /\ call[t] \in Calls
          /\ \A u \in Threads \ {t} : pc'[u] = pc[u]
      BY <1>4, <1>a DEF Initialized, Goto, At
    <2>2. call[t] = "unsafe" => t \in UnsafeThreads
      BY <2>1 DEF SizesKept, UnsafeOwner
    <2> QED
      BY <1>b, <2>1, <2>2 DEF Inside, Calls
  <1>5. ASSUME NEW t \in Threads, Find(t) \/ FindFails(t) \/ FindGC(t) PROVE Goal
    BY <1>5, <1>b DEF Find, FindFails, FindGC, Advance, Die, control
  <1>6. ASSUME NEW t \in Threads, \/ resolve_icall(t) \/ CheckS_GlobalMetadata(t) \/ ReadRoot(t)
                                 \/ MetadataCache_Get(t) \/ allocate(t) \/ allocate_fixed(t)
        PROVE  Goal
    <2>1. UNCHANGED sizes /\ call' = call /\ pc[t] \notin Inside
      BY <1>6 DEF resolve_icall, CheckS_GlobalMetadata, ReadRoot, MetadataCache_Get, allocate, allocate_fixed, Die,
                  control, Goto, Advance, At, Inside
    <2>2. pc' = pc \/ \E l \in {"out", "roots", "use_roots", "allocate_fixed"} : pc' = [pc EXCEPT ![t] = l]
      BY <1>6 DEF resolve_icall, CheckS_GlobalMetadata, ReadRoot, MetadataCache_Get, allocate, allocate_fixed, Die,
                  control, Goto, Advance
    <2> QED
      BY <1>a, <1>b, <2>1, <2>2
  <1>7. ASSUME NEW t \in Threads, SaveSize(t) PROVE Goal
    <2>1. CASE Die("null")
      BY <1>b, <2>1 DEF Die, control
    <2>2. CASE ~Die("null")
      <3>1. /\ pc[t] = "unsafe" /\ pc' = [pc EXCEPT ![t] = "unsafe_set"] /\ call' = call
            /\ saved' = [saved EXCEPT ![t] = instance_size] /\ UNCHANGED <<instance_size, small>>
            /\ \A u \in Threads \ {t} : asked'[u] = asked[u]
        BY <1>7, <1>a, <2>2 DEF SaveSize, At, Goto
      <3>2. t \in UnsafeThreads /\ \A u \in Threads \ {t} : pc[u] \notin Inside
        BY <3>1 DEF SizesKept, UnsafeOwner
      <3>3. instance_size = ObjectSize
        BY <3>1, <3>2 DEF SizesKept, UnsafeKeepsSizes, Inside
      <3>4. saved'[t] = ObjectSize /\ pc'[t] = "unsafe_set" /\ \A u \in Threads \ {t} : pc'[u] = pc[u] /\ saved'[u] = saved[u]
        BY <1>a, <3>1, <3>3
      <3>5. \A u \in Threads : UnsafeOwner(u)'
        BY <3>1, <3>2, <3>4 DEF SizesKept, UnsafeOwner, Inside
      <3>6. UnsafeKeepsSizes'
        BY <3>1, <3>3 DEF SizesKept, UnsafeKeepsSizes
      <3> QED
        BY <3>5, <3>6 DEF Goal, SizesKept
    <2> QED
      BY <2>1, <2>2
  <1>8. ASSUME NEW t \in Threads, pc[t] \in Inside, NEW l \in {"unsafe_new", "unsafe_restore", "out"}, pc' = [pc EXCEPT ![t] = l], call' = call,
               UNCHANGED <<asked, saved>>, ~small',
               l = "unsafe_new" => instance_size' = asked[t],
               l = "out" => instance_size' = ObjectSize
        PROVE  Goal
    <2>1. t \in UnsafeThreads /\ saved[t] = ObjectSize /\ \A u \in Threads \ {t} : pc[u] \notin Inside /\ pc'[u] = pc[u]
      BY <1>8, <1>a DEF SizesKept, UnsafeOwner
    <2>2. pc'[t] = l
      BY <1>8, <1>a
    <2>3. \A u \in Threads : UnsafeOwner(u)'
      BY <1>8, <2>1, <2>2 DEF SizesKept, UnsafeOwner, Inside
    <2> QED
      BY <1>8, <2>1, <2>2, <2>3 DEF Goal, SizesKept, UnsafeKeepsSizes, Inside
  <1>9. ASSUME NEW t \in Threads, SetSize(t) \/ New(t) \/ RestoreSize(t) PROVE Goal
    <2>1. /\ pc[t] \in Inside /\ call' = call /\ UNCHANGED <<asked, saved>>
      BY <1>9 DEF SetSize, New, RestoreSize, At, Goto, Inside
    <2>2. CASE SetSize(t)
      BY <1>8, <2>1, <2>2 DEF SetSize, Goto, Inside, SizesKept, UnsafeKeepsSizes
    <2>3. CASE New(t)
      <3>1. instance_size = asked[t]
        BY <2>3 DEF New, At, SizesKept, UnsafeOwner
      <3>2. ~(instance_size < asked[t])
        BY <1>a, <3>1
      <3>3. ~small
        BY DEF SizesKept, UnsafeKeepsSizes
      <3>4. small' = (small \/ instance_size < asked[t])
        BY <2>3 DEF New
      <3>5. ~small'
        BY <3>2, <3>3, <3>4, Zenon
      <3> QED
        BY <1>8, <2>1, <2>3, <3>5 DEF New, Goto, Inside
    <2>4. CASE RestoreSize(t)
      <3>1. saved[t] = ObjectSize
        BY <2>1 DEF SizesKept, UnsafeOwner
      <3> QED
        BY <1>8, <2>1, <2>4, <3>1 DEF RestoreSize, Goto, Inside, SizesKept, UnsafeKeepsSizes
    <2> QED
      BY <1>9, <2>2, <2>3, <2>4
  <1>10. ASSUME NEW t \in Threads, \/ gc_alloc_specific(t) \/ gc_alloc_specific_fails(t) \/ gc_free_specific(t)
                                  \/ gc_realloc_specific(t) \/ deallocate(t)
         PROVE  Goal
    BY <1>10, <1>b DEF gc_alloc_specific, gc_alloc_specific_fails, gc_free_specific, gc_realloc_specific, deallocate,
                       Die, control
  <1>11. CASE UNCHANGED vars
    BY <1>11, <1>b DEF vars, control
  <1> QED
    BY <1>1, <1>2, <1>3, <1>4, <1>5, <1>6, <1>7, <1>9, <1>10, <1>11 DEF Next, Step, Mod

(* When one thread at most calls __allocate_unsafe, objects get the memory *)
(* they ask for, the game's own meanwhile included, and System.Object has  *)
(* its size back afterwards.                                               *)
THEOREM SizesAreRestored ==
  ASSUME \A t, u \in UnsafeThreads : t = u
  PROVE  Spec => []UnsafeKeepsSizes
  <1>1. Init => SizesKept
    BY DEF Init, SizesKept, UnsafeKeepsSizes, UnsafeOwner, Inside
  <1>2. IInv /\ SizesKept /\ [Next]_vars => SizesKept'
    BY SizesStep
  <1>3. SizesKept => UnsafeKeepsSizes
    BY DEF SizesKept
  <1> QED
    BY <1>1, <1>2, <1>3, Invariance, PTL DEF Spec

================================================================================
