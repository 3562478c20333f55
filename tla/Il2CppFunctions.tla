---------------------------- MODULE Il2CppFunctions ----------------------------
(***************************************************************************)
(* i2c::functions (src/api.cpp): initialize(), which finds the pointers    *)
(* the library calls il2cpp through, the metadata roots that are read on   *)
(* demand, and the allocators that depend on what was found.  Nothing here *)
(* is locked: threads run initialize() at the same time.  The build is     *)
(* UNITY_6, the only one whose traces compile.                             *)
(***************************************************************************)
EXTENDS Integers, Sequences, FiniteSets

CONSTANTS
  Threads,
  UnsafeThreads,  \* the threads that call __allocate_unsafe
  Blocks,         \* addresses of fixed blocks
  ObjectSize,     \* System.Object's instance size
  Sizes,          \* the sizes asked of __allocate_unsafe
  Fragile,        \* the pointers of which a game's binary may lack one
  Early           \* whether mods allocate before initialize() has returned

ASSUME SizesAssumption ==
  /\ ObjectSize \in Nat
  /\ Sizes \subseteq Nat /\ \A n \in Sizes : n >= ObjectSize
ASSUME UnsafeThreadsAssumption == UnsafeThreads \subseteq Threads
(* The allocator is the library's own wrapper of an export. *)
ASSUME FragileAssumption == "GarbageCollector_AllocateFixed" \notin Fragile

VARIABLES
  missing,       \* the pointers that this game's binary does not yield
  handle,        \* modloader_libil2cpp_handle is set
  running,       \* il2cpp_init has run: the game's metadata is loaded
  found,         \* the pointers that are not null
  has_gc_funcs,
  initialized,
  roots,         \* the metadata roots that are not null
  block,         \* block[b]: "free", or the heap it came from
  owner,         \* owner[b]: "none", or the allocator that hands it out
  mismatched,    \* a block was freed to the wrong heap
  gc_disabled,
  instance_size, \* System.Object's instance size, as its class says now
  small,         \* an object got less memory than was asked for
  pc, step,      \* the steps of a call; step[t]: of initialize()
  call,          \* call[t]: what t runs initialize() for
  asked, saved,  \* the locals of __allocate_unsafe
  crashed        \* "no", or why the process died

heap == <<block, owner, mismatched>>
sizes == <<instance_size, small, asked, saved>>
world == <<missing, handle, running, gc_disabled>>
published == <<found, has_gc_funcs, initialized>>
control == <<pc, step, call>>

vars == <<world, published, roots, heap, sizes, control, crashed>>

--------------------------------------------------------------------------------
(* The steps of initialize(): what each reads, what it sets, and what it   *)
(* does when that is not there.                                            *)
Finding(from, gives, failing) == [from |-> from, gives |-> gives, failing |-> failing]

(* dlsym of every export, of which only those used below are named. *)
init_api ==
  Finding({}, {"class_from_system_type", "type_get_assembly_qualified_name", "class_from_il2cpp_type",
               "domain_assembly_open", "shutdown", "gc_free_fixed", "gc_alloc_fixed", "get_corlib",
               "object_new", "resolve_icall", "gc_is_disabled"}, "leave null")

manual_definitions ==
  Finding({}, {"class_get_type_const", "class_get_name_const", "type_get_class"}, "leave null")

find_class_init == Finding({"class_from_system_type"}, {"Class_InitNative", "Class_Init"}, "abort")

find_get_type_info_from_type_definition_index ==
  Finding({"type_get_class"}, {"GlobalMetadata_GetTypeInfoFromTypeDefinitionIndex"}, "abort")

find__type_get_name_ == Finding({"type_get_assembly_qualified_name"}, {"_Type_GetName_"}, "abort")

(* Deviation: the trace's result is not checked. *)
find_class_from_il2cpp_typeUnchecked ==
  Finding({"class_from_il2cpp_type"}, {"Class_FromIl2CppTypeNative", "Class_FromIl2CppType"}, "undefined")

find_class_from_il2cpp_type ==
  Finding({"class_from_il2cpp_type"}, {"Class_FromIl2CppTypeNative", "Class_FromIl2CppType"}, "abort")

find_generic_class_create_class ==
  Finding({"Class_FromIl2CppTypeNative"}, {"GenericClass_CreateClass"}, "abort")

find_class_get_ptr_class == Finding({"Class_FromIl2CppTypeNative"}, {"Class_GetPtrClass"}, "abort")

(* The empty result of a failed trace is dereferenced. *)
find_s_Assemblies == Finding({"domain_assembly_open"}, {"s_Assemblies"}, "undefined")

find_GC_free == Finding({"shutdown", "gc_free_fixed"}, {"GC_free"}, "abort")

(* The export is wrapped, whether it is there or not. *)
find_GC_AllocFixed == Finding({}, {"GarbageCollector_AllocateFixed"}, "leave null")

find_il2cpp_defaults == Finding({"get_corlib"}, {"defaults"}, "undefined")

find_metadata_pointers ==
  Finding({"GlobalMetadata_GetTypeInfoFromTypeDefinitionIndex"},
          {"s_GlobalMetadataHeaderPtr", "s_Il2CppMetadataRegistrationPtr", "s_GlobalMetadataPtr"}, "abort")

set_has_gc_funcs == Finding({}, {}, "has_gc_funcs")
set_initialized == Finding({}, {}, "initialized")

(* Deviation: the flag is computed before the allocator is found. *)
StepsFlagEarly ==
  <<init_api, manual_definitions, find_class_init, find_get_type_info_from_type_definition_index,
    find__type_get_name_, find_class_from_il2cpp_type, find_generic_class_create_class,
    find_class_get_ptr_class, find_s_Assemblies, find_GC_free, set_has_gc_funcs, find_GC_AllocFixed,
    find_il2cpp_defaults, find_metadata_pointers, set_initialized>>

Steps ==
  <<init_api, manual_definitions, find_class_init, find_get_type_info_from_type_definition_index,
    find__type_get_name_, find_class_from_il2cpp_type, find_generic_class_create_class,
    find_class_get_ptr_class, find_s_Assemblies, find_GC_free, find_GC_AllocFixed, set_has_gc_funcs,
    find_il2cpp_defaults, find_metadata_pointers, set_initialized>>

--------------------------------------------------------------------------------
Pointers == UNION {Steps[i].gives : i \in DOMAIN Steps}

(* Deviation: the guard is set before what it guards. *)
root_order_header_first ==
  <<"s_GlobalMetadataHeader", "s_GlobalMetadata", "s_Il2CppMetadataRegistration">>

(* CheckS_GlobalMetadata's assignments, the second of which is its guard.  *)
root_order == <<"s_GlobalMetadata", "s_GlobalMetadataHeader", "s_Il2CppMetadataRegistration">>

Calls == {"resolve_icall", "allocate", "check_roots", "unsafe"}

TypeOK ==
  /\ missing \subseteq Fragile
  /\ {handle, running, has_gc_funcs, initialized, mismatched, gc_disabled, small} \subseteq BOOLEAN
  /\ found \subseteq Pointers
  /\ \E n \in 0..Len(root_order) : roots = {root_order[i] : i \in 1..n}
  /\ \A b \in Blocks : <<block[b], owner[b]>> \in
       {<<"free", "none">>, <<"gc", "specific">>, <<"gc", "gc_allocator">>, <<"native", "specific">>}
  /\ pc \in [Threads -> {"out", "init", "allocate_fixed", "roots", "use_roots",
                          "unsafe_set", "unsafe_new", "unsafe_restore"} \union Calls]
  /\ step \in [Threads -> 1..Len(Steps)]
  /\ call \in [Threads -> Calls]
  /\ instance_size \in Sizes \union {ObjectSize}
  /\ asked \in [Threads -> Sizes \union {ObjectSize}]
  /\ saved \in [Threads -> Sizes \union {ObjectSize}]
  /\ crashed \in {"no", "abort", "null", "memory"}

Init ==
  /\ missing \in {{}} \union {{p} : p \in Fragile}
  /\ handle = FALSE /\ running = FALSE /\ gc_disabled = FALSE
  /\ found = {} /\ has_gc_funcs = FALSE /\ initialized = FALSE
  /\ roots = {}
  /\ block = [b \in Blocks |-> "free"]
  /\ owner = [b \in Blocks |-> "none"]
  /\ mismatched = FALSE
  /\ instance_size = ObjectSize /\ small = FALSE
  /\ asked = [t \in Threads |-> ObjectSize]
  /\ saved = [t \in Threads |-> ObjectSize]
  /\ pc = [t \in Threads |-> "out"]
  /\ step = [t \in Threads |-> 1]
  /\ call = [t \in Threads |-> "resolve_icall"]
  /\ crashed = "no"

--------------------------------------------------------------------------------
(* The game: the modloader opens libil2cpp, the game calls il2cpp_init,    *)
(* allocates plain objects, and stops and resumes its garbage collector.   *)
LoadLibrary ==
  /\ crashed = "no" /\ ~handle
  /\ handle' = TRUE
  /\ UNCHANGED <<missing, running, gc_disabled, published, roots, heap, sizes, control, crashed>>

RunGame ==
  /\ crashed = "no" /\ handle /\ ~running
  /\ running' = TRUE
  /\ UNCHANGED <<missing, handle, gc_disabled, published, roots, heap, sizes, control, crashed>>

GameNew ==
  /\ crashed = "no" /\ running
  /\ small' = (small \/ instance_size < ObjectSize)
  /\ UNCHANGED <<world, published, roots, heap, instance_size, asked, saved, control, crashed>>

SwitchGC ==
  /\ crashed = "no" /\ running
  /\ gc_disabled' = ~gc_disabled
  /\ UNCHANGED <<missing, handle, running, published, roots, heap, sizes, control, crashed>>

--------------------------------------------------------------------------------
At(t, l) == crashed = "no" /\ pc[t] = l

Goto(t, l) == pc' = [pc EXCEPT ![t] = l] /\ UNCHANGED <<step, call>>

Die(why) ==
  /\ crashed' = why
  /\ UNCHANGED <<world, published, roots, heap, sizes, control>>

(* initialize() at the head of a call.  It returns at once when it has run *)
(* already and when libil2cpp is not loaded, which its caller cannot tell. *)
(* Mods start on load, after il2cpp_init, as README.md:39 says; that a call *)
(* comes too early is modelled for gc_allocator, which checks what it calls.*)
initialize(t, c) ==
  /\ At(t, "out")
  /\ c \in {"resolve_icall", "check_roots"} => handle
  /\ c = "unsafe" => t \in UnsafeThreads /\ running
  /\ call' = [call EXCEPT ![t] = c]
  /\ step' = [step EXCEPT ![t] = 1]
  /\ pc' = [pc EXCEPT ![t] = IF initialized \/ ~handle THEN c ELSE "init"]
  /\ UNCHANGED <<world, published, roots, heap, sizes, crashed>>

Here(t) == Steps[step[t]]

Advance(t) == step' = [step EXCEPT ![t] = @ + 1] /\ UNCHANGED <<pc, call>>

Lost(s) == s.gives \intersect missing # {}

Find(t) ==
  /\ At(t, "init")
  /\ Here(t).failing \in {"leave null", "abort", "undefined"}
  /\ Here(t).from \subseteq found
  /\ Lost(Here(t)) => Here(t).failing # "abort"
  /\ found' = found \union (IF Here(t).failing = "undefined" THEN Here(t).gives  \* anything, if it is lost
                            ELSE Here(t).gives \ missing)
  /\ Advance(t)
  /\ UNCHANGED <<world, has_gc_funcs, initialized, roots, heap, sizes, crashed>>

FindFails(t) ==
  /\ At(t, "init")
  /\ \/ ~(Here(t).from \subseteq found) /\ Die("null")
     \/ Lost(Here(t)) /\ Here(t).failing = "abort" /\ Die("abort")
     \/ Lost(Here(t)) /\ Here(t).failing = "undefined" /\ Die("null")

FindGC(t) ==
  /\ At(t, "init") /\ Here(t).failing = "has_gc_funcs"
  /\ has_gc_funcs' = ({"GarbageCollector_AllocateFixed", "GC_free"} \subseteq found)
  /\ Advance(t)
  /\ UNCHANGED <<world, found, initialized, roots, heap, sizes, crashed>>

Initialized(t) ==
  /\ At(t, "init") /\ Here(t).failing = "initialized"
  /\ initialized' = TRUE
  /\ Goto(t, call[t])
  /\ UNCHANGED <<world, found, has_gc_funcs, roots, heap, sizes, crashed>>

resolve_icall(t) ==
  /\ At(t, "resolve_icall")
  /\ IF "resolve_icall" \in found
       THEN Goto(t, "out") /\ UNCHANGED <<world, published, roots, heap, sizes, crashed>>
       ELSE Die("null")

--------------------------------------------------------------------------------
(* CheckS_GlobalMetadata: the roots are read through their pointers once   *)
(* the game runs, by every thread that finds the header unset.             *)
CheckS_GlobalMetadata(t) ==
  /\ At(t, "check_roots") /\ running
  /\ IF "s_GlobalMetadataHeader" \in roots
       THEN Goto(t, "use_roots")
       ELSE /\ pc' = [pc EXCEPT ![t] = "roots"]
            /\ step' = [step EXCEPT ![t] = 1]
            /\ UNCHANGED call
  /\ UNCHANGED <<world, published, roots, heap, sizes, crashed>>

ReadRoot(t) ==
  /\ At(t, "roots")
  /\ IF find_metadata_pointers.gives \subseteq found
       THEN /\ roots' = roots \union {root_order[step[t]]}
            /\ IF step[t] < Len(root_order) THEN Advance(t) ELSE Goto(t, "use_roots")
            /\ UNCHANGED <<world, published, heap, sizes, crashed>>
       ELSE Die("null")

(* The MetadataCache_ functions index the data by the header's offsets.    *)
MetadataCache_Get(t) ==
  /\ At(t, "use_roots")
  /\ IF {"s_GlobalMetadata", "s_GlobalMetadataHeader"} \subseteq roots
       THEN Goto(t, "out") /\ UNCHANGED <<world, published, roots, heap, sizes, crashed>>
       ELSE Die("null")

--------------------------------------------------------------------------------
(* Fixed blocks.  Blocks that the game or other mods hold are not modelled,*)
(* so memory may run out at any time.                                      *)
Allocated(b, h, o) ==
  /\ block[b] = "free"
  /\ block' = [block EXCEPT ![b] = h]
  /\ owner' = [owner EXCEPT ![b] = o]
  /\ UNCHANGED mismatched

(* Deviation: the block stays handed out. *)
FreedKeepsOwner(b, h) ==
  /\ block' = [block EXCEPT ![b] = "free"]
  /\ mismatched' = (mismatched \/ block[b] # h)
  /\ UNCHANGED owner

Freed(b, h) ==
  /\ block' = [block EXCEPT ![b] = "free"]
  /\ owner' = [owner EXCEPT ![b] = "none"]
  /\ mismatched' = (mismatched \/ block[b] # h)

heap_now == IF has_gc_funcs THEN "gc" ELSE "native"

gc_alloc_specific(t) ==
  /\ At(t, "out")
  /\ Early \/ initialized
  /\ \E b \in Blocks : Allocated(b, heap_now, "specific")
  /\ has_gc_funcs => "gc_alloc_fixed" \in found
  /\ UNCHANGED <<world, published, roots, sizes, control, crashed>>

gc_alloc_specific_fails(t) ==
  /\ At(t, "out")
  /\ Early \/ initialized
  /\ has_gc_funcs
  /\ IF "gc_alloc_fixed" \in found THEN Die("memory") ELSE Die("null")

gc_free_specific(t) ==
  /\ At(t, "out")
  /\ \E b \in Blocks : owner[b] = "specific" /\ Freed(b, heap_now)
  /\ UNCHANGED <<world, published, roots, sizes, control, crashed>>

(* The new block's contents come from the old one and what follows it.     *)
gc_realloc_specific(t) ==
  /\ At(t, "out")
  /\ has_gc_funcs => "gc_alloc_fixed" \in found
  /\ \E b, c \in Blocks :
       /\ owner[b] = "specific" /\ block[c] = "free"
       /\ block' = [block EXCEPT ![b] = "free", ![c] = heap_now]
       /\ owner' = [owner EXCEPT ![b] = "none", ![c] = "specific"]
       /\ mismatched' = (mismatched \/ block[b] # heap_now)
  /\ UNCHANGED <<world, published, roots, sizes, control, crashed>>

(* gc_allocator: what is not there, or a disabled GC, is a bad_alloc.      *)
allocate(t) ==
  /\ At(t, "allocate")
  /\ IF {"gc_alloc_fixed", "gc_free_fixed", "gc_is_disabled"} \subseteq found /\ ~gc_disabled
       THEN Goto(t, "allocate_fixed")
       ELSE Goto(t, "out")
  /\ UNCHANGED <<world, published, roots, heap, sizes, crashed>>

allocate_fixed(t) ==
  /\ At(t, "allocate_fixed")
  /\ \/ \E b \in Blocks : Allocated(b, "gc", "gc_allocator")
     \/ UNCHANGED heap
  /\ Goto(t, "out")
  /\ UNCHANGED <<world, published, roots, sizes, crashed>>

deallocate(t) ==
  /\ At(t, "out")
  /\ \E b \in Blocks : owner[b] = "gc_allocator" /\ Freed(b, "gc")
  /\ UNCHANGED <<world, published, roots, sizes, control, crashed>>

--------------------------------------------------------------------------------
(* __allocate_unsafe gives System.Object another size while it allocates.  *)
SaveSize(t) ==
  /\ At(t, "unsafe")
  /\ IF {"defaults", "object_new"} \subseteq found
       THEN /\ saved' = [saved EXCEPT ![t] = instance_size]
            /\ \E n \in Sizes : asked' = [asked EXCEPT ![t] = n]
            /\ Goto(t, "unsafe_set")
            /\ UNCHANGED <<world, published, roots, heap, instance_size, small, crashed>>
       ELSE Die("null")

(* Deviation: the object is allocated before its size is set. *)
SetSizeLate(t) ==
  /\ At(t, "unsafe_set")
  /\ Goto(t, "unsafe_new")
  /\ UNCHANGED <<world, published, roots, heap, sizes, crashed>>

SetSize(t) ==
  /\ At(t, "unsafe_set")
  /\ instance_size' = asked[t]
  /\ Goto(t, "unsafe_new")
  /\ UNCHANGED <<world, published, roots, heap, small, asked, saved, crashed>>

New(t) ==
  /\ At(t, "unsafe_new")
  /\ small' = (small \/ instance_size < asked[t])
  /\ Goto(t, "unsafe_restore")
  /\ UNCHANGED <<world, published, roots, heap, instance_size, asked, saved, crashed>>

RestoreSize(t) ==
  /\ At(t, "unsafe_restore")
  /\ instance_size' = saved[t]
  /\ Goto(t, "out")
  /\ UNCHANGED <<world, published, roots, heap, small, asked, saved, crashed>>

--------------------------------------------------------------------------------
Step(t) ==
  \/ Find(t) \/ FindFails(t) \/ FindGC(t) \/ Initialized(t)
  \/ resolve_icall(t) \/ CheckS_GlobalMetadata(t) \/ ReadRoot(t) \/ MetadataCache_Get(t)
  \/ allocate(t) \/ allocate_fixed(t)
  \/ SaveSize(t) \/ SetSize(t) \/ New(t) \/ RestoreSize(t)

Mod(t) ==
  \/ \E c \in Calls : initialize(t, c)
  \/ gc_alloc_specific(t) \/ gc_alloc_specific_fails(t) \/ gc_free_specific(t)
  \/ gc_realloc_specific(t) \/ deallocate(t)

Next ==
  \/ LoadLibrary \/ RunGame \/ GameNew \/ SwitchGC
  \/ \E t \in Threads : Step(t) \/ Mod(t)

Spec == Init /\ [][Next]_vars

--------------------------------------------------------------------------------
(* The process dies of a null pointer or of a failed trace only when the   *)
(* game's binary lacks something: initialize() finds everything before it  *)
(* needs it, however two threads that run it interleave, and whoever sees  *)
(* the metadata header set can use the metadata.                           *)
OnlyMissingKills == crashed \in {"null", "abort"} => missing # {}

(* What is traced and must be there. *)
Required == {"Class_InitNative", "GlobalMetadata_GetTypeInfoFromTypeDefinitionIndex", "_Type_GetName_",
             "Class_FromIl2CppTypeNative", "GenericClass_CreateClass", "Class_GetPtrClass", "GC_free"}

(* "Whether all of the il2cpp functions have been initialized or not": a   *)
(* thread that sees `initialized`, and so skips initialize(), can use all  *)
(* that the binary has; had a trace that is checked failed, it would not   *)
(* have been set; and blocks come from the GC from then on.                *)
PublishedComplete ==
  initialized => /\ Pointers \ missing \subseteq found
                 /\ Required \intersect missing = {}
                 /\ has_gc_funcs

(* gc_free_specific, which chooses a heap by what has been found by now,   *)
(* and gc_allocator return every block to the heap it came from.           *)
FreedByItsAllocator == ~mismatched

(* __allocate_unsafe gives an object of at least the size asked, no object *)
(* of the game's is too small meanwhile, and System.Object has its size    *)
(* back afterwards.                                                        *)
UnsafeKeepsSizes ==
  /\ ~small
  /\ (\A t \in Threads : pc[t] \notin {"unsafe_new", "unsafe_restore"}) => instance_size = ObjectSize
================================================================================
