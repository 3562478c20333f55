# A verification model of beatsaber-hook

beatsaber-hook is the C++ library with which mods for Beat Saber on the Quest talk to
the game's il2cpp runtime. It finds classes and methods by name, calls them, keeps
managed objects alive from C++, edits managed collections, runs code on threads the
runtime knows, and installs hooks. This directory holds TLA+ models of its parts that
have state worth reasoning about, TLC configurations that check them on small
instances, and TLAPS proofs for every value of the constants.

Run `tlc -config MCSafePtr.cfg MCSafePtr` (and likewise for the other configurations)
and `tlapm SafePtr_proofs.tla` (and likewise for Threading_proofs, EventCallback_proofs,
ListW_proofs, FindMethod_proofs, Creation_proofs, Il2CppFunctions_proofs and
Algorithms_proofs).

## 1. Inventory

| Component | Source | State | Operations | Interacts with | Model |
|---|---|---|---|---|---|
| safe_ptr, count_ptr | shared/safeptr.hpp, src/safeptr.cpp | a handle per safe_ptr; a global map from wrapper address to count, under one mutex | construct, copy, move, assign, emplace, clear, destroy | the collector's fixed blocks (api) | SafePtr, SharedHold |
| Threads and async | shared/threading.hpp | il2cpp's and the JVM's tables of attached threads, a thread_local env | attached_invoke, il2cpp_thread, il2cpp_async | api, std::thread, std::async | Threading |
| Event callbacks | shared/callback.hpp | a container of callbacks | add, two removes, clear, invoke | user code, which calls back | EventCallback |
| ListW | shared/listw.hpp | `_items`, `_size`, `_version` of a managed list | construct (empty or from a container), push_back, insert_at, insert_range, erase_at, erase_range, clear, at; try_get, index_of, front_or_default, back_or_default, to_array, copy_to | the managed runtime, which reads the same fields | ListW, ManagedList |
| Method lookup | src/find.cpp, src/types.cpp | args_cache and types_cache under one shared_mutex; initialized classes | find_method by name, by argument count, by types, by slot, by vtable; find_property, find_field | class initialization by the game | Overload, FindMethod, Members |
| Class lookup, generics, object creation | src/types.cpp, shared/types.hpp | a cache of classes; a static per C++ type; cctor_started and cctor_finished_or_no_cctor of a class | get_class_from_name, class_of, make_generic, create_manual | the game, which loads assemblies; method lookup, api, debug output | Classes, Creation |
| il2cpp API | src/api.cpp, shared/api.hpp | function pointers, `initialized`, has_gc_funcs, metadata globals, System.Object's instance_size | initialize, gc_alloc_specific, gc_free_specific, gc_realloc_specific, `__allocate_unsafe`, CheckS_GlobalMetadata, resolve_icall | every other part calls it first | Il2CppFunctions |
| gc_allocator | shared/gc-alloc.hpp | none | allocate, deallocate, destroy | api | Il2CppFunctions |
| Hooks | shared/hooking.hpp | a handle per hook | install, install as original, uninstall | flamingo (external), which holds the state | not modelled |
| Pattern scan | src/binary.cpp | none | find_pattern, find_unique_pattern, mapped_file_unique_pattern | /proc/self/maps | Patterns, Algorithms |
| Instruction search | shared/capstone.hpp, src/capstone.cpp | none | find_through_hooks, find_nth and its callers, getpcaddr | capstone and flamingo (external); initialize() calls it | Instructions, Algorithms |
| Member access | shared/members.hpp | none | run_method, get and set of properties and fields, cast, new_ctor | method lookup, object creation, exceptions | Members, Algorithms, Creation |
| StringW | shared/stringw.hpp, src/stringw.cpp | none | comparison, prefix, suffix, append | managed strings | Strings, Algorithms |
| ArrayW, ByRef, ValueW | shared/arrayw.hpp and others | none | thin wrappers | | not modelled |
| Debug output | src/debug.cpp | none of its own; log_classes fills tables of il2cpp's images | logging and dumps | class lookup, which il2cpp answers from those tables | Classes, in part |
| Utilities, exceptions | src/utils.cpp, shared/utils.hpp, src/exceptions.cpp | none | result_or_throw, on_scope_exit | member access, threads | where they are used |
| Vendored headers, on-device tests | shared/alphanum.hpp, src/tests and others | none | | | not modelled |

What is hard about each of them, and what makes it correct:

* **safe_ptr.** Copies of one safe_ptr live on different threads. `clear` reads the
  count under the lock, releases it, frees the wrapper, and takes the lock again to give
  its count back; the wrapper's address may have been allocated again in between. Correct
  means: a safe_ptr keeps its object valid as long as it exists, and the wrapper goes
  with the last copy.
* **Threads.** il2cpp has one registration per thread, however many scopes want it;
  attached_invoke unregisters at the end of its scope. A deferred `il2cpp_async` runs on
  whatever thread asks for its result, possibly one that is registered already.
  Exceptions and joins go through the same scopes. Correct means: a thread is registered
  whenever its function runs and not after it, and joins end.
* **Event callbacks.** Callbacks change and invoke the event that is calling them.
  Correct means: each invocation calls exactly what was subscribed when it began, and the
  container holds what was asked for, although it compares callbacks by addresses.
* **ListW.** The managed side relies on three fields being consistent with each other.
  Index arithmetic mixes signed arguments with an unsigned size. Correct means: each
  operation is the sequence operation it names, the spare capacity holds no references,
  and enumerators notice changes.
* **Classes and objects.** Names are resolved by whatever assemblies are loaded when
  somebody asks first, and the answer is kept in a cache, in statics of C++ types and in
  il2cpp's own tables, which log_classes builds in place. Creating the first object of a
  class runs managed code, which can create objects, wait for a static that another
  thread initializes, or throw. Correct means: a class is the first one of its name
  whatever has been asked and loaded in between, nothing that was loaded is missed, a
  class constructor is not entered again by its own thread, and every call ends.
* **Member access.** The C++ side states types that the managed side does not check.
  A slot means different things for classes and interfaces. Errors become results or
  exceptions, and some calls are noexcept. Correct means: what is called is what was
  asked for, and arguments and results have the types that were declared.
* **Method lookup.** Threads look up, search without a lock and write, and the game
  initializes classes meanwhile; failures are cached as well. Correct means: an answer
  depends on the query alone, and it is the best overload.
* **Initialization.** `initialized` is read and written without
  synchronisation, set at the end of a long function with an early return, and
  `gc_alloc_specific` falls back to calloc before it; memory from one allocator may reach
  the other's free. The traces by which pointers are found can fail. Correct means: whoever
  sees a flag or a root set can use what it stands for, and blocks go back where they
  came from.
* **Searches and strings.** Loops with two cursors that restart, count down or walk
  backwards. Correct means: they agree with what a mathematician would write, at every
  boundary, and a function is the same function when it is hooked.

PROJECT.json lists the hazards line by line.

## 2. What is modelled

### SafePtr (with SharedHold)

`Handles` are storage locations of safe_ptr objects, `Blocks` addresses that
gc_alloc_fixed may return. `ptr[h]` is the count_ptr's pointer, `addr_ref_count` the map
(0 means no entry). Each acquisition of the map's mutex is one step. The operations of a
thread start with Construct, CopyConstruct, MoveConstruct, CopyAssign, Clear or Emplace
and go on through labels in `pc`:

* clear: CheckCount (get_count under the lock) → FreeWrapper if it was at most 1 →
  DropHandle (remove_count, pointer reset). The destructor is the same. An emplace goes on
  to Allocate and AddNew.
* copy assignment: CopyAssign (which returns early for equal pointers) → RemoveOld →
  AddNew, as count_ptr::emplace orders them. It never looks whether the count it gives back
  was the last.

Move assignment of count_ptr cannot be reached: safe_ptr declares a copy assignment and a
move constructor and no move assignment. Constructing from null objects is left out.

Readable and Writable express the C++ rule that one safe_ptr object is not used by two
threads while one of them modifies it. It is assumed of callers; different safe_ptrs that
share a wrapper are unrestricted, and that is where the concurrency is. `Collect` is
the garbage collector: it takes an object that no allocated wrapper and no running
operation refers to.

SharedHold is the promise: handles hold objects, and only objects nobody holds are
collected. `ImplementsSharedHold` checks it with `holds[h] <- held(h)`, the object
in h's wrapper unless h is being modified.

### Threading

`stack[t]` is the calls thread t is in. A call of attached_invoke goes through "attach",
"body" and "detach"; the deferred branch of il2cpp_async_internal for an attached thread
(UNITY_2019 and UNITY_2021, `ChecksAttached`) is a plain call. Threads created in a scope
are joined before it ends. An exception leaves a call the way a return does, through the
on_scope_exit object, and terminates the program if it leaves a thread's outermost
function. In C++ the detaching object is destroyed during unwinding only if something
catches the exception; for il2cpp_thread both orders end in termination, and the
model detaches nothing after it.

il2cpp and the JVM are external: attaching twice is attaching once, and detaching
detaches.

### EventCallback

`callbacks` is the container, `invocations` the stack of running invoke() calls, each with
its copy of the container. All user code is an action of its own: whenever no invoke is
running or a callback is, add, remove, clear or a nested invoke may happen. `Address` gives
what func_wrapper::ptr() returns, and is where virtual member functions differ from
others. The type invariant says at which place of its loop each of the nested invocations is;
`MaxDepth` bounds their number for TLC and is not part of it. `Ordered` chooses between std::set (operator<) and the unordered container
(operator==). `subscribed` is a history variable: what was asked for. NO_EVENT_CALLBACK_INVOKE_SAFETY, where
invoke iterates over the container itself, is not modelled: changing the container meanwhile is
undefined there.

### ListW (with ManagedList)

`_items` is a function on 0 .. capacity - 1, copies and fills are the std algorithms on
it. ensure_capacity doubles, starts at 4 and is clamped, as in the code; the model's
`MaxCapacity` is both the clamp and the bound of the model. Differences of the unsigned
size wrap (`Wrapped`). A list begins empty with some capacity, or full with the elements of
a container. The reading operations check, search and copy; what they answer is in
`result`, a sequence of at most one element where the code returns an optional.
`Unchecked` says whether callers pass what the code does not check: an index beyond the size to
erase_range, or a negative one to copy_to. ManagedList states the same operations on a
sequence; ListW refines it, answers included.

erase(iterator), emplace_back and back(pred) do not compile when they are instantiated, and
are not modelled.

### Overload and FindMethod

Overload is a pure translation of param_match, is_convertible_from, param_distance and the
search loop of find_method. FindMethod runs it between the lock sections: Lookup
(shared lock), Search (no lock; initializes the classes it visits), Store (exclusive lock,
unconditional) and Return; `GameInit` is the game initializing a class on its own. A class
has no methods before it is initialized. An argument's type is null (`NoType`) when its class
is not found: param_match does not compare such an argument, but weighing it reads the type
(find.cpp:297), as the climb may read the interfaces of null (find.cpp:231); either sets
`crashed` (`reads_null`). Search is one step: a concurrent Class_Init can
only add methods of classes that the search initializes itself before it reads them.

Names and types are model data. il2cpp's class_is_assignable_from is external
and modelled by subtyping, which includes "everything is assignable to Object".

### Classes and Creation

A class name is a sequence: the class "A/B" nested in "A" is <<"A", "B">>. `Assemblies` are
the names each assembly defines, in the order in which the game loads them. The calls a
thread is in are a stack of frames, since they call each other: class_of calls
get_class_from_name, which calls itself for the declaring class of a nested name; new_ctor
calls class_of and create_manual, whose .cctor may end up in new_ctor again.

* get_class_from_name: LookUp (the cache, under its lock) → Search, one assembly's image per
  step, among those that were loaded when the search began → Store (emplace, under the
  lock). What an image answers is il2cpp's: class_from_name believes
  nameToClassHashTable if there is one. `log_classes` puts a table into an image first and
  adds the types to it one by one (NextImage, add_type_to_name).
* class_of: a DEFINE_IL2CPP_CLASS type ("plain") has a static that is initialized once, with
  a guard on which other threads wait (`guards`: BeginStatic, EndStatic); pointers and arrays
  ("array") and generic instances ("generic") have statics that are tried again while they
  are null. make_generic takes the System.Type of a null class, and the program is gone
  (`Crash`).
* create_manual reads the class's two flags together (CreateManual), sets cctor_started
  (StartCctor), runs .cctor, which makes up to `MaxNested` objects (NestedCreate) and
  returns (CctorReturns) or throws (CctorThrows), and sets cctor_finished_or_no_cctor. That
  the class is not initialized, or the allocator has no memory, can happen at any time: it
  returns null. An exception goes through the new_ctor that called; one that returns a
  result is noexcept and ends the program. Which kind a new_ctor is, is chosen when it
  matters.

new_ctor is the one with manual allocation; the other lets il2cpp allocate. The game runs
class constructors as well, in its own Class_Init, whose lock and flags are il2cpp's: not
modelled, so the flags change here only as create_manual changes them.

### Members

Pure operators. A C++ value is its C++ type and the class of the object it refers to, null
for a null reference. `run_method_impl`, get and set of properties and fields, and `cast`
follow the order of checks in the code, and end with a value, an error in the result, an
exception, or the program ("terminated": an exception from make_generic in a noexcept
call; "crashed": the lookup read null while it weighed overloads). What a call delivers is the method it ran, with the types it ran with. A slot of a
class is looked up in its vtable, whose abstract entries hold a stub; one of an interface
counts from the interface's offset; interfaces have no vtables themselves. Algorithms calls these operators once per input.

What il2cpp makes sure of in every hierarchy it loads is stated as assumptions on the
constants (InterfacesAssumption, SignaturesAssumption, DeclarationsAssumption,
VtablesAssumption), which TLC evaluates for the run's classes. VtablesAssumption leaves
out what the language has besides overriding: a method that hides another one of its name
and parameters in a slot of its own (`new` in C#), explicit implementations of interfaces,
whose names differ, and virtual methods that differ in their number of generic parameters only.
What a slot means would then have to be said by il2cpp's own tables, which is what the code
reads.

### Il2CppFunctions

`Steps` is initialize(): for each step the pointers it reads, those it sets, and what it
does when a pointer cannot be found, which the source decides step by step: dlsym leaves a
null, a checked trace aborts, an unchecked one dereferences an empty optional. Any
number of threads may be in it at once, each at its own step; nothing is locked. `missing`
is what this game's binary does not yield. `found`, has_gc_funcs, `initialized` and `roots`
are the globals; each write is a step. Interleavings are sequentially consistent: what
ARM64 may additionally reorder between the unsynchronised flags is not modelled. The
build is UNITY_6, since the traces have an #error for others.

A call goes through initialize() and then on to what it was made for: resolve_icall, the
metadata accessors (`check_roots`, CheckS_GlobalMetadata's three reads, then the use),
gc_allocator, or `__allocate_unsafe`, whose four steps are apart because the game allocates
meanwhile (`GameNew`). gc_alloc_specific, gc_free_specific and gc_realloc_specific do not
initialize and use what has been found; `Early` says whether mods call them before
initialize() has returned. A block carries the heap it came from and the
allocator that handed it out. The repository's README (line 39) has mods start on `load`,
after il2cpp_init; so resolve_icall and the accessors wait for `handle`, while
gc_allocator, which checks what it calls, does not.

Two threads in `__allocate_unsafe` at once lose System.Object's size. The source says so
("we hope for the best"), and UnsafeThreads has one member in the run.

### Patterns, Strings, Instructions and Algorithms

Pure operators, one module per source file, which Algorithms calls once per input.
A pattern is its tokens; the only thing its text matters for is its length. A text is a
sequence of characters with their UTF-8 and UTF-16 units, which is what std::codecvt
relates. (convstr passes an uninitialised mbstate_t; libc++'s UTF-8 facet does not read
it.) An instruction is a record of what the searches look at; a hooked function is a
function whose first words are overwritten and kept in a buffer elsewhere.
The three find_nth in capstone.hpp have the same loop. strcomp_impl and its relatives are
stated by the positions where the operands differ, which is what their loops compute.

A loop is a recursive function of what it carries from round to round: `scan` of the
address of an attempt (an attempt's own loop over the tokens is the least token that
fails), `matches_from` of the address to go on at, `find_nth` of the word it is at and how
many results and returns are left. `searched` is the words that find_through_hooks hands
over, flamingo's copy first.

## 3. Runs

| Run | Instance | Shows |
|---|---|---|
| safe_ptr | 2 threads, 3 safe_ptrs, 2 wrapper addresses, 2 objects | counts are exact at every step, only the last holder frees, held objects stay valid and the same, refinement of SharedHold |
| safe_ptr_assign | 1 thread, 2 safe_ptrs | **violation**: assigning over the last safe_ptr leaks its wrapper |
| threading | main, 2 workers, 2 async calls, all policies | registration, exceptions, joins, with is_thread_attached |
| threading_unity6 | the same, without is_thread_attached | **violation**: a deferred call unregisters a running thread |
| event_callback | 4 functions, one on 2 instances, 2 nested invokes | re-entrant use |
| listw | capacity 5, three values, versions up to 9, spans of 0, 3 and 6 | refinement of the sequence with its answers, stale references, versions |
| find_method | 2 threads, 9 classes, 10 queries | answers are fresh and final, best overload among those without interfaces, no null dereference |
| find_method_weights | an overload for a base class with two interfaces | **violation**: not the best match |
| classes | 2 threads, 2 assemblies that define one name both, a nested class, a plain, an array and a generic type, a .cctor that makes an object | the first match is found and kept, nothing loaded is missed, class constructors, every call returns |
| il2cpp_functions | 2 threads, 2 blocks, binaries lacking one of 4 pointers | initialization raced by two threads, roots, allocators, sizes |
| algorithms | every memory of 10 bytes of 2 values with every pattern of up to 3 tokens; every triple of texts of up to 2 of 4 characters; every function of 4 of 8 instructions with 0 to 2 words hooked; calls of members on 10 classes | the functions agree with their definitions, and calls deliver what their types say |
| member_returns | the same | **violation**: a call by name delivers a value of another type than was asked for |

Each violation is a disagreement between the code and a comment in it; "findings" in
PROJECT.json quotes both. More that the modules show with other constants, and that
have no configuration of their own:

* NoLeak also fails without copy assignment (`Operations` without "assign") with two
  threads: two concurrent clears of the last two copies both read a count of 2.
* HoldsSubscriptions fails when two member functions of unrelated classes have one address,
  which virtual functions in the same vtable slot have: removing one removes the other.
* ImplementsManagedList fails with `Unchecked`: erase_range beyond the size passes its
  check, because the difference is unsigned, and makes the size negative; copy_to with a
  negative index passes its check and writes before the span.
* AlwaysAnswers fails when the argument is an interface that extends the
  parameter's: param_distance climbs past the topmost class and reads null. It fails as well
  when one argument's type is unknown and another one is converted. GroundedAreAnswered
  proves it for other arguments.
* FreedByItsAllocator fails with `Early`: memory that gc_alloc_specific took from calloc
  before initialization reaches GC_free after it (src/api.cpp:1269), although the comment at
  shared/api.hpp:429 pairs the two.
* FirstMatch and FailsOnlyWhenUnloaded fail without `LogsAlone`: beside log_classes, a
  lookup finds a table that is not filled yet (src/debug.cpp:334), misses a class that is
  loaded or takes a later assembly's, and caches that.
* FindsFirstMatch demands a byte after the match; without that, a match that ends
  with the region is missed (src/binary.cpp:147).

And what the models have without a promise in the code to hold against it: a static keeps
null for good when its class was asked for too early (shared/types.hpp:344); class_of of a
generic type whose base is missing reads null (types.hpp:355); a call that returns a result
can still end the program, when make_generic throws (members.hpp:45) or a .cctor does
(src/types.cpp:373); values are passed by address whatever the parameter is
(members.hpp:51).

Bounds. Two threads suffice for each race between two lock sections; three safe_ptrs give
a copy to clear while two others are shared or assigned; two wrapper addresses
force addresses to be used again while an operation is under way. Two workers and two
deferred calls give a deferred call inside a thread inside a thread. MaxDepth 2 has an
invocation changing what another one is iterating. Capacity 5 crosses both the first
allocation of 4 and a clamped doubling; MaxVersion (9) bounds the number of edits in one
behaviour, which is more than is needed to fill a list and shrink it again, and spans are too
short, just right or too long. The list's states are told apart by its fields
(the VIEW): request and result are history that no operation reads. The queries of
find_method include overloads in a class and its parent, a generic method, an enum
argument, a by-reference parameter, an unknown type and two failures; threads are
interchangeable, so the run uses symmetry (it checks no liveness).

For classes: no assembly is loaded at first, so every lookup can come before, between and
after the two loads; the second assembly repeats a name of the first, which is what an order
of search is about. One class has a .cctor, which makes one object (MaxNested): of its own class,
so that the constructor meets itself. Two threads are at it at once, each in any
call. Only the class itself is asked for by name; the nested one is base of the generic
type.

For il2cpp_functions: two threads give one that initializes while another does, or has
skipped it; two blocks give a reallocation; the four missing pointers are an export that
is traced from, one that is called, a trace that is checked and one that is not. For
algorithms: ten bytes hold several overlapping attempts of a pattern of three, whose text
is up to eight characters, with room after them; `Borders` puts the border of two regions
where they are of unequal sizes; the
characters have one, two and four bytes and one or two units; four instructions
hold two of a kind with a return between, an ADR and an ADRP, on both sides of a hook of up
to two words; the
classes have an interface, an abstract class that implements it and a class that overrides
it, a property whose getter and setter are declared apart, an enum, and a generic method
with a constraint. Calls have no argument, one, or one of unknown type before another one,
which ends either in an exact match or with the program.

Deadlock checking is off for Il2CppFunctions, where a crashed process stops, for Algorithms,
which makes one step, for SafePtr, where an allocation waits for a free address
(a bound of the model), and for Threading, where the program ends. In Creation it is on, and a
program that is gone stutters (Gone).

Fairness. Threading has weak fairness of attaching, returning and detaching, which
says that the scheduler runs every thread and that the functions handed over
return. Nothing forces threads to be created, results to be asked for, or exceptions.
ThreadsFinish, that every created thread ends although destructors wait for other threads, rests on
it. Creation has weak fairness of each thread's own steps (Step), which says the same:
the scheduler runs every thread, and managed code returns. A thread that waits for
a static has no step, and is not forced to have one; nothing forces calls to begin or
assemblies to be loaded. CallsReturn, that every call returns although statics make threads
wait for each other inside class constructors, rests on it.

BestMatch and BestPlainMatch. The comment in shared/find.hpp promises "the best
match", which BestMatch takes as: no applicable overload with class parameters is nearer to
the arguments. It fails because interfaces are subtracted from distances. BestPlainMatch is
what remains true: it holds whenever the parameter classes of the chosen overload name no
interfaces, which PlainMatchIsBest proves (section 4).

## 4. Proofs

### SafePtr

`SafePtr_proofs` proves, for any number of threads, safe_ptrs, addresses and objects
and any set of operations in use, that SafePtr is well typed (TypeCorrect), that counts are
exact (CountsAreExact), that only a last holder frees (OnlyLastHolderFrees), that held
objects are valid and stable (HeldObjectsAreValid, HeldObjectsAreStable), and that SafePtr
implements SharedHold (Refinement). The assumptions: finitely many safe_ptrs, and Null is
none of the other values.

CountExact and FreedByLastHolder are not inductive: a thread that is about to free a block
acts on a count it read earlier. The inductive invariant IInv has three layers.
*Discipline*: what each label implies about the operation's variables, the safe_ptr it
reads is unchanged, and no two operations modify the same safe_ptr. *CountExact*: counts
equal the number of holders; it needs Discipline to know whose holder set a step changes.
*Ownership*: while a thread is about to free a block, the block is live, its safe_ptr is the
only holder, and no other operation has it in hand; a block just allocated is known to its
thread only; and a pending count refers to a valid block. It needs both: a
count of one means a single holder, and by Discipline nobody can copy from a safe_ptr that
is being cleared, so the count cannot go stale. (Reading a count of two and acting on it
*can* be stale; that is the leak described under Runs.)

SequentialNoLeak proves the leak's complement: one thread that never assigns
between safe_ptrs frees every wrapper. Its invariant adds that a thread past the check
without freeing is not the last holder.

### FindMethod

`FindMethod_proofs` proves, for every class hierarchy and any number of threads, that
FindMethod is well typed, that answers are fresh (AnswersAreFresh) and that cache entries
are final (CachesAreFinal). Two lemmas carry it. SearchIsComplete: a search that initializes
what it visits and stops at an exact match finds what a search of fully initialized classes
finds; it rests on the order of search being a well-order. KeysIdentify: queries with equal
keys have the same answer; names alone use -1 arguments, which no count equals. With them
"every entry answers each query with its key, and what a thread carries is its answer" is
inductive. The assumptions: queries name existing classes, argument counts are not
negative, methods are arrays, and no class is among its own parents (ParentsAssumption: in
every set of classes one has its parent outside).

Two more theorems say what the answer is.

* GroundedAreAnswered: find_method never reads a null type, nor the interfaces of null (AlwaysAnswers).
  It assumes GroundedArguments. *CliClasses*: Object has no parent and no interfaces,
  interfaces have no parents, and an enum is sealed, its base type is no interface, and
  neither the enum nor a supertype of it is assignable to the base type. *Grounded*: an argument derives
  from Object, or is an interface that extends none. A query has grounded arguments or
  only unknown ones (*NoneKnown*), which match exactly and are not weighed; for others the
  property fails (section 3).
* PlainMatchIsBest: no applicable overload is closer to the arguments than the one
  that is found (BestPlainMatch). It assumes GroundedArguments and TypedOverloads: a
  parameter's generic type is one of its method's own, and queries with generic arguments
  meet one overload only, because param_distance and `closer` see the parameter and not
  what is substituted for it. A
  class between the argument and the parameter's class is nearer when the latter names no
  interfaces (Nearer: assignability only grows downwards, so the climb to the nearer class
  stops first, and the interfaces in common, which are subtracted, are none). Distances add
  up (WeightSums), so the closer overload is lighter (CloserIsLighter), and find_method
  has either an exact match, which nothing is closer than, or the lightest (FoundIs).

The chain of a class, the fold in weight and the merge in common are recursive functions.
The library's theorems about those take operators as parameters, which the installed
provers cannot instantiate, so the proofs show by hand that such a function exists
(ChainExists; Recursion, for any step that uses values of smaller rank only) and what it
computes, each time from the least place at which it would be wrong. common is a
function of pairs of positions because the prover has no functions of two arguments.
TLC evaluates the assumptions of the modules on every run. The hypotheses of the two
theorems hold for the run's classes, methods and queries.

### Threading

TypeCorrect, FinishedAreDetached and StaysRegistered. A created thread starts with one
call of attached_invoke, which is the first to attach and the last to leave; so *Based*: as
long as there are calls on its stack the lowest is that one, and when there are none the
thread has not started or is detached. This gives NoneLeftAttached in every build.
RegisteredUntilExit needs is_thread_attached (ChecksAttached): then every other call on the
stack found the thread attached and does not detach it (*Layered*). Without it the
property is false, which the run threading_unity6 shows. The assumptions: the main
thread is no worker, and policies are those of std::launch.

### EventCallback

TypeCorrect, EachIsCalledOnce and SubscriptionsAreHeld, for both containers, any nesting of
invocations and any functions. TypeOK has *AtOnePlace*: what an invocation copied is at each
point made up of what it has called, each callback once, and what is left. The inductive
invariant adds *Accounted*: the copy is finite, and there were as many calls as callbacks
that are no longer left. A container that is not empty has a first
element, so the loop ends only when nothing is left. SubscriptionsAreHeld assumes
DistinctAddresses, that functions differ in their addresses; callbacks are compared by
them, and for virtual functions, which share theirs, the property fails.

### ListW

TypeCorrect, ErasedAreReleased, ChangesAreNoticed and the refinement of ManagedList, for any
values, capacity, indices and spans, if callers pass what the code checks (~Unchecked;
section 3 says what fails otherwise). The
invariant *Holds*: _items is an array of at most MaxCapacity values, _size does not exceed
it, and in a list of references everything from _size on is the default (*Clean*). Every
operation is shown to edit the sequence of the first _size elements as ManagedList does,
element by element (insertions, erasures, growth and copies as lemmas about arrays), and
the three others fall out of it. The assumptions: the default is a value, the maximum is
at least the first allocation of 4, and indices are so far from the width of a size that
their sums do not wrap.

### Il2CppFunctions

For any number of threads, whatever the game's binary lacks: TypeCorrect,
PublishedIsComplete and OnlyMissingIsFatal, from the invariant that a thread at step i of
initialize() has itself found what the steps before i give (*InProgress*), callers that
need it are past it only when `initialized` is set (*Returned*), which is set only with
everything found (PublishedComplete), roots are read in order (*RootsRead*), and
has_gc_funcs is set only with what it stands for (*GCFuncsFound*). Nothing is ever forgotten,
so what other threads do meanwhile does not matter, which is why there is no lock.
BlocksGoHome assumes ~Early, that mods allocate fixed blocks after initialize(); section 3
says what happens otherwise. SizesAreRestored assumes that at most one thread
calls `__allocate_unsafe`; with two, one can save the size the other has set, and the
object size of System.Object is changed for good. The assumptions: sizes are at least an
object's, and GarbageCollector_AllocateFixed is not among the pointers a binary can
lack, because it is the library's own wrapper of an export (FragileAssumption).

### Classes and Creation

Creation extends Classes; threads have stacks of calls. `Creation_proofs` proves TypeCorrect,
CctorIsNotReentered and ObjectsAreReady, whether or not log_classes runs alone. The invariant
says of each stack that a frame waits at the call the frame above stands for, about the
class that frame is about (*Shape*, *Link*); that the class constructors on a stack
are of distinct classes which are marked as started (*CctorsOK*); that objects in
hand are of started classes (*ObjectsOK*); that log_classes fills tables that exist
(*FillOK*); and that what is started is being run, is finished or has thrown (*Started*).

Its second half proves FirstIsFound (FirstMatch) and NothingIsMissed (FailsOnlyWhenUnloaded),
when log_classes runs while no other call does (LogsAlone; without it
both fail, section 3). On top of Creation's invariant, *Correct* says of each frame that
what it has found is the first match among the assemblies it has looked at, or null where
there was none when the lookup began; that a frame that waits for a callee began no later
(*WaitOK*), so that the callee's null will do for it; *DataOK* says the same of the cache and of
the statics, and *TablesOK* that tables of il2cpp's are complete or not there while anybody else
looks. The key lemma, Stays: assemblies are searched in the order they were loaded, so a
class that is found remains the first match.

The assumptions: assemblies hold names, and with a nested class the class around it; types
are built from types; classes with a .cctor are named.

### Algorithms

`Algorithms_proofs` proves each property of the run `algorithms` for every input its
constants allow: FirstMatchIsFound, SeveralMatchesAreSeen, StringsHaveAnOrder,
SumsKeepTheirOperands, HooksDoNotMatter, AddressesAddUp and CallsAlwaysFit. Algorithms makes
one step, so its invariant (Invariance) says only that an input is one that may be given
(*InputOK*) and a result is what the function returns for it (*ResultOK*). What there is to
prove is about the functions.

* Loops. Recursion gives a function of each recursion whose steps go to smaller ranks
  (the addresses, words or units that are left); what it returns is shown from a least (or a
  greatest) place at which it would be wrong (Least, Downwards, Upwards).
* The scan. An attempt that fails after it has begun to match goes on at the next
  address, so no address before the end at which the tokens match is passed by; one that
  does match returns it, unless the loop ends first, which it does not when there is room
  for the pattern's text after the match (roomy). The byte the pattern begins with after its
  wildcards moves with them (RestIs). find_unique_pattern is the same scan from after each
  match, so its matches are all matches in order; a mapped file is a fold over its
  regions, whose flag is only ever set.
* Searches. The words that are searched are, one by one, the instructions of the plain
  function, in the copy or in place (the function and the buffer do not overlap). A search
  returns at a word exactly if it is the n-th that counts and no more returns than allowed
  come before it; for getpcaddr's second search, which begins at the ADR or ADRP and is not
  hooked, that is the first use of the register; the words after the function's end decode
  to nothing that counts.
* Strings. Two different texts have a first character that differs, and
  its units differ where the other's are (TextsAssumption), so their encodings differ there:
  equality of strings is equality of texts. < goes by the first difference of the units,
  which makes it total and transitive.
* Calls. What is delivered has passed the type checks of the lookup or the call, and
  convertible types are assignable (assignability is transitive, along chains of
  parents and through interfaces, whose lists are closed); putting in generic arguments
  keeps that, since make_generic checked their constraints. In a vtable, the nearest class
  with a method in a slot is the nearest with a method of that name and those parameters,
  because those are what share the slot.

The assumptions, each named in the module that declares the constants: memory and patterns
are sequences (MemoriesAssumption, PatternsAssumption); characters have units in both
encodings, at least as many bytes as UTF-16 units, and none's UTF-16 begins another's, which is
so of Unicode (TextsAssumption); a hook fits in its function, and flamingo's
buffer is elsewhere (LayoutAssumption); the four about classes of section 2; and of the
calls (CallsAssumption) that what a C++ value refers to is of its type, C++ types
are no generic parameters, setters are given one value, and a vtable slot is one that the class that
declares it has or is past the end of the object's table. A negative slot, or one that only
a subclass of the declaring class has, names nothing; the code does not check for either.

### Only model-checked

* ThreadsFinish and CallsReturn, which are liveness under fairness, and anything about
  ENABLED.
* Deadlock freedom.
* The four violations, which are counterexamples and need no proof.

Everything else that a run checks is proved.

## 5. Plan

What is left, in this order:

1. The game's own Class_Init running a .cctor beside create_manual, once what il2cpp promises
   about it is stated by something in the repository.
2. Methods that hide others and explicit implementations, in VtablesAssumption and in what
   SlotsResolve says of them.
3. The caches of properties and fields, in FindMethod's manner.

## 6. Not modelled

Formatting, logging and dumps, and the names of types that are made for them; the capstone
disassembler, flamingo, the JVM and il2cpp themselves beyond what the code uses of them;
hook installation, whose state is flamingo's; how values are represented when they are
passed to managed code (boxing, instance pointers, by-reference storage); paths and
backtraces; ArrayW, ByRef and ValueW, which are pointers without state of their own; the
caches of properties and fields, which remember what metadata answers; vendored headers.
