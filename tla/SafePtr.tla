-------------------------------- MODULE SafePtr --------------------------------
(***************************************************************************)
(* safe_ptr and count_ptr (shared/safeptr.hpp, src/safeptr.cpp).           *)
(*                                                                         *)
(* A safe_ptr keeps a managed object reachable through a wrapper block     *)
(* that the garbage collector never frees by itself (gc_alloc_fixed).      *)
(* Copies share the block.  The number of copies is kept in a global map   *)
(* from block address to count; add_count, remove_count and get_count each *)
(* take its lock, so each is one step here, and clear() is several: it     *)
(* reads the count, frees the block if it believes to be the last copy,    *)
(* and gives its count back afterwards.                                    *)
(*                                                                         *)
(* Threads use safe_ptr objects as C++ requires: an object that one thread *)
(* modifies is not used by another one meanwhile.  Different objects,      *)
(* copies of each other included, are used freely by all threads.          *)
(***************************************************************************)
EXTENDS Integers, FiniteSets

CONSTANTS
  Threads,     \* threads of the program
  Handles,     \* storage for safe_ptr objects
  Blocks,      \* addresses gc_alloc_fixed can return (bounds the heap)
  Objects,     \* managed objects
  Operations,  \* the operations the program uses, a subset of AllOperations
  Null         \* nullptr

AllOperations == {"construct", "emplace", "copy", "assign", "move", "clear"}

ASSUME OperationsAssumption == Operations \subseteq AllOperations
ASSUME NullAssumption == Null \notin Handles \union Blocks \union Objects
ASSUME FiniteAssumption == IsFiniteSet(Handles)

VARIABLES
  ptr,             \* ptr[h]: count_ptr::ptr of safe_ptr h
  addr_ref_count,  \* count per block; 0 stands for "no entry in the map"
  live,            \* blocks between gc_alloc_fixed and gc_free_fixed
  inst,            \* inst[b]: wrapper::inst of block b
  alive,           \* objects the collector has not taken
  pc,              \* where the operation running on a thread stands
  dst,             \* the safe_ptr that operation modifies
  src,             \* the safe_ptr that operation reads, if any
  arg,             \* the object to be wrapped once dst is empty
  blk              \* the block about to be stored in dst

vars == <<ptr, addr_ref_count, live, inst, alive, pc, dst, src, arg, blk>>

operation == <<pc, dst, src, arg, blk>>

--------------------------------------------------------------------------------
(* The reference count map of src/safeptr.cpp. *)

add_count(b) ==
  addr_ref_count' = [addr_ref_count EXCEPT ![b] = @ + 1]

(* Deviation: a count is given back twice. *)
remove_countTwice(b) ==
  addr_ref_count' = [addr_ref_count EXCEPT ![b] = @ - 2]

remove_count(b) ==
  addr_ref_count' = [addr_ref_count EXCEPT ![b] = IF @ > 1 THEN @ - 1 ELSE 0]

get_count(b) == addr_ref_count[b]

--------------------------------------------------------------------------------
PC == {"idle", "free", "drop", "allocate", "assign", "count"}

TypeOK ==
  /\ ptr \in [Handles -> Blocks \union {Null}]
  /\ addr_ref_count \in [Blocks -> Nat]
  /\ live \subseteq Blocks
  /\ inst \in [Blocks -> Objects \union {Null}]
  /\ alive \subseteq Objects
  /\ pc \in [Threads -> PC]
  /\ dst \in [Threads -> Handles \union {Null}]
  /\ src \in [Threads -> Handles \union {Null}]
  /\ arg \in [Threads -> Objects \union {Null}]
  /\ blk \in [Threads -> Blocks \union {Null}]

Init ==
  /\ ptr = [h \in Handles |-> Null]
  /\ addr_ref_count = [b \in Blocks |-> 0]
  /\ live = {}
  /\ inst = [b \in Blocks |-> Null]
  /\ alive = Objects
  /\ pc = [t \in Threads |-> "idle"]
  /\ dst = [t \in Threads |-> Null]
  /\ src = [t \in Threads |-> Null]
  /\ arg = [t \in Threads |-> Null]
  /\ blk = [t \in Threads |-> Null]

(* No thread is modifying h, so h may be read ... *)
Readable(h) == \A u \in Threads : dst[u] # h

(* ... and no thread is reading it either, so h may be modified. *)
Writable(h) == Readable(h) /\ \A u \in Threads : src[u] # h

(* The operation of thread t goes on at label l, or is over. *)
Goto(t, l) == pc' = [pc EXCEPT ![t] = l]

Finish(t) ==
  /\ pc' = [pc EXCEPT ![t] = "idle"]
  /\ dst' = [dst EXCEPT ![t] = Null]
  /\ src' = [src EXCEPT ![t] = Null]
  /\ arg' = [arg EXCEPT ![t] = Null]
  /\ blk' = [blk EXCEPT ![t] = Null]

--------------------------------------------------------------------------------
(* Operations of a thread. *)

(* safe_ptr(T const&): the member initializer allocates a wrapper first. *)
Construct(t, h, x) ==
  /\ "construct" \in Operations
  /\ pc[t] = "idle" /\ Writable(h) /\ ptr[h] = Null
  /\ Goto(t, "allocate")
  /\ dst' = [dst EXCEPT ![t] = h]
  /\ arg' = [arg EXCEPT ![t] = x]
  /\ UNCHANGED <<ptr, addr_ref_count, live, inst, alive, src, blk>>

(* Deviation: the default copy constructor, which counts nothing. *)
CopyConstructUncounted(t, h, s) ==
  /\ "copy" \in Operations
  /\ pc[t] = "idle" /\ Writable(h) /\ Readable(s)
  /\ ptr[h] = Null /\ ptr[s] # Null
  /\ ptr' = [ptr EXCEPT ![h] = ptr[s]]
  /\ UNCHANGED <<addr_ref_count, live, inst, alive, operation>>

(* The copy constructor: ptr(other.ptr), then add_count. *)
CopyConstruct(t, h, s) ==
  /\ "copy" \in Operations
  /\ pc[t] = "idle" /\ Writable(h) /\ Readable(s)
  /\ ptr[h] = Null /\ ptr[s] # Null
  /\ ptr' = [ptr EXCEPT ![h] = ptr[s]]
  /\ add_count(ptr[s])
  /\ UNCHANGED <<live, inst, alive, operation>>

(* Deviation: the source of a move keeps its pointer. *)
MoveConstructKeepsSource(t, h, s) ==
  /\ "move" \in Operations
  /\ pc[t] = "idle" /\ Writable(h) /\ Writable(s)
  /\ ptr[h] = Null /\ ptr[s] # Null
  /\ ptr' = [ptr EXCEPT ![h] = ptr[s]]
  /\ UNCHANGED <<addr_ref_count, live, inst, alive, operation>>

(* The move constructor: steals the pointer, counts stay as they are. *)
MoveConstruct(t, h, s) ==
  /\ "move" \in Operations
  /\ pc[t] = "idle" /\ Writable(h) /\ Writable(s)
  /\ ptr[h] = Null /\ ptr[s] # Null
  /\ ptr' = [ptr EXCEPT ![h] = ptr[s], ![s] = Null]
  /\ UNCHANGED <<addr_ref_count, live, inst, alive, operation>>

(* Deviation: the count is compared with the wrong number. *)
CheckCountEarly(t, h) ==
  /\ pc[t] = "idle" /\ Writable(h) /\ ptr[h] # Null
  /\ Goto(t, IF get_count(ptr[h]) <= 2 THEN "free" ELSE "drop")
  /\ dst' = [dst EXCEPT ![t] = h]

(* clear() and the destructor, and clear() as the first half of emplace:   *)
(* the count is read under the lock and acted upon after it is released.   *)
CheckCount(t, h) ==
  /\ pc[t] = "idle" /\ Writable(h) /\ ptr[h] # Null
  /\ Goto(t, IF get_count(ptr[h]) <= 1 THEN "free" ELSE "drop")
  /\ dst' = [dst EXCEPT ![t] = h]

Clear(t, h) ==
  /\ "clear" \in Operations
  /\ CheckCount(t, h)
  /\ UNCHANGED <<ptr, addr_ref_count, live, inst, alive, src, arg, blk>>

Emplace(t, h, x) ==
  /\ "emplace" \in Operations
  /\ CheckCount(t, h)
  /\ arg' = [arg EXCEPT ![t] = x]
  /\ UNCHANGED <<ptr, addr_ref_count, live, inst, alive, src, blk>>

(* gc_free_fixed(handle.get()) *)
FreeWrapper(t) ==
  /\ pc[t] = "free"
  /\ live' = live \ {ptr[dst[t]]}
  /\ Goto(t, "drop")
  /\ UNCHANGED <<ptr, addr_ref_count, inst, alive, dst, src, arg, blk>>

(* handle = nullptr; an emplace goes on to allocate the new wrapper. *)
DropHandle(t) ==
  /\ pc[t] = "drop"
  /\ remove_count(ptr[dst[t]])
  /\ ptr' = [ptr EXCEPT ![dst[t]] = Null]
  /\ IF arg[t] = Null
       THEN Finish(t)
       ELSE Goto(t, "allocate") /\ UNCHANGED <<dst, src, arg, blk>>
  /\ UNCHANGED <<live, inst, alive>>

(* wrapper::allocate: any free address, the object stored in the block. *)
Allocate(t, b) ==
  /\ pc[t] = "allocate"
  /\ b \notin live
  /\ live' = live \union {b}
  /\ inst' = [inst EXCEPT ![b] = arg[t]]
  /\ blk' = [blk EXCEPT ![t] = b]
  /\ Goto(t, "count")
  /\ UNCHANGED <<ptr, addr_ref_count, alive, dst, src, arg>>

(* operator=(safe_ptr const&): count_ptr::emplace(other.ptr), which        *)
(* returns at once when both hold the same pointer.                        *)
CopyAssign(t, h, s) ==
  /\ "assign" \in Operations
  /\ pc[t] = "idle" /\ Writable(h) /\ Readable(s)
  /\ ptr[h] # ptr[s]
  /\ Goto(t, IF ptr[h] = Null THEN "count" ELSE "assign")
  /\ dst' = [dst EXCEPT ![t] = h]
  /\ src' = [src EXCEPT ![t] = s]
  /\ blk' = [blk EXCEPT ![t] = ptr[s]]
  /\ UNCHANGED <<ptr, addr_ref_count, live, inst, alive, arg>>

(* emplace gives the old block's count back ... *)
RemoveOld(t) ==
  /\ pc[t] = "assign"
  /\ remove_count(ptr[dst[t]])
  /\ IF blk[t] = Null
       THEN ptr' = [ptr EXCEPT ![dst[t]] = Null] /\ Finish(t)
       ELSE Goto(t, "count") /\ UNCHANGED <<ptr, dst, src, arg, blk>>
  /\ UNCHANGED <<live, inst, alive>>

(* ... stores the new pointer and counts it. *)
AddNew(t) ==
  /\ pc[t] = "count"
  /\ add_count(blk[t])
  /\ ptr' = [ptr EXCEPT ![dst[t]] = blk[t]]
  /\ Finish(t)
  /\ UNCHANGED <<live, inst, alive>>

--------------------------------------------------------------------------------
(* The collector takes an object that is in no fixed block and on no       *)
(* thread's stack.                                                         *)
Collect(x) ==
  /\ x \in alive
  /\ \A b \in live : inst[b] # x
  /\ \A t \in Threads : arg[t] # x
  /\ alive' = alive \ {x}
  /\ UNCHANGED <<ptr, addr_ref_count, live, inst, operation>>

Begin(t) ==
  \/ \E h \in Handles, x \in alive : Construct(t, h, x) \/ Emplace(t, h, x)
  \/ \E h, s \in Handles : h # s /\ (CopyConstruct(t, h, s) \/ MoveConstruct(t, h, s))
  \/ \E h, s \in Handles : CopyAssign(t, h, s)
  \/ \E h \in Handles : Clear(t, h)

Continue(t) ==
  \/ FreeWrapper(t)
  \/ DropHandle(t)
  \/ \E b \in Blocks : Allocate(t, b)
  \/ RemoveOld(t)
  \/ AddNew(t)

Next ==
  \/ \E t \in Threads : Begin(t) \/ Continue(t)
  \/ \E x \in Objects : Collect(x)

Spec == Init /\ [][Next]_vars

(* Properties. *)

(* The safe_ptrs whose pointer to b is counted: all that point to b, except *)
(* one whose pointer is being replaced and was already uncounted.          *)
Holders(b) ==
  {h \in Handles : ptr[h] = b /\ \A t \in Threads : ~(dst[t] = h /\ pc[t] = "count")}

(* The count of a block is the number of safe_ptrs that point to it, also  *)
(* between the steps of concurrent clears, copies and assignments.         *)
CountExact == \A b \in Blocks : addr_ref_count[b] = Cardinality(Holders(b))

(* The count that clear() read is stale when it acts on it, but a count of *)
(* one cannot go stale: when a thread is about to free a block, the block  *)
(* is still allocated and the thread's safe_ptr is still the only one that *)
(* points to it.                                                           *)
FreedByLastHolder ==
  \A t \in Threads : pc[t] = "free" =>
    /\ ptr[dst[t]] \in live
    /\ Holders(ptr[dst[t]]) = {dst[t]}

(* A safe_ptr keeps its object valid for its entire lifetime: whatever the *)
(* other threads free, a safe_ptr at rest points to an allocated wrapper   *)
(* whose object has not been collected.                                    *)
HeldIsValid ==
  \A h \in Handles : (Readable(h) /\ ptr[h] # Null) =>
    /\ ptr[h] \in live
    /\ inst[ptr[h]] \in alive

(* Copies share the wrapper: no step gives the wrapper of a safe_ptr that  *)
(* is not being modified to another object, even though addresses of freed *)
(* wrappers are used again.                                                *)
HeldObjectStable ==
  [][\A h \in Handles :
       (Readable(h) /\ ptr[h] # Null /\ ptr'[h] = ptr[h])
         => inst'[ptr[h]] = inst[ptr[h]]]_vars

(* A wrapper that no safe_ptr points to has been freed ("if our internal   *)
(* handle has 1 instance, we need to clean up the instance it points to"), *)
(* so that its object is collectible after the last release.               *)
NoLeak ==
  \A b \in live : Holders(b) # {} \/ \E t \in Threads : blk[t] = b

(* What safe_ptr h holds, as its users see it. *)
held(h) == IF Readable(h) /\ ptr[h] # Null THEN inst[ptr[h]] ELSE Null

Hold == INSTANCE SharedHold WITH
  holds <- [h \in Handles |-> held(h)], alive <- alive

(* safe_ptr implements its promise. *)
ImplementsSharedHold == Hold!Spec

================================================================================
