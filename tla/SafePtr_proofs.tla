---------------------------- MODULE SafePtr_proofs ----------------------------
(***************************************************************************)
(* Proofs about SafePtr, for any number of threads, safe_ptrs, blocks and  *)
(* objects, and any set of operations the program uses.                    *)
(*                                                                         *)
(* The inductive invariant has three layers.  The first one, Discipline,   *)
(* says what a running operation has set up and that nobody interferes     *)
(* with the safe_ptrs it uses.  The second, CountExact, needs it to know   *)
(* which step changes the holders of which block.  The third, Ownership,   *)
(* needs both: a count of one means a single holder, and then no           *)
(* other thread can come by that block.                                    *)
(***************************************************************************)
EXTENDS SafePtr, FiniteSetTheorems, TLAPS

(* What the operation running on thread t has set up. *)
OperationOK(t) ==
  /\ pc[t] = "idle" <=> dst[t] = Null
  /\ pc[t] \in {"free", "drop", "assign"} => ptr[dst[t]] # Null
  /\ pc[t] = "allocate" => ptr[dst[t]] = Null /\ arg[t] # Null
  /\ pc[t] = "count" => blk[t] # Null
  /\ blk[t] # Null => pc[t] \in {"assign", "count"}
  /\ src[t] # Null => pc[t] \in {"assign", "count"}
  /\ pc[t] = "assign" => src[t] # Null
  /\ arg[t] # Null => arg[t] \in alive

(* The safe_ptr an operation reads stays as it was read, and no two        *)
(* operations modify the same safe_ptr.                                    *)
SourceOK(t) == src[t] # Null => Readable(src[t]) /\ ptr[src[t]] = blk[t]

Exclusive == \A t, u \in Threads : (dst[t] = dst[u] /\ dst[t] # Null) => t = u

Discipline ==
  /\ TypeOK
  /\ \A t \in Threads : OperationOK(t) /\ SourceOK(t)
  /\ Exclusive

(* Who can reach a block: a thread about to free one is alone with it, a   *)
(* fresh block is reached by its allocating thread only, and what a        *)
(* safe_ptr at rest or a pending count points to is valid.                 *)
FreeOK(t) ==
  pc[t] = "free" =>
    /\ ptr[dst[t]] \in live
    /\ Holders(ptr[dst[t]]) = {dst[t]}
    /\ \A u \in Threads : blk[u] # ptr[dst[t]]

FreshOK(t) ==
  (pc[t] = "count" /\ src[t] = Null) =>
    /\ \A h \in Handles : Readable(h) => ptr[h] # blk[t]
    /\ \A u \in Threads : u # t => blk[u] # blk[t]

PendingOK(t) == pc[t] = "count" => blk[t] \in live /\ inst[blk[t]] \in alive

Ownership ==
  /\ \A t \in Threads : FreeOK(t) /\ FreshOK(t) /\ PendingOK(t)
  /\ HeldIsValid

IInv == Discipline /\ CountExact /\ Ownership

(* Discipline is inductive on its own. *)
LEMMA TypeStep == TypeOK /\ Discipline /\ [Next]_vars => TypeOK'
  <1> SUFFICES ASSUME TypeOK, Discipline, [Next]_vars PROVE TypeOK'
    OBVIOUS
  <1> USE DEF TypeOK, PC, Discipline, OperationOK, Goto
  <1>1. ASSUME NEW t \in Threads, NEW h \in Handles, NEW x \in alive, Construct(t, h, x)
       PROVE  TypeOK'
    BY <1>1, NullAssumption DEF Construct
  <1>2. ASSUME NEW t \in Threads, NEW h \in Handles, NEW x \in alive, Emplace(t, h, x)
       PROVE  TypeOK'
    BY <1>2, NullAssumption DEF Emplace, CheckCount
  <1>3. ASSUME NEW t \in Threads, NEW h \in Handles, NEW s \in Handles, h # s, CopyConstruct(t, h, s)
       PROVE  TypeOK'
    BY <1>3, NullAssumption DEF CopyConstruct, operation, add_count
  <1>4. ASSUME NEW t \in Threads, NEW h \in Handles, NEW s \in Handles, h # s, MoveConstruct(t, h, s)
       PROVE  TypeOK'
    BY <1>4, NullAssumption DEF MoveConstruct, operation
  <1>5. ASSUME NEW t \in Threads, NEW h \in Handles, NEW s \in Handles, CopyAssign(t, h, s)
       PROVE  TypeOK'
    BY <1>5, NullAssumption DEF CopyAssign
  <1>6. ASSUME NEW t \in Threads, NEW h \in Handles, Clear(t, h)
       PROVE  TypeOK'
    BY <1>6, NullAssumption DEF Clear, CheckCount
  <1>7. ASSUME NEW t \in Threads, FreeWrapper(t)
       PROVE  TypeOK'
    BY <1>7, NullAssumption DEF FreeWrapper
  <1>8. ASSUME NEW t \in Threads, DropHandle(t)
       PROVE  TypeOK'
    BY <1>8, NullAssumption DEF DropHandle, Finish, remove_count
  <1>9. ASSUME NEW t \in Threads, NEW b \in Blocks, Allocate(t, b)
       PROVE  TypeOK'
    BY <1>9, NullAssumption DEF Allocate
  <1>10. ASSUME NEW t \in Threads, RemoveOld(t)
       PROVE  TypeOK'
    BY <1>10, NullAssumption DEF RemoveOld, Finish, remove_count
  <1>11. ASSUME NEW t \in Threads, AddNew(t)
       PROVE  TypeOK'
    BY <1>11, NullAssumption DEF AddNew, Finish, add_count
  <1>12. ASSUME NEW x \in Objects, Collect(x)
       PROVE  TypeOK'
    BY <1>12, NullAssumption DEF Collect, operation
  <1>13. CASE UNCHANGED vars
    BY <1>13 DEF vars
  <1> QED
    BY <1>1, <1>2, <1>3, <1>4, <1>5, <1>6, <1>7, <1>8, <1>9, <1>10, <1>11, <1>12, <1>13 DEF Next, Begin, Continue

(* Every step keeps the discipline of operations, which needs nothing else. *)
LEMMA DisciplineStep == Discipline /\ [Next]_vars => Discipline'
  <1> SUFFICES ASSUME Discipline, [Next]_vars PROVE Discipline'
    OBVIOUS
  <1>0. TypeOK /\ TypeOK'
    BY TypeStep DEF Discipline
  <1> USE DEF Discipline, OperationOK, SourceOK, Exclusive, Readable, Writable, Goto
  <1>1. ASSUME NEW t \in Threads, NEW h \in Handles, NEW x \in alive, Construct(t, h, x)
       PROVE  Discipline'
    BY <1>0, <1>1, NullAssumption DEF Construct, TypeOK, PC
  <1>2. ASSUME NEW t \in Threads, NEW h \in Handles, NEW x \in alive, Emplace(t, h, x)
       PROVE  Discipline'
    BY <1>0, <1>2, NullAssumption DEF Emplace, CheckCount, TypeOK, PC
  <1>3. ASSUME NEW t \in Threads, NEW h \in Handles, NEW s \in Handles, h # s, CopyConstruct(t, h, s)
       PROVE  Discipline'
    BY <1>0, <1>3, NullAssumption DEF CopyConstruct, operation, TypeOK, PC
  <1>4. ASSUME NEW t \in Threads, NEW h \in Handles, NEW s \in Handles, h # s, MoveConstruct(t, h, s)
       PROVE  Discipline'
    BY <1>0, <1>4, NullAssumption DEF MoveConstruct, operation, TypeOK, PC
  <1>5. ASSUME NEW t \in Threads, NEW h \in Handles, NEW s \in Handles, CopyAssign(t, h, s)
       PROVE  Discipline'
    BY <1>0, <1>5, NullAssumption DEF CopyAssign, TypeOK, PC
  <1>6. ASSUME NEW t \in Threads, NEW h \in Handles, Clear(t, h)
       PROVE  Discipline'
    BY <1>0, <1>6, NullAssumption DEF Clear, CheckCount, TypeOK, PC
  <1>7. ASSUME NEW t \in Threads, FreeWrapper(t)
       PROVE  Discipline'
    BY <1>0, <1>7, NullAssumption DEF FreeWrapper, TypeOK, PC
  <1>8. ASSUME NEW t \in Threads, DropHandle(t)
       PROVE  Discipline'
    BY <1>0, <1>8, NullAssumption DEF DropHandle, Finish, remove_count, TypeOK, PC
  <1>9. ASSUME NEW t \in Threads, NEW b \in Blocks, Allocate(t, b)
       PROVE  Discipline'
    BY <1>0, <1>9, NullAssumption DEF Allocate, TypeOK, PC
  <1>10. ASSUME NEW t \in Threads, RemoveOld(t)
       PROVE  Discipline'
    BY <1>0, <1>10, NullAssumption DEF RemoveOld, Finish, remove_count, TypeOK, PC
  <1>11. ASSUME NEW t \in Threads, AddNew(t)
       PROVE  Discipline'
    BY <1>0, <1>11, NullAssumption DEF AddNew, Finish, add_count, TypeOK, PC
  <1>12. ASSUME NEW x \in Objects, Collect(x)
       PROVE  Discipline'
    BY <1>0, <1>12, NullAssumption DEF Collect, operation, TypeOK, PC
  <1>13. CASE UNCHANGED vars
    BY <1>0, <1>13 DEF vars
  <1> QED
    BY <1>1, <1>2, <1>3, <1>4, <1>5, <1>6, <1>7, <1>8, <1>9, <1>10, <1>11, <1>12, <1>13 DEF Next, Begin, Continue

(* The counts follow the holders: an action that keeps the holders of all  *)
(* blocks keeps the counts, one that moves a holder counts it.             *)
LEMMA HoldersFinite ==
  ASSUME NEW b \in Blocks
  PROVE  IsFiniteSet(Holders(b)) /\ Cardinality(Holders(b)) \in Nat
  <1>1. Holders(b) \in SUBSET Handles
    BY DEF Holders
  <1> QED
    BY <1>1, FiniteAssumption, FS_Subset, FS_CardinalityType

(* Counts stay exact when neither they nor the holders change. *)
LEMMA SameHolders ==
  ASSUME CountExact, addr_ref_count' = addr_ref_count,
         \A b \in Blocks : Holders(b)' = Holders(b)
  PROVE  CountExact'
  BY DEF CountExact

(* Only the holders of block a change: safe_ptr h joins them. *)
LEMMA HolderJoins ==
  ASSUME TypeOK, CountExact, NEW a \in Blocks, NEW h \in Handles, add_count(a),
         h \notin Holders(a), Holders(a)' = Holders(a) \union {h},
         \A b \in Blocks \ {a} : Holders(b)' = Holders(b)
  PROVE  CountExact'
  <1>1. Cardinality(Holders(a)') = Cardinality(Holders(a)) + 1
    BY HoldersFinite, FS_AddElement
  <1> QED
    BY <1>1 DEF CountExact, add_count, TypeOK

(* Only the holders of block a change: safe_ptr h leaves them. *)
LEMMA HolderLeaves ==
  ASSUME TypeOK, CountExact, NEW a \in Blocks, NEW h \in Handles, remove_count(a),
         h \in Holders(a), Holders(a)' = Holders(a) \ {h},
         \A b \in Blocks \ {a} : Holders(b)' = Holders(b)
  PROVE  CountExact'
  <1>1. Cardinality(Holders(a)') = Cardinality(Holders(a)) - 1
    BY HoldersFinite, FS_RemoveElement
  <1>2. Cardinality(Holders(a)) # 0
    BY HoldersFinite, FS_EmptySet
  <1>3. Cardinality(Holders(a)) \in Nat
    BY HoldersFinite
  <1>4. IF addr_ref_count[a] > 1
          THEN addr_ref_count[a] - 1 = Cardinality(Holders(a)')
          ELSE 0 = Cardinality(Holders(a)')
    BY <1>1, <1>2, <1>3 DEF CountExact
  <1> QED
    BY <1>4 DEF CountExact, remove_count, TypeOK

(* Moving the pointer of safe_ptr s to safe_ptr h trades one holder for    *)
(* another.                                                                *)
LEMMA HolderMoves ==
  ASSUME TypeOK, CountExact, NEW a \in Blocks, NEW h \in Handles, NEW s \in Handles,
         addr_ref_count' = addr_ref_count, s \in Holders(a), h \notin Holders(a),
         Holders(a)' = (Holders(a) \ {s}) \union {h},
         \A b \in Blocks \ {a} : Holders(b)' = Holders(b)
  PROVE  CountExact'
  <1>1. /\ IsFiniteSet(Holders(a) \ {s})
        /\ Cardinality(Holders(a) \ {s}) = Cardinality(Holders(a)) - 1
    BY HoldersFinite, FS_RemoveElement
  <1>2. Cardinality(Holders(a)') = Cardinality(Holders(a) \ {s}) + 1
    BY <1>1, FS_AddElement
  <1>3. Cardinality(Holders(a)') = Cardinality(Holders(a))
    BY <1>1, <1>2, HoldersFinite
  <1> QED
    BY <1>3 DEF CountExact

(* Every step keeps counts exact: it changes the holders of a block as it  *)
(* changes the count.                                                      *)
LEMMA CountStep == Discipline /\ CountExact /\ [Next]_vars => CountExact'
  <1> SUFFICES ASSUME Discipline, CountExact, [Next]_vars PROVE CountExact'
    OBVIOUS
  <1>0. TypeOK
    BY DEF Discipline
  <1> USE DEF Readable, Writable, Goto
  <1>1. ASSUME NEW t \in Threads, NEW h \in Handles, NEW x \in alive, Construct(t, h, x)
       PROVE  CountExact'
    <2>1. \A c \in Blocks : Holders(c)' = Holders(c)
      BY <1>0, <1>1, NullAssumption DEF Construct, Holders, Discipline, OperationOK, SourceOK, Exclusive, TypeOK, PC
    <2>2. addr_ref_count' = addr_ref_count
      BY <1>1 DEF Construct
    <2> QED
      BY <2>1, <2>2, SameHolders
  <1>2. ASSUME NEW t \in Threads, NEW h \in Handles, NEW x \in alive, Emplace(t, h, x)
       PROVE  CountExact'
    <2>1. \A c \in Blocks : Holders(c)' = Holders(c)
      BY <1>0, <1>2, NullAssumption DEF Emplace, CheckCount, Holders, Discipline, OperationOK, SourceOK, Exclusive, TypeOK, PC
    <2>2. addr_ref_count' = addr_ref_count
      BY <1>2 DEF Emplace, CheckCount
    <2> QED
      BY <2>1, <2>2, SameHolders
  <1>3. ASSUME NEW t \in Threads, NEW h \in Handles, NEW s \in Handles, h # s, CopyConstruct(t, h, s)
       PROVE  CountExact'
    <2>1. PICK a \in Blocks : a = ptr[s]
      BY <1>0, <1>3, NullAssumption DEF CopyConstruct, operation, Discipline, OperationOK, SourceOK, Exclusive, TypeOK, PC
    <2>2. \A c \in Blocks \ {a} : Holders(c)' = Holders(c)
      BY <1>0, <1>3, <2>1, NullAssumption DEF CopyConstruct, operation, Holders, Discipline, OperationOK, SourceOK, Exclusive, TypeOK, PC
    <2>3. h \notin Holders(a) /\ Holders(a)' = Holders(a) \union {h}
      BY <1>0, <1>3, <2>1, NullAssumption DEF CopyConstruct, operation, Holders, Discipline, OperationOK, SourceOK, Exclusive, TypeOK, PC
    <2>4. add_count(a)
      BY <1>3, <2>1 DEF CopyConstruct, operation
    <2> QED
      BY <1>0, <2>1, <2>2, <2>3, <2>4, HolderJoins
  <1>4. ASSUME NEW t \in Threads, NEW h \in Handles, NEW s \in Handles, h # s, MoveConstruct(t, h, s)
       PROVE  CountExact'
    <2>1. PICK a \in Blocks : a = ptr[s]
      BY <1>0, <1>4, NullAssumption DEF MoveConstruct, operation, Discipline, OperationOK, SourceOK, Exclusive, TypeOK, PC
    <2>2. \A c \in Blocks \ {a} : Holders(c)' = Holders(c)
      BY <1>0, <1>4, <2>1, NullAssumption DEF MoveConstruct, operation, Holders, Discipline, OperationOK, SourceOK, Exclusive, TypeOK, PC
    <2>3. /\ s \in Holders(a) /\ h \notin Holders(a)
          /\ Holders(a)' = (Holders(a) \ {s}) \union {h}
      BY <1>0, <1>4, <2>1, NullAssumption DEF MoveConstruct, operation, Holders, Discipline, OperationOK, SourceOK, Exclusive, TypeOK, PC
    <2>4. addr_ref_count' = addr_ref_count
      BY <1>4 DEF MoveConstruct, operation
    <2> QED
      BY <1>0, <2>1, <2>2, <2>3, <2>4, HolderMoves
  <1>5. ASSUME NEW t \in Threads, NEW h \in Handles, NEW s \in Handles, CopyAssign(t, h, s)
       PROVE  CountExact'
    <2>1. \A c \in Blocks : Holders(c)' = Holders(c)
      BY <1>0, <1>5, NullAssumption DEF CopyAssign, Holders, Discipline, OperationOK, SourceOK, Exclusive, TypeOK, PC
    <2>2. addr_ref_count' = addr_ref_count
      BY <1>5 DEF CopyAssign
    <2> QED
      BY <2>1, <2>2, SameHolders
  <1>6. ASSUME NEW t \in Threads, NEW h \in Handles, Clear(t, h)
       PROVE  CountExact'
    <2>1. \A c \in Blocks : Holders(c)' = Holders(c)
      BY <1>0, <1>6, NullAssumption DEF Clear, CheckCount, Holders, Discipline, OperationOK, SourceOK, Exclusive, TypeOK, PC
    <2>2. addr_ref_count' = addr_ref_count
      BY <1>6 DEF Clear, CheckCount
    <2> QED
      BY <2>1, <2>2, SameHolders
  <1>7. ASSUME NEW t \in Threads, FreeWrapper(t)
       PROVE  CountExact'
    <2>1. \A c \in Blocks : Holders(c)' = Holders(c)
      BY <1>0, <1>7, NullAssumption DEF FreeWrapper, Holders, Discipline, OperationOK, SourceOK, Exclusive, TypeOK, PC
    <2>2. addr_ref_count' = addr_ref_count
      BY <1>7 DEF FreeWrapper
    <2> QED
      BY <2>1, <2>2, SameHolders
  <1>8. ASSUME NEW t \in Threads, DropHandle(t)
       PROVE  CountExact'
    <2>1. PICK a \in Blocks, h \in Handles : a = ptr[dst[t]] /\ h = dst[t]
      BY <1>0, <1>8, NullAssumption DEF DropHandle, Finish, Discipline, OperationOK, SourceOK, Exclusive, TypeOK, PC
    <2>2. \A c \in Blocks \ {a} : Holders(c)' = Holders(c)
      BY <1>0, <1>8, <2>1, NullAssumption DEF DropHandle, Finish, Holders, Discipline, OperationOK, SourceOK, Exclusive, TypeOK, PC
    <2>3. h \in Holders(a) /\ Holders(a)' = Holders(a) \ {h}
      BY <1>0, <1>8, <2>1, NullAssumption DEF DropHandle, Finish, Holders, Discipline, OperationOK, SourceOK, Exclusive, TypeOK, PC
    <2>4. remove_count(a)
      BY <1>8, <2>1 DEF DropHandle, Finish
    <2> QED
      BY <1>0, <2>1, <2>2, <2>3, <2>4, HolderLeaves
  <1>9. ASSUME NEW t \in Threads, NEW b \in Blocks, Allocate(t, b)
       PROVE  CountExact'
    <2>1. \A c \in Blocks : Holders(c)' = Holders(c)
      BY <1>0, <1>9, NullAssumption DEF Allocate, Holders, Discipline, OperationOK, SourceOK, Exclusive, TypeOK, PC
    <2>2. addr_ref_count' = addr_ref_count
      BY <1>9 DEF Allocate
    <2> QED
      BY <2>1, <2>2, SameHolders
  <1>10. ASSUME NEW t \in Threads, RemoveOld(t)
       PROVE  CountExact'
    <2>1. PICK a \in Blocks, h \in Handles : a = ptr[dst[t]] /\ h = dst[t]
      BY <1>0, <1>10, NullAssumption DEF RemoveOld, Finish, Discipline, OperationOK, SourceOK, Exclusive, TypeOK, PC
    <2>2. \A c \in Blocks \ {a} : Holders(c)' = Holders(c)
      BY <1>0, <1>10, <2>1, NullAssumption DEF RemoveOld, Finish, Holders, Discipline, OperationOK, SourceOK, Exclusive, TypeOK, PC
    <2>3. h \in Holders(a) /\ Holders(a)' = Holders(a) \ {h}
      BY <1>0, <1>10, <2>1, NullAssumption DEF RemoveOld, Finish, Holders, Discipline, OperationOK, SourceOK, Exclusive, TypeOK, PC
    <2>4. remove_count(a)
      BY <1>10, <2>1 DEF RemoveOld, Finish
    <2> QED
      BY <1>0, <2>1, <2>2, <2>3, <2>4, HolderLeaves
  <1>11. ASSUME NEW t \in Threads, AddNew(t)
       PROVE  CountExact'
    <2>1. PICK a \in Blocks, h \in Handles : a = blk[t] /\ h = dst[t]
      BY <1>0, <1>11, NullAssumption DEF AddNew, Finish, Discipline, OperationOK, SourceOK, Exclusive, TypeOK, PC
    <2>2. \A c \in Blocks \ {a} : Holders(c)' = Holders(c)
      BY <1>0, <1>11, <2>1, NullAssumption DEF AddNew, Finish, Holders, Discipline, OperationOK, SourceOK, Exclusive, TypeOK, PC
    <2>3. h \notin Holders(a) /\ Holders(a)' = Holders(a) \union {h}
      BY <1>0, <1>11, <2>1, NullAssumption DEF AddNew, Finish, Holders, Discipline, OperationOK, SourceOK, Exclusive, TypeOK, PC
    <2>4. add_count(a)
      BY <1>11, <2>1 DEF AddNew, Finish
    <2> QED
      BY <1>0, <2>1, <2>2, <2>3, <2>4, HolderJoins
  <1>12. ASSUME NEW x \in Objects, Collect(x)
       PROVE  CountExact'
    <2>1. \A c \in Blocks : Holders(c)' = Holders(c)
      BY <1>0, <1>12, NullAssumption DEF Collect, operation, Holders, Discipline, OperationOK, SourceOK, Exclusive, TypeOK, PC
    <2>2. addr_ref_count' = addr_ref_count
      BY <1>12 DEF Collect, operation
    <2> QED
      BY <2>1, <2>2, SameHolders
  <1>13. CASE UNCHANGED vars
    <2>1. \A c \in Blocks : Holders(c)' = Holders(c)
      BY <1>13 DEF vars, Holders
    <2> QED
      BY <1>13, <2>1, SameHolders DEF vars
  <1> QED
    BY <1>1, <1>2, <1>3, <1>4, <1>5, <1>6, <1>7, <1>8, <1>9, <1>10, <1>11, <1>12, <1>13 DEF Next, Begin, Continue

(* A count of at most one, read for a safe_ptr at rest, means that it is   *)
(* the only holder of its block.                                           *)
LEMMA LastHolder ==
  ASSUME Discipline, CountExact, NEW h \in Handles, Readable(h), ptr[h] # Null,
         get_count(ptr[h]) <= 1
  PROVE  Holders(ptr[h]) = {h}
  <1>1. ptr[h] \in Blocks /\ h \in Holders(ptr[h])
    BY DEF Discipline, TypeOK, Holders, Readable
  <1>2. Cardinality(Holders(ptr[h])) \in Nat /\ Cardinality(Holders(ptr[h])) <= 1
    BY <1>1, HoldersFinite DEF CountExact, get_count
  <1>3. Cardinality(Holders(ptr[h])) # 0
    BY <1>1, HoldersFinite, FS_EmptySet
  <1>4. Cardinality(Holders(ptr[h])) = 1
    BY <1>2, <1>3
  <1> QED
    BY <1>1, <1>4, HoldersFinite, FS_Singleton

(* Every step keeps the ownership of blocks. *)
LEMMA OwnershipStep ==
  Discipline /\ CountExact /\ Ownership /\ [Next]_vars => Ownership'
  <1> SUFFICES ASSUME Discipline, CountExact, Ownership, [Next]_vars
               PROVE  Ownership'
    OBVIOUS
  <1>0. TypeOK /\ Discipline'
    BY DisciplineStep DEF Discipline
  <1> USE DEF Ownership, FreeOK, FreshOK, PendingOK, HeldIsValid, Readable, Writable, Goto
  <1>1. ASSUME NEW t \in Threads, NEW h \in Handles, NEW x \in alive, Construct(t, h, x)
       PROVE  Ownership'
    BY <1>0, <1>1, NullAssumption DEF Construct, Discipline, OperationOK, SourceOK, Exclusive, TypeOK, PC, Holders
  <1>2. ASSUME NEW t \in Threads, NEW h \in Handles, NEW x \in alive, Emplace(t, h, x)
       PROVE  Ownership'
    <2>1. pc'[t] = "free" => Holders(ptr[h]) = {h}
      BY <1>0, <1>2, LastHolder DEF Emplace, CheckCount, Discipline, TypeOK
    <2> QED
      BY <1>0, <1>2, <2>1, NullAssumption DEF Emplace, CheckCount, Discipline, OperationOK, SourceOK, Exclusive, TypeOK, PC, Holders
  <1>3. ASSUME NEW t \in Threads, NEW h \in Handles, NEW s \in Handles, h # s, CopyConstruct(t, h, s)
       PROVE  Ownership'
    BY <1>0, <1>3, NullAssumption DEF CopyConstruct, operation, Discipline, OperationOK, SourceOK, Exclusive, TypeOK, PC, Holders
  <1>4. ASSUME NEW t \in Threads, NEW h \in Handles, NEW s \in Handles, h # s, MoveConstruct(t, h, s)
       PROVE  Ownership'
    BY <1>0, <1>4, NullAssumption DEF MoveConstruct, operation, Discipline, OperationOK, SourceOK, Exclusive, TypeOK, PC, Holders
  <1>5. ASSUME NEW t \in Threads, NEW h \in Handles, NEW s \in Handles, CopyAssign(t, h, s)
       PROVE  Ownership'
    BY <1>0, <1>5, NullAssumption DEF CopyAssign, Discipline, OperationOK, SourceOK, Exclusive, TypeOK, PC, Holders
  <1>6. ASSUME NEW t \in Threads, NEW h \in Handles, Clear(t, h)
       PROVE  Ownership'
    <2>1. pc'[t] = "free" => Holders(ptr[h]) = {h}
      BY <1>0, <1>6, LastHolder DEF Clear, CheckCount, Discipline, TypeOK
    <2> QED
      BY <1>0, <1>6, <2>1, NullAssumption DEF Clear, CheckCount, Discipline, OperationOK, SourceOK, Exclusive, TypeOK, PC, Holders
  <1>7. ASSUME NEW t \in Threads, FreeWrapper(t)
       PROVE  Ownership'
    BY <1>0, <1>7, NullAssumption DEF FreeWrapper, Discipline, OperationOK, SourceOK, Exclusive, TypeOK, PC, Holders
  <1>8. ASSUME NEW t \in Threads, DropHandle(t)
       PROVE  Ownership'
    BY <1>0, <1>8, NullAssumption DEF DropHandle, Finish, Discipline, OperationOK, SourceOK, Exclusive, TypeOK, PC, Holders
  <1>9. ASSUME NEW t \in Threads, NEW b \in Blocks, Allocate(t, b)
       PROVE  Ownership'
    BY <1>0, <1>9, NullAssumption DEF Allocate, Discipline, OperationOK, SourceOK, Exclusive, TypeOK, PC, Holders
  <1>10. ASSUME NEW t \in Threads, RemoveOld(t)
       PROVE  Ownership'
    BY <1>0, <1>10, NullAssumption DEF RemoveOld, Finish, Discipline, OperationOK, SourceOK, Exclusive, TypeOK, PC, Holders
  <1>11. ASSUME NEW t \in Threads, AddNew(t)
       PROVE  Ownership'
    BY <1>0, <1>11, NullAssumption DEF AddNew, Finish, Discipline, OperationOK, SourceOK, Exclusive, TypeOK, PC, Holders
  <1>12. ASSUME NEW x \in Objects, Collect(x)
       PROVE  Ownership'
    BY <1>0, <1>12, NullAssumption DEF Collect, operation, Discipline, OperationOK, SourceOK, Exclusive, TypeOK, PC, Holders
  <1>13. CASE UNCHANGED vars
    BY <1>0, <1>13 DEF vars, Holders
  <1> QED
    BY <1>1, <1>2, <1>3, <1>4, <1>5, <1>6, <1>7, <1>8, <1>9, <1>10, <1>11, <1>12, <1>13 DEF Next, Begin, Continue

(* The invariant holds at first. *)
LEMMA InitIInv == Init => IInv
  <1> SUFFICES ASSUME Init PROVE IInv
    OBVIOUS
  <1>1. Discipline
    BY NullAssumption DEF Init, Discipline, TypeOK, PC, OperationOK, SourceOK, Exclusive
  <1>2. \A b \in Blocks : Holders(b) = {}
    BY NullAssumption DEF Init, Holders
  <1>3. CountExact
    BY <1>2, FS_EmptySet DEF Init, CountExact
  <1>4. Ownership
    BY DEF Init, Ownership, FreeOK, FreshOK, PendingOK, HeldIsValid
  <1> QED
    BY <1>1, <1>3, <1>4 DEF IInv

(* The inductive invariant holds in every reachable state. *)
THEOREM Invariance == Spec => []IInv
  <1>1. IInv /\ [Next]_vars => IInv'
    BY DisciplineStep, CountStep, OwnershipStep DEF IInv
  <1> QED
    BY InitIInv, <1>1, PTL DEF Spec

(* Every variable keeps its type: no safe_ptr points outside the heap, no  *)
(* count of src/safeptr.cpp becomes negative.                              *)
THEOREM TypeCorrect == Spec => []TypeOK
  BY Invariance, PTL DEF IInv, Discipline

(* get_count is exact in every reachable state, so a clear() that reads it *)
(* sees the number of safe_ptrs that share the wrapper.                    *)
THEOREM CountsAreExact == Spec => []CountExact
  BY Invariance, PTL DEF IInv

(* gc_free_fixed is called with an allocated block that no other safe_ptr  *)
(* points to: no double free, no free under a copy's feet.                 *)
THEOREM OnlyLastHolderFrees == Spec => []FreedByLastHolder
  <1>1. IInv => FreedByLastHolder
    BY DEF IInv, Ownership, FreeOK, FreedByLastHolder
  <1> QED
    BY Invariance, <1>1, PTL

(* A safe_ptr at rest points to an allocated wrapper of a live object.     *)
THEOREM HeldObjectsAreValid == Spec => []HeldIsValid
  BY Invariance, PTL DEF IInv, Ownership

(* A wrapper is never given another object while a safe_ptr at rest points *)
(* to it.                                                                  *)
THEOREM HeldObjectsAreStable == Spec => HeldObjectStable
  <1>1. ASSUME IInv, [Next]_vars, NEW h \in Handles, Readable(h), ptr[h] # Null,
               ptr'[h] = ptr[h]
        PROVE  inst'[ptr[h]] = inst[ptr[h]]
    <2>1. ptr[h] \in live /\ ptr[h] \in Blocks
      BY <1>1 DEF IInv, Ownership, HeldIsValid, Discipline, TypeOK
    <2>2. ASSUME NEW t \in Threads, NEW b \in Blocks, Allocate(t, b)
          PROVE  inst'[ptr[h]] = inst[ptr[h]]
      BY <2>1, <2>2, <1>1 DEF Allocate, IInv, Discipline, TypeOK
    <2>3. CASE inst' = inst
      BY <2>3
    <2> QED
      BY <1>1, <2>2, <2>3 DEF Next, Begin, Continue, vars, Construct, Emplace, CheckCount,
        CopyConstruct, MoveConstruct, CopyAssign, Clear, FreeWrapper, DropHandle,
        RemoveOld, AddNew, Collect
  <1>2. IInv /\ [Next]_vars =>
          [\A h \in Handles :
             (Readable(h) /\ ptr[h] # Null /\ ptr'[h] = ptr[h])
               => inst'[ptr[h]] = inst[ptr[h]]]_vars
    BY <1>1
  <1> QED
    BY Invariance, <1>2, PTL DEF Spec, HeldObjectStable

--------------------------------------------------------------------------------
(* Refinement: what the safe_ptrs hold changes only as SharedHold allows.  *)
hold == [h \in Handles |-> held(h)]

(* A first state of SafePtr is one of SharedHold. *)
LEMMA RefinementInit == Init => Hold!Init
  BY DEF Init, Hold!Init, held, Readable

(* A step of SafePtr is one of SharedHold, or none. *)
LEMMA RefinementStep == IInv /\ IInv' /\ [Next]_vars => [Hold!Next]_(Hold!vars)
  <1> SUFFICES ASSUME IInv, IInv', [Next]_vars
               PROVE  [Hold!Next]_(<<hold, alive>>)
    BY DEF Hold!vars, hold
  <1>0. TypeOK /\ TypeOK'
    BY DEF IInv, Discipline
  <1> USE DEF Writable, Goto
  <1>1. ASSUME NEW t \in Threads, NEW h \in Handles, NEW x \in alive,
               Construct(t, h, x)
        PROVE  UNCHANGED <<hold, alive>>
    <2>1. \A g \in Handles : held(g)' = held(g)
      BY <1>0, <1>1, NullAssumption
      DEF Construct, TypeOK, IInv, Discipline, OperationOK, held, Readable
    <2> QED
      BY <1>1, <2>1 DEF hold, Construct
  <1>2. ASSUME NEW t \in Threads, NEW h \in Handles, CheckCount(t, h),
               UNCHANGED <<ptr, inst, alive>>
        PROVE  Hold!Release(h)
    <2>1. \A g \in Handles : held(g)' = IF g = h THEN Null ELSE held(g)
      BY <1>0, <1>2, NullAssumption
      DEF CheckCount, TypeOK, IInv, Discipline, OperationOK, held, Readable
    <2> QED
      BY <1>2, <2>1 DEF hold, Hold!Release
  <1>3. ASSUME NEW t \in Threads, NEW h \in Handles, NEW s \in Handles, h # s,
               CopyConstruct(t, h, s)
        PROVE  Hold!Acquire(h, hold[s]) /\ hold[s] \in Objects
    <2>1. \A g \in Handles : held(g)' = IF g = h THEN held(s) ELSE held(g)
      BY <1>0, <1>3, NullAssumption DEF CopyConstruct, operation, TypeOK, held, Readable
    <2>2. held(s) \in alive
      BY <1>0, <1>3, NullAssumption
      DEF CopyConstruct, IInv, Ownership, HeldIsValid, held
    <2>3. alive' = alive /\ alive \subseteq Objects
      BY <1>0, <1>3 DEF CopyConstruct, TypeOK
    <2> QED
      BY <2>1, <2>2, <2>3 DEF hold, Hold!Acquire
  <1>4. ASSUME NEW t \in Threads, NEW h \in Handles, NEW s \in Handles, h # s,
               MoveConstruct(t, h, s)
        PROVE  Hold!Transfer(h, s)
    <2>1. \A g \in Handles : held(g)' = IF g = h THEN held(s)
                                          ELSE IF g = s THEN Null ELSE held(g)
      BY <1>0, <1>4, NullAssumption DEF MoveConstruct, operation, TypeOK, held, Readable
    <2> QED
      BY <1>4, <2>1 DEF hold, Hold!Transfer, MoveConstruct
  <1>5. ASSUME NEW t \in Threads, NEW h \in Handles, NEW s \in Handles,
               CopyAssign(t, h, s)
        PROVE  Hold!Release(h)
    <2>1. \A g \in Handles : held(g)' = IF g = h THEN Null ELSE held(g)
      BY <1>0, <1>5, NullAssumption
      DEF CopyAssign, TypeOK, IInv, Discipline, OperationOK, held, Readable
    <2> QED
      BY <1>5, <2>1 DEF hold, Hold!Release, CopyAssign
  <1>6. ASSUME NEW t \in Threads,
               FreeWrapper(t) \/ DropHandle(t) \/ RemoveOld(t)
        PROVE  UNCHANGED <<hold, alive>>
    <2>1. \A g \in Handles : held(g)' = held(g)
      BY <1>0, <1>6, NullAssumption
      DEF FreeWrapper, DropHandle, RemoveOld, Finish, TypeOK, IInv, Discipline,
          OperationOK, Exclusive, held, Readable
    <2> QED
      BY <1>6, <2>1 DEF hold, FreeWrapper, DropHandle, RemoveOld
  <1>7. ASSUME NEW t \in Threads, NEW b \in Blocks, Allocate(t, b)
        PROVE  UNCHANGED <<hold, alive>>
    <2>1. \A g \in Handles : held(g)' = held(g)
      BY <1>0, <1>7, NullAssumption
      DEF Allocate, TypeOK, IInv, Ownership, HeldIsValid, held, Readable
    <2> QED
      BY <1>7, <2>1 DEF hold, Allocate
  <1>8. ASSUME NEW t \in Threads, AddNew(t)
        PROVE  /\ dst[t] \in Handles /\ inst[blk[t]] \in Objects
               /\ Hold!Acquire(dst[t], inst[blk[t]])
    <2> USE DEF IInv, Discipline, OperationOK, Ownership, PendingOK
    <2>1. dst[t] \in Handles /\ blk[t] \in Blocks /\ inst[blk[t]] \in alive
      BY <1>0, <1>8, NullAssumption DEF AddNew, TypeOK
    <2>2. \A g \in Handles :
            held(g)' = IF g = dst[t] THEN inst[blk[t]] ELSE held(g)
      BY <1>0, <1>8, <2>1, NullAssumption
      DEF AddNew, Finish, TypeOK, Exclusive, held, Readable
    <2>3. alive' = alive /\ alive \subseteq Objects
      BY <1>0, <1>8 DEF AddNew, TypeOK
    <2> QED
      BY <2>1, <2>2, <2>3 DEF hold, Hold!Acquire
  <1>9. ASSUME NEW x \in Objects, Collect(x)
        PROVE  Hold!Collect(x)
    <2>1. \A g \in Handles : held(g)' = held(g) /\ held(g) # x
      BY <1>0, <1>9, NullAssumption
      DEF Collect, operation, TypeOK, IInv, Ownership, HeldIsValid, held, Readable
    <2> QED
      BY <1>9, <2>1 DEF hold, Hold!Collect, Collect
  <1>10. CASE UNCHANGED vars
    BY <1>10 DEF vars, hold, held, Readable
  <1>11. ASSUME NEW t \in Threads, Begin(t) \/ Continue(t)
         PROVE  [Hold!Next]_(<<hold, alive>>)
    <2>1. CASE \E h \in Handles, x \in alive : Construct(t, h, x)
      BY <2>1, <1>1
    <2>2. CASE \E h \in Handles, x \in alive : Emplace(t, h, x)
      BY <2>2, <1>2 DEF Emplace, Hold!Next
    <2>3. CASE \E h \in Handles : Clear(t, h)
      BY <2>3, <1>2 DEF Clear, Hold!Next
    <2>4. CASE \E h, s \in Handles : h # s /\ CopyConstruct(t, h, s)
      BY <2>4, <1>3 DEF Hold!Next
    <2>5. CASE \E h, s \in Handles : h # s /\ MoveConstruct(t, h, s)
      BY <2>5, <1>4 DEF Hold!Next
    <2>6. CASE \E h, s \in Handles : CopyAssign(t, h, s)
      BY <2>6, <1>5 DEF Hold!Next
    <2>7. CASE FreeWrapper(t) \/ DropHandle(t) \/ RemoveOld(t)
      BY <2>7, <1>6
    <2>8. CASE \E b \in Blocks : Allocate(t, b)
      BY <2>8, <1>7
    <2>9. CASE AddNew(t)
      BY <2>9, <1>8 DEF Hold!Next
    <2> QED
      BY <1>11, <2>1, <2>2, <2>3, <2>4, <2>5, <2>6, <2>7, <2>8, <2>9 DEF Begin, Continue
  <1>12. ASSUME NEW x \in Objects, Collect(x)
         PROVE  [Hold!Next]_(<<hold, alive>>)
    BY <1>9, <1>12 DEF Hold!Next
  <1> QED
    BY <1>10, <1>11, <1>12 DEF Next

(* safe_ptr implements its promise: a held object is not collected.        *)
THEOREM Refinement == Spec => ImplementsSharedHold
  BY RefinementInit, RefinementStep, Invariance, PTL
  DEF Spec, ImplementsSharedHold, Hold!Spec

--------------------------------------------------------------------------------
(* Leaks.  They need an assignment between safe_ptrs or two threads; a     *)
(* single thread that does not assign releases every wrapper.              *)
DropOK(t) ==
  pc[t] = "drop" =>
    ptr[dst[t]] \notin live \/ Holders(ptr[dst[t]]) # {dst[t]}

LeakInv ==
  /\ NoLeak
  /\ \A t \in Threads : DropOK(t) /\ pc[t] # "assign" /\ src[t] = Null

(* get_count above one in clear() means another holder.                    *)
LEMMA AnotherHolder ==
  ASSUME Discipline, CountExact, NEW h \in Handles, Readable(h), ptr[h] # Null,
         ~(get_count(ptr[h]) <= 1)
  PROVE  Holders(ptr[h]) # {h}
  <1>1. ptr[h] \in Blocks
    BY DEF Discipline, TypeOK
  <1>2. Cardinality({h}) = 1
    BY FS_Singleton
  <1> QED
    BY <1>1, <1>2 DEF CountExact, get_count


(* One thread that does not assign leaves no wrapper behind. *)
LEMMA LeakStep ==
  ASSUME \A t, u \in Threads : t = u, "assign" \notin Operations,
         IInv, LeakInv, [Next]_vars
  PROVE  LeakInv'
  <1>0. TypeOK /\ Discipline /\ CountExact
    BY DEF IInv, Discipline
  <1> USE DEF LeakInv, NoLeak, DropOK, Readable, Writable, Goto
  <1>1. ASSUME NEW t \in Threads, NEW h \in Handles, NEW x \in alive, Construct(t, h, x)
       PROVE  LeakInv'
    BY <1>0, <1>1, NullAssumption DEF Construct, Discipline, OperationOK, TypeOK, PC, Holders
  <1>2. ASSUME NEW t \in Threads, NEW h \in Handles, NEW x \in alive, Emplace(t, h, x)
       PROVE  LeakInv'
    <2>1. pc'[t] = "drop" => Holders(ptr[h]) # {h}
      BY <1>0, <1>2, AnotherHolder DEF Emplace, CheckCount, TypeOK
    <2> QED
      BY <1>0, <1>2, <2>1, NullAssumption DEF Emplace, CheckCount, Discipline, OperationOK, TypeOK, PC, Holders
  <1>3. ASSUME NEW t \in Threads, NEW h \in Handles, NEW s \in Handles, h # s, CopyConstruct(t, h, s)
       PROVE  LeakInv'
    BY <1>0, <1>3, NullAssumption DEF CopyConstruct, operation, Discipline, OperationOK, TypeOK, PC, Holders
  <1>4. ASSUME NEW t \in Threads, NEW h \in Handles, NEW s \in Handles, h # s, MoveConstruct(t, h, s)
       PROVE  LeakInv'
    BY <1>0, <1>4, NullAssumption DEF MoveConstruct, operation, Discipline, OperationOK, TypeOK, PC, Holders
  <1>5. ASSUME NEW t \in Threads, NEW h \in Handles, NEW s \in Handles, CopyAssign(t, h, s)
       PROVE  LeakInv'
    BY <1>5 DEF CopyAssign
  <1>6. ASSUME NEW t \in Threads, NEW h \in Handles, Clear(t, h)
       PROVE  LeakInv'
    <2>1. pc'[t] = "drop" => Holders(ptr[h]) # {h}
      BY <1>0, <1>6, AnotherHolder DEF Clear, CheckCount, TypeOK
    <2> QED
      BY <1>0, <1>6, <2>1, NullAssumption DEF Clear, CheckCount, Discipline, OperationOK, TypeOK, PC, Holders
  <1>7. ASSUME NEW t \in Threads, FreeWrapper(t)
       PROVE  LeakInv'
    BY <1>0, <1>7, NullAssumption DEF FreeWrapper, Discipline, OperationOK, TypeOK, PC, Holders
  <1>8. ASSUME NEW t \in Threads, DropHandle(t)
       PROVE  LeakInv'
    BY <1>0, <1>8, NullAssumption DEF DropHandle, Finish, Discipline, OperationOK, TypeOK, PC, Holders
  <1>9. ASSUME NEW t \in Threads, NEW b \in Blocks, Allocate(t, b)
       PROVE  LeakInv'
    BY <1>0, <1>9, NullAssumption DEF Allocate, Discipline, OperationOK, TypeOK, PC, Holders
  <1>10. ASSUME NEW t \in Threads, RemoveOld(t)
       PROVE  LeakInv'
    BY <1>10 DEF RemoveOld, Finish
  <1>11. ASSUME NEW t \in Threads, AddNew(t)
       PROVE  LeakInv'
    BY <1>0, <1>11, NullAssumption DEF AddNew, Finish, Discipline, OperationOK, TypeOK, PC, Holders
  <1>12. ASSUME NEW x \in Objects, Collect(x)
       PROVE  LeakInv'
    BY <1>0, <1>12, NullAssumption DEF Collect, operation, Discipline, OperationOK, TypeOK, PC, Holders
  <1>13. CASE UNCHANGED vars
    BY <1>0, <1>13 DEF vars, Holders
  <1> QED
    BY <1>1, <1>2, <1>3, <1>4, <1>5, <1>6, <1>7, <1>8, <1>9, <1>10, <1>11, <1>12, <1>13 DEF Next, Begin, Continue

(* With one thread and no assignment between safe_ptrs, every wrapper that *)
(* no safe_ptr points to has been freed.                                   *)
THEOREM SequentialNoLeak ==
  ASSUME \A t, u \in Threads : t = u, "assign" \notin Operations
  PROVE  Spec => []NoLeak
  <1>1. Init => LeakInv
    BY DEF Init, LeakInv, NoLeak, DropOK
  <1>2. IInv /\ LeakInv /\ [Next]_vars => LeakInv'
    BY LeakStep
  <1>3. LeakInv => NoLeak
    BY DEF LeakInv
  <1> QED
    BY <1>1, <1>2, <1>3, Invariance, PTL DEF Spec

================================================================================
