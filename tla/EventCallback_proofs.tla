-------------------------- MODULE EventCallback_proofs --------------------------
(***************************************************************************)
(* Proofs about EventCallback, for any functions and instances, any        *)
(* nesting of invocations, and both containers.                            *)
(*                                                                         *)
(* What an invocation has called and what it has left always make up what  *)
(* it copied, in whatever way the callbacks change the event meanwhile;    *)
(* and a container that is not empty has a first element, so the loop ends *)
(* only when nothing is left.  That the container holds what was asked for *)
(* needs that functions can be told apart by their addresses.              *)
(***************************************************************************)
EXTENDS EventCallback, FiniteSetTheorems, SequenceTheorems, WellFoundedInduction, TLAPS

(* What was copied is finite, and as many calls were made as there are     *)
(* callbacks that are no longer left of it.                                *)
Accounted(inv) ==
  /\ AtOnePlace(inv)
  /\ IsFiniteSet(inv.copied)
  /\ Len(inv.called) = Cardinality(inv.copied \ inv.left)

IInv ==
  /\ TypeOK
  /\ IsFiniteSet(callbacks)
  /\ \A i \in DOMAIN invocations : Accounted(invocations[i])

--------------------------------------------------------------------------------
(* A set of naturals has a least element. *)
LEMMA Least ==
  ASSUME NEW S \in SUBSET Nat, S # {}
  PROVE  \E m \in S : \A n \in S : m <= n
  <1>1. PICK m \in S : \A n \in S : <<n, m>> \notin OpToRel(<, Nat)
    BY NatLessThanWellFounded, WFMin
  <1>2. ASSUME NEW n \in S, n < m
        PROVE  FALSE
    BY <1>1, <1>2 DEF OpToRel
  <1> QED
    BY <1>2

(* A sequence without its last element. *)
LEMMA FrontProperties ==
  ASSUME NEW S, NEW s \in Seq(S), s # <<>>
  PROVE  LET t == SubSeq(s, 1, Len(s) - 1)
         IN  /\ t \in Seq(S) /\ Len(t) = Len(s) - 1
             /\ DOMAIN t \subseteq DOMAIN s
             /\ \A i \in DOMAIN t : t[i] = s[i]
  <1>1. Len(s) \in Nat /\ Len(s) > 0 /\ DOMAIN s = 1 .. Len(s)
    OBVIOUS
  <1>2. \A i \in 1 .. Len(s) - 1 : s[i] \in S
    BY <1>1
  <1> QED
    BY <1>1, <1>2, SubSeqProperties

(* A callback's identity is two addresses, and a callback is its two fields. *)
LEMMA CallbackTyped ==
  ASSUME NEW c \in callback_t
  PROVE  ptr(c) \in Nat /\ instance(c) \in Nat /\ c.func \in Functions /\ c = [func |-> c.func, inst |-> c.inst]
  BY AddressAssumption, InstancesAssumption DEF callback_t, ptr, instance

(* Both containers take two callbacks for the same when ptr() and          *)
(* instance() are.                                                         *)
LEMMA SameMeansEqual ==
  ASSUME NEW c \in callback_t, NEW d \in callback_t
  PROVE  same(c, d) <=> equal(c, d)
  <1>1. /\ ptr(c) \in Nat /\ instance(c) \in Nat
        /\ ptr(d) \in Nat /\ instance(d) \in Nat
    BY CallbackTyped
  <1> QED
    BY <1>1 DEF same, less, equal

(* A container that is not empty has a first element, by address and then  *)
(* by instance where it is ordered.                                        *)
LEMMA FirstExists ==
  ASSUME NEW S \in SUBSET callback_t, S # {}
  PROVE  first(S) # {}
  <1>1. CASE ~Ordered
    BY <1>1 DEF first
  <1>2. CASE Ordered
    <2> DEFINE Ptrs == {ptr(c) : c \in S}
    <2>1. PICK p \in Ptrs : \A n \in Ptrs : p <= n
      <3>1. Ptrs \in SUBSET Nat /\ Ptrs # {}
        BY CallbackTyped
      <3> HIDE DEF Ptrs
      <3> QED
        BY <3>1, Least
    <2> DEFINE Insts == {instance(c) : c \in {d \in S : ptr(d) = p}}
    <2>2. PICK i \in Insts : \A n \in Insts : i <= n
      <3>1. Insts \in SUBSET Nat /\ Insts # {}
        BY CallbackTyped
      <3> HIDE DEF Insts
      <3> QED
        BY <3>1, Least
    <2>3. PICK c \in S : ptr(c) = p /\ instance(c) = i
      BY <2>2
    <2>4. ASSUME NEW d \in S
          PROVE  ~less(d, c)
      <3>1. ptr(d) \in Nat /\ instance(d) \in Nat /\ p \in Nat /\ i \in Nat
        BY <2>3, CallbackTyped
      <3>2. p <= ptr(d) /\ (ptr(d) = p => i <= instance(d))
        BY <2>1, <2>2
      <3> QED
        BY <3>1, <3>2, <2>3 DEF less
    <2> QED
      BY <1>2, <2>3, <2>4 DEF first
  <1> QED
    BY <1>1, <1>2

(* What an invocation begins with is in the container. *)
LEMMA FirstAmong == ASSUME NEW S PROVE first(S) \subseteq S
  BY DEF first

--------------------------------------------------------------------------------
(* The loop calls one more callback of those it has left. *)
LEMMA CalledOnce ==
  ASSUME NEW inv \in Invocation, Accounted(inv), NEW c \in inv.left, NEW running \in BOOLEAN
  PROVE  LET next == [inv EXCEPT !.left = @ \ {c}, !.called = Append(@, c), !.running = running]
         IN  next \in Invocation /\ Accounted(next)
  <1> DEFINE next == [inv EXCEPT !.left = @ \ {c}, !.called = Append(@, c), !.running = running]
             done == inv.copied \ inv.left
  <1>1. /\ next.copied = inv.copied /\ next.left = inv.left \ {c}
        /\ next.called = Append(inv.called, c) /\ next.running = running
    BY DEF Invocation
  <1>2. inv.called \in Seq(callback_t) /\ c \in callback_t /\ next \in Invocation
    <2>1. inv.called \in Seq(callback_t) /\ c \in callback_t /\ Append(inv.called, c) \in Seq(callback_t)
      BY DEF Invocation
    <2> DEFINE less_left == [inv EXCEPT !.left = @ \ {c}]
               one_called == [less_left EXCEPT !.called = Append(@, c)]
    <2>2. less_left \in Invocation /\ less_left.called = inv.called
      BY DEF Invocation
    <2> HIDE DEF less_left
    <2>3. one_called \in Invocation
      BY <2>1, <2>2 DEF Invocation
    <2> HIDE DEF one_called
    <2>4. [one_called EXCEPT !.running = running] \in Invocation
      BY <2>3 DEF Invocation
    <2> QED
      BY <2>1, <2>4 DEF less_left, one_called
  <1>3. next.copied \ next.left = done \union {c} /\ c \notin done /\ ToSet(inv.called) = done
    BY <1>1 DEF Accounted, AtOnePlace
  <1>4. ToSet(next.called) = ToSet(inv.called) \union {c}
    BY <1>1, <1>2 DEF ToSet
  <1>5. IsFiniteSet(done)
    BY FS_Subset DEF Accounted
  <1>6. Cardinality(done \union {c}) = Cardinality(done) + 1
    BY <1>3, <1>5, FS_AddElement
  <1>7. Len(next.called) = Len(inv.called) + 1
    BY <1>1, <1>2
  <1>8. IsInjective(next.called)
    <2>1. PICK s \in Seq(callback_t) : s = inv.called
      BY <1>2
    <2>2. IsInjective(s) /\ \A i \in DOMAIN s : s[i] # c
      BY <1>3, <2>1 DEF Accounted, AtOnePlace, ToSet
    <2>3. /\ DOMAIN s = 1 .. Len(s) /\ DOMAIN Append(s, c) = 1 .. Len(s) + 1 /\ Len(s) \in Nat
          /\ \A i \in 1 .. Len(s) : Append(s, c)[i] = s[i]
          /\ Append(s, c)[Len(s) + 1] = c
      BY <1>2, <2>1
    <2>4. IsInjective(Append(s, c))
      BY <2>2, <2>3 DEF IsInjective
    <2> QED
      BY <1>1, <2>1, <2>4
  <1>9. next.called # <<>>
    <2>1. PICK s \in Seq(callback_t) : s = inv.called
      BY <1>2
    <2>2. Len(Append(s, c)) # Len(<<>>)
      BY <1>2, <2>1
    <2> QED
      BY <1>1, <2>1, <2>2
  <1>10. AtOnePlace(next)
    BY <1>1, <1>3, <1>4, <1>8, <1>9 DEF Accounted, AtOnePlace
  <1>11. Accounted(next)
    BY <1>1, <1>3, <1>6, <1>7, <1>10 DEF Accounted
  <1> QED
    BY <1>2, <1>11

(* The innermost invocation changes to another one that is accounted for. *)
LEMMA LastReplaced ==
  ASSUME IInv, invocations # <<>>, NEW inv \in Invocation, Accounted(inv), Replace(inv),
         UNCHANGED <<callbacks, subscribed>>
  PROVE  IInv'
  <1>1. invocations \in Seq(Invocation) /\ Len(invocations) \in 1 .. Len(invocations)
    BY DEF IInv, TypeOK
  <1>2. invocations' \in Seq(Invocation) /\ Len(invocations') = Len(invocations)
    BY <1>1 DEF Replace
  <1>3. \A i \in DOMAIN invocations' : Accounted(invocations'[i])
    BY <1>1 DEF IInv, Replace
  <1>4. \A i \in DOMAIN invocations' : i < Len(invocations') => invocations'[i].running
    BY <1>1, <1>2 DEF IInv, TypeOK, Replace
  <1> QED
    BY <1>1, <1>2, <1>3, <1>4 DEF IInv, TypeOK, Accounted

(* The container grows and shrinks by one callback at a time. *)
LEMMA ContainerStep ==
  ASSUME IInv, UNCHANGED invocations, callbacks' \subseteq callback_t, subscribed' \subseteq callback_t,
         IsFiniteSet(callbacks')
  PROVE  IInv'
  BY DEF IInv, TypeOK

(* The invariant holds at first. *)
LEMMA IInvInit == Init => IInv
  BY FS_EmptySet DEF Init, IInv, TypeOK

(* Every step keeps it. *)
LEMMA IInvStep == IInv /\ [Next]_vars => IInv'
  <1> SUFFICES ASSUME IInv, [Next]_vars PROVE IInv'
    OBVIOUS
  <1>0. /\ callbacks \subseteq callback_t /\ subscribed \subseteq callback_t
        /\ invocations \in Seq(Invocation) /\ Len(invocations) \in Nat
        /\ IsFiniteSet(callbacks)
    BY DEF IInv, TypeOK
  <1>1. ASSUME NEW c \in callback_t, add(c)
        PROVE  IInv'
    <2>1. callbacks' \in {callbacks, callbacks \union {c}}
      BY <1>1 DEF add, emplace
    <2>2. IsFiniteSet(callbacks')
      BY <1>0, <2>1, FS_AddElement
    <2> QED
      BY <1>0, <1>1, <2>1, <2>2, ContainerStep DEF add
  <1>2. ASSUME NEW c \in callback_t, remove(c)
        PROVE  IInv'
    <2>1. callbacks' \subseteq callbacks
      BY <1>2 DEF remove, erase
    <2>2. IsFiniteSet(callbacks')
      BY <1>0, <2>1, FS_Subset
    <2> QED
      BY <1>0, <1>2, <2>1, <2>2, ContainerStep DEF remove
  <1>3. ASSUME NEW f \in Members, remove_member(f)
        PROVE  IInv'
    <2>1. callbacks' \subseteq callbacks
      BY <1>3 DEF remove_member
    <2>2. IsFiniteSet(callbacks')
      BY <1>0, <2>1, FS_Subset
    <2> QED
      BY <1>0, <1>3, <2>1, <2>2, ContainerStep DEF remove_member
  <1>4. CASE clear
    BY <1>0, <1>4, FS_EmptySet, ContainerStep DEF clear
  <1>5. CASE invoke
    <2> DEFINE inv == [copied |-> callbacks, left |-> callbacks, called |-> <<>>, running |-> FALSE]
    <2>1. inv \in Invocation
      BY <1>0 DEF Invocation
    <2>2. Accounted(inv)
      <3>1. /\ inv.copied = callbacks /\ inv.left = callbacks /\ inv.called = <<>>
            /\ inv.copied \ inv.left = {}
        OBVIOUS
      <3>2. ToSet(<<>>) = {} /\ Len(<<>>) = 0 /\ IsInjective(<<>>)
        BY DEF ToSet, IsInjective
      <3>3. AtOnePlace(inv)
        BY <3>1, <3>2 DEF AtOnePlace
      <3> QED
        BY <1>0, <3>1, <3>2, <3>3, FS_EmptySet DEF Accounted
    <2>3. /\ invocations' = Append(invocations, inv)
          /\ callbacks' = callbacks /\ subscribed' = subscribed
      BY <1>5 DEF invoke
    <2> HIDE DEF inv
    <2>4. /\ invocations' \in Seq(Invocation) /\ Len(invocations') = Len(invocations) + 1
          /\ DOMAIN invocations' = 1 .. Len(invocations) + 1 /\ DOMAIN invocations = 1 .. Len(invocations)
          /\ \A i \in 1 .. Len(invocations) : invocations'[i] = invocations[i]
          /\ invocations'[Len(invocations) + 1] = inv
      BY <1>0, <2>1, <2>3
    <2>5. \A i \in DOMAIN invocations' : Accounted(invocations'[i])
      BY <1>0, <2>2, <2>4 DEF IInv
    <2>6. ASSUME NEW i \in DOMAIN invocations', i < Len(invocations')
          PROVE  invocations'[i].running
      <3>1. i \in 1 .. Len(invocations) /\ invocations'[i] = invocations[i]
        BY <1>0, <2>4, <2>6
      <3>2. CASE i < Len(invocations)
        BY <2>4, <3>1, <3>2 DEF IInv, TypeOK
      <3>3. CASE i = Len(invocations)
        BY <1>0, <1>5, <3>1, <3>3 DEF invoke, UserCode, Last
      <3> QED
        BY <1>0, <3>1, <3>2, <3>3
    <2> QED
      BY <1>0, <2>3, <2>4, <2>5, <2>6 DEF IInv, TypeOK, Accounted
  <1>6. ASSUME NEW c \in callback_t, Call(c)
        PROVE  IInv'
    <2> DEFINE inv == Last(invocations)
    <2>1. invocations # <<>> /\ inv \in Invocation /\ Accounted(inv)
      BY <1>0, <1>6 DEF Call, Looping, Last, IInv
    <2>2. c \in inv.left
      BY <1>6, FirstAmong DEF Call, to_invoke
    <2> QED
      BY <1>6, <2>1, <2>2, CalledOnce, LastReplaced DEF Call
  <1>7. CASE CallbackReturns
    <2> DEFINE inv == Last(invocations)
               next == [inv EXCEPT !.running = FALSE]
    <2>1. invocations # <<>> /\ inv \in Invocation /\ Accounted(inv)
      BY <1>0, <1>7 DEF CallbackReturns, Last, IInv
    <2>2. next \in Invocation /\ Accounted(next)
      BY <2>1 DEF Invocation, Accounted, AtOnePlace
    <2> QED
      BY <1>7, <2>1, <2>2, LastReplaced DEF CallbackReturns
  <1>8. CASE InvokeReturns
    <2>1. invocations' = SubSeq(invocations, 1, Len(invocations) - 1) /\ invocations # <<>>
          /\ callbacks' = callbacks /\ subscribed' = subscribed
      BY <1>8 DEF InvokeReturns, Looping, Front
    <2>2. /\ invocations' \in Seq(Invocation) /\ Len(invocations') = Len(invocations) - 1
          /\ DOMAIN invocations' \subseteq DOMAIN invocations
          /\ \A i \in DOMAIN invocations' : invocations'[i] = invocations[i]
      BY <1>0, <2>1, FrontProperties
    <2>3. \A i \in DOMAIN invocations' : Accounted(invocations'[i])
      BY <2>2 DEF IInv
    <2>4. \A i \in DOMAIN invocations' : i < Len(invocations') => invocations'[i].running
      <3>1. DOMAIN invocations' = 1 .. Len(invocations') /\ DOMAIN invocations = 1 .. Len(invocations)
        BY <1>0, <2>2
      <3> QED
        BY <1>0, <2>2, <3>1 DEF IInv, TypeOK
    <2> QED
      BY <1>0, <2>1, <2>2, <2>3, <2>4 DEF IInv, TypeOK, Accounted
  <1>9. CASE UNCHANGED vars
    BY <1>9 DEF IInv, TypeOK, vars
  <1> QED
    BY <1>1, <1>2, <1>3, <1>4, <1>5, <1>6, <1>7, <1>8, <1>9 DEF Next

(* The strengthened invariant: every invocation accounts for what it has   *)
(* copied.                                                                 *)
THEOREM Invariance == Spec => []IInv
  BY IInvInit, IInvStep, PTL DEF Spec

(* The container and the copies hold callbacks; what an invocation has     *)
(* called, each callback once, is what is no longer left of its copy; and  *)
(* only the innermost one may be between two callbacks.                    *)
THEOREM TypeCorrect == Spec => []TypeOK
  <1>1. IInv => TypeOK
    BY DEF IInv
  <1> QED
    BY <1>1, Invariance, PTL

--------------------------------------------------------------------------------
(* An invocation that returns has called what was subscribed when it       *)
(* began, each callback once.                                              *)
LEMMA ReturnCallsEachOnce ==
  IInv /\ [Next]_vars =>
    (Len(invocations') < Len(invocations) =>
       LET inv == Last(invocations)
       IN  ToSet(inv.called) = inv.copied /\ Len(inv.called) = Cardinality(inv.copied))
  <1> SUFFICES ASSUME IInv, [Next]_vars, Len(invocations') < Len(invocations)
               PROVE  LET inv == Last(invocations)
                      IN  ToSet(inv.called) = inv.copied /\ Len(inv.called) = Cardinality(inv.copied)
    OBVIOUS
  <1> DEFINE inv == Last(invocations)
  <1>0. invocations \in Seq(Invocation) /\ Len(invocations) \in Nat
    BY DEF IInv, TypeOK
  <1>1. invocations' # invocations
    BY <1>0
  <1>2. ASSUME NEW x, Replace(x)
        PROVE  FALSE
    BY <1>0, <1>2 DEF Replace
  <1>3. ~invoke
    BY <1>0 DEF invoke
  <1>4. InvokeReturns
    BY <1>1, <1>2, <1>3 DEF Next, vars, add, remove, remove_member, clear, Call, CallbackReturns
  <1>5. invocations # <<>> /\ first(inv.left) = {}
    BY <1>4 DEF InvokeReturns, Looping, to_invoke
  <1>6. inv \in Invocation /\ Accounted(inv)
    BY <1>0, <1>5 DEF IInv, Last
  <1>7. inv.left = {}
    BY <1>5, <1>6, FirstExists DEF Invocation
  <1>8. inv.copied \ inv.left = inv.copied
    BY <1>7
  <1> QED
    BY <1>6, <1>8 DEF Accounted, AtOnePlace

(* Every invoke() calls the callbacks that were subscribed when it began,  *)
(* each once, whatever they do to the event.                               *)
THEOREM EachIsCalledOnce == Spec => CallsEachOnce
  BY Invariance, ReturnCallsEachOnce, PTL DEF Spec, CallsEachOnce

--------------------------------------------------------------------------------
(* Where functions have addresses of their own, two callbacks that compare *)
(* equal are one.                                                          *)
LEMMA EqualMeansOne ==
  ASSUME DistinctAddresses, NEW c \in callback_t, NEW d \in callback_t
  PROVE  same(c, d) <=> c = d
  BY CallbackTyped, SameMeansEqual DEF equal, ptr, instance, DistinctAddresses

(* Every step keeps the container in accord with the history, where        *)
(* functions have addresses of their own.                                  *)
LEMMA SubscriptionsStep ==
  ASSUME DistinctAddresses, TypeOK, HoldsSubscriptions, [Next]_vars
  PROVE  HoldsSubscriptions'
  <1> USE DEF HoldsSubscriptions
  <1>0. callbacks \subseteq callback_t
    BY DEF TypeOK
  <1>1. ASSUME NEW c \in callback_t, add(c)
        PROVE  HoldsSubscriptions'
    BY <1>0, <1>1, EqualMeansOne DEF add, emplace
  <1>2. ASSUME NEW c \in callback_t, remove(c)
        PROVE  HoldsSubscriptions'
    BY <1>0, <1>2, EqualMeansOne DEF remove, erase
  <1>3. ASSUME NEW f \in Members, remove_member(f)
        PROVE  HoldsSubscriptions'
    <2>1. \A c \in callbacks : ptr(c) # Address[f] <=> c.func # f
      BY <1>0, CallbackTyped, MembersAssumption DEF ptr, DistinctAddresses
    <2> QED
      BY <1>3, <2>1 DEF remove_member
  <1>4. CASE clear
    BY <1>4 DEF clear
  <1>5. CASE UNCHANGED <<callbacks, subscribed>>
    BY <1>5
  <1> QED
    BY <1>1, <1>2, <1>3, <1>4, <1>5 DEF Next, vars, invoke, Call, CallbackReturns, InvokeReturns

(* Unless functions share their pointer values, as virtual ones do, the    *)
(* container holds what was asked for.                                     *)
THEOREM SubscriptionsAreHeld ==
  ASSUME DistinctAddresses
  PROVE  Spec => []HoldsSubscriptions
  <1>1. Init => HoldsSubscriptions
    BY DEF Init, HoldsSubscriptions
  <1>2. TypeOK /\ HoldsSubscriptions /\ [Next]_vars => HoldsSubscriptions'
    BY SubscriptionsStep
  <1> QED
    BY <1>1, <1>2, TypeCorrect, PTL DEF Spec

================================================================================
