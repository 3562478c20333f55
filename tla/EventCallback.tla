----------------------------- MODULE EventCallback -----------------------------
(***************************************************************************)
(* basic_event_callback (shared/callback.hpp): a container of callbacks    *)
(* that invoke() calls one after the other.  Callbacks run arbitrary code: *)
(* they subscribe, unsubscribe, clear the event they are called from, and  *)
(* invoke it again.                                                        *)
(*                                                                         *)
(* Callbacks are compared by the pair of ptr() and instance() of their     *)
(* abstract_func.  Address gives ptr(): a code address for free and        *)
(* non-virtual member functions, the wrapper's own address for lambdas,    *)
(* and for a virtual member function the offset of its vtable slot, which  *)
(* functions of different classes share.                                   *)
(***************************************************************************)
EXTENDS Naturals, Sequences, FiniteSets, SequencesExt

CONSTANTS
  Functions,  \* the functions and lambdas that subscribe
  Members,    \* those that are member functions
  Address,    \* Address[f]: ptr() of a wrapper of f
  Instances,  \* Instances[f]: the addresses f is subscribed with; {0} if none
  Ordered,    \* event_callback (std::set) or unordered_event_callback
  MaxDepth    \* bound on nested invocations

ASSUME AddressAssumption == Address \in [Functions -> Nat]
ASSUME InstancesAssumption == Instances \in [Functions -> SUBSET Nat]
ASSUME MembersAssumption == Members \subseteq Functions
ASSUME OrderedAssumption == Ordered \in BOOLEAN
ASSUME MaxDepthAssumption == MaxDepth \in Nat

(* No function shares its ptr(): there are no virtual member functions.    *)
DistinctAddresses == \A f, g \in Functions : Address[f] = Address[g] => f = g

(* thin_virtual_layer: a function and the instance it is called on. *)
callback_t == UNION {[func : {f}, inst : Instances[f]] : f \in Functions}

VARIABLES
  callbacks,   \* the container
  invocations, \* the running calls of invoke(), innermost last
  subscribed   \* history: what add, remove and clear asked for

vars == <<callbacks, invocations, subscribed>>

(* A running invoke(): the copied container, the callbacks of the copy     *)
(* that are left, those called so far, and whether one is running now.     *)
Invocation ==
  [copied : SUBSET callback_t, left : SUBSET callback_t,
   called : Seq(callback_t), running : BOOLEAN]

(* An invocation is at one place of its loop: what it has called, each     *)
(* callback once, is what is no longer left of its copy.                   *)
AtOnePlace(inv) ==
  /\ inv.left \subseteq inv.copied
  /\ ToSet(inv.called) = inv.copied \ inv.left
  /\ IsInjective(inv.called)
  /\ inv.running => inv.called # <<>>

(* Every invocation but the innermost is calling the callback that began   *)
(* the next one.                                                           *)
TypeOK ==
  /\ callbacks \subseteq callback_t /\ subscribed \subseteq callback_t
  /\ invocations \in Seq(Invocation)
  /\ \A i \in DOMAIN invocations :
       AtOnePlace(invocations[i]) /\ (i < Len(invocations) => invocations[i].running)

Init ==
  /\ callbacks = {}
  /\ invocations = <<>>
  /\ subscribed = {}

--------------------------------------------------------------------------------
ptr(c) == Address[c.func]
instance(c) == c.inst

(* operator== and operator< of abstract_func. *)
equal(a, b) == instance(a) = instance(b) /\ ptr(a) = ptr(b)

(* Deviation: operator< ignores the instance. *)
lessByAddress(a, b) == ptr(a) < ptr(b)

less(a, b) ==
  \/ ptr(a) < ptr(b)
  \/ ptr(a) = ptr(b) /\ instance(a) < instance(b)

(* What the container takes for the same element. *)
same(a, b) == IF Ordered THEN ~less(a, b) /\ ~less(b, a) ELSE equal(a, b)

emplace(S, c) == IF \E d \in S : same(c, d) THEN S ELSE S \union {c}

erase(S, c) == {d \in S : ~same(c, d)}

(* The order of iteration; that of an unordered container is not defined.  *)
first(S) == IF Ordered THEN {c \in S : \A d \in S : ~less(d, c)} ELSE S

--------------------------------------------------------------------------------
(* User code runs outside of every invoke() or in the callback that the    *)
(* innermost one is calling.                                               *)
UserCode == invocations # <<>> => Last(invocations).running

add(c) ==
  /\ UserCode
  /\ callbacks' = emplace(callbacks, c)
  /\ subscribed' = subscribed \union {c}
  /\ UNCHANGED invocations

(* remove(callback_t) *)
remove(c) ==
  /\ UserCode
  /\ callbacks' = erase(callbacks, c)
  /\ subscribed' = subscribed \ {c}
  /\ UNCHANGED invocations

(* remove of a member function pointer: whatever the instance. *)
remove_member(f) ==
  /\ UserCode
  /\ callbacks' = {c \in callbacks : ptr(c) # Address[f]}
  /\ subscribed' = {c \in subscribed : c.func # f}
  /\ UNCHANGED invocations

clear ==
  /\ UserCode
  /\ callbacks' = {}
  /\ subscribed' = {}
  /\ UNCHANGED invocations

(* Deviation: the event keeps one copy for all invocations, which a nested *)
(* one overwrites.                                                         *)
invokeShared ==
  /\ UserCode
  /\ Len(invocations) < MaxDepth
  /\ LET overwritten == [i \in DOMAIN invocations |->
                           [invocations[i] EXCEPT !.copied = callbacks, !.left = callbacks]]
     IN  invocations' = Append(overwritten,
           [copied |-> callbacks, left |-> callbacks, called |-> <<>>, running |-> FALSE])
  /\ UNCHANGED <<callbacks, subscribed>>

(* invoke() copies the container first. *)
invoke ==
  /\ UserCode
  /\ Len(invocations) < MaxDepth
  /\ invocations' = Append(invocations,
       [copied |-> callbacks, left |-> callbacks, called |-> <<>>, running |-> FALSE])
  /\ UNCHANGED <<callbacks, subscribed>>

(* The loop of the innermost invoke() is between two callbacks. *)
Looping == invocations # <<>> /\ ~Last(invocations).running

Replace(inv) == invocations' = [invocations EXCEPT ![Len(invocations)] = inv]

(* Deviation: the loop runs over the container itself. *)
to_invokeLive(inv) == first(inv.left \intersect callbacks)

to_invoke(inv) == first(inv.left)

Call(c) ==
  /\ Looping
  /\ c \in to_invoke(Last(invocations))
  /\ Replace([Last(invocations) EXCEPT
       !.left = @ \ {c}, !.called = Append(@, c), !.running = TRUE])
  /\ UNCHANGED <<callbacks, subscribed>>

CallbackReturns ==
  /\ invocations # <<>> /\ Last(invocations).running
  /\ Replace([Last(invocations) EXCEPT !.running = FALSE])
  /\ UNCHANGED <<callbacks, subscribed>>

InvokeReturns ==
  /\ Looping
  /\ to_invoke(Last(invocations)) = {}
  /\ invocations' = Front(invocations)
  /\ UNCHANGED <<callbacks, subscribed>>

Next ==
  \/ \E c \in callback_t : add(c) \/ remove(c) \/ Call(c)
  \/ \E f \in Members : remove_member(f)
  \/ clear \/ invoke \/ CallbackReturns \/ InvokeReturns

Spec == Init /\ [][Next]_vars

--------------------------------------------------------------------------------
(* Properties. *)

(* The container holds what was asked for: every function on every         *)
(* instance it was added with, until that function, on that instance or on *)
(* all of them, is removed.  ("std::set keeps one member function          *)
(* subscribed on several instances"; "we need to remove all member         *)
(* functions regardless of instance".)                                     *)
HoldsSubscriptions == callbacks = subscribed

(* An invoke() calls the callbacks subscribed when it began, each once,    *)
(* whatever the callbacks do to the event while it runs.                   *)
CallsEachOnce ==
  [][Len(invocations') < Len(invocations) =>
       LET inv == Last(invocations)
       IN  ToSet(inv.called) = inv.copied /\ Len(inv.called) = Cardinality(inv.copied)]_vars

================================================================================
