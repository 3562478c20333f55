------------------------------- MODULE Threading -------------------------------
(***************************************************************************)
(* Running code on threads that il2cpp and the JVM know                    *)
(* (shared/threading.hpp).  attached_invoke attaches the current thread,   *)
(* runs a function and detaches the thread when the scope is left, by      *)
(* return or by exception.  il2cpp_thread runs it on a new thread that is  *)
(* joined at the end of the scope that created it; il2cpp_async runs it on *)
(* a new thread or, deferred, on the thread that asks for the result.      *)
(*                                                                         *)
(* il2cpp's and the JVM's thread tables are modelled as the code uses      *)
(* them: attaching an attached thread changes nothing, and detaching       *)
(* detaches however often the thread was attached.                         *)
(***************************************************************************)
EXTENDS Naturals, Sequences, FiniteSets, SequencesExt

CONSTANTS
  Main,           \* the game's main thread, attached by the runtime itself
  Workers,        \* threads that il2cpp_thread and il2cpp_async can create
  Tasks,          \* calls of il2cpp_async that run deferred
  Policies,       \* the launch policies in use: "async", "deferred", "any"
  ChecksAttached  \* the UNITY_2019/UNITY_2021 build of il2cpp_async_internal

Threads == {Main} \union Workers

ASSUME MainAssumption == Main \notin Workers
ASSUME PolicyAssumption == Policies \subseteq {"async", "deferred", "any"}
ASSUME BuildAssumption == ChecksAttached \in BOOLEAN

VARIABLES
  stack,     \* stack[t]: the calls t is in, innermost last
  parent,    \* parent[w]: the thread and stack depth that created worker w
  attached,  \* threads registered with il2cpp
  env,       \* threads whose thread_local env is set
  task,      \* task[k]: "none", "pending" (a deferred future) or "started"
  terminated \* std::terminate was called

vars == <<stack, parent, attached, env, task, terminated>>

(* A call: of attached_invoke, or of a plain function; "spawn" says that   *)
(* an exception leaving it leaves std::thread's function.                  *)
Call == [attaches : BOOLEAN, spawn : BOOLEAN, pc : {"attach", "body", "detach"}]

NoParent == <<Main, 0>>

TypeOK ==
  /\ stack \in [Threads -> Seq(Call)]
  /\ parent \in [Workers -> Threads \X Nat]
  /\ attached \subseteq Threads
  /\ env \subseteq Threads
  /\ task \in [Tasks -> {"none", "pending", "started"}]
  /\ terminated \in BOOLEAN

Init ==
  /\ stack = [t \in Threads |->
       IF t = Main THEN <<[attaches |-> FALSE, spawn |-> FALSE, pc |-> "body"]>> ELSE <<>>]
  /\ parent = [w \in Workers |-> NoParent]
  /\ attached = {Main}
  /\ env = {}
  /\ task = [k \in Tasks |-> "none"]
  /\ terminated = FALSE

At(t, l) == ~terminated /\ stack[t] # <<>> /\ Last(stack[t]).pc = l

InnermostAt(t, l) == [stack EXCEPT ![t][Len(stack[t])].pc = l]

Unused(w) == parent[w] = NoParent

--------------------------------------------------------------------------------
attached_invoke(spawn) == [attaches |-> TRUE, spawn |-> spawn, pc |-> "attach"]

plain_invoke == [attaches |-> FALSE, spawn |-> FALSE, pc |-> "body"]

(* Deviation: the new thread is joined by a scope further out. *)
StartInOuterScope(t, w, call) ==
  /\ At(t, "body")
  /\ Unused(w)
  /\ stack' = [stack EXCEPT ![w] = <<call>>]
  /\ parent' = [parent EXCEPT ![w] = <<t, Len(stack[t]) - 2>>]

Start(t, w, call) ==
  /\ At(t, "body")
  /\ Unused(w)
  /\ stack' = [stack EXCEPT ![w] = <<call>>]
  /\ parent' = [parent EXCEPT ![w] = <<t, Len(stack[t])>>]

(* il2cpp_thread(pred, args...) *)
il2cpp_thread(t, w) ==
  /\ Start(t, w, attached_invoke(TRUE))
  /\ UNCHANGED <<attached, env, task, terminated>>

(* A new thread finds itself detached, so both builds attach it; the       *)
(* future takes what the function throws.                                  *)
il2cpp_async(t, w) ==
  /\ Policies \intersect {"async", "any"} # {}
  /\ Start(t, w, attached_invoke(FALSE))
  /\ UNCHANGED <<attached, env, task, terminated>>

(* The policy, or a system without a thread to spare under "any", makes    *)
(* the call wait for its future to be asked.                               *)
il2cpp_async_deferred(t, k) ==
  /\ Policies \intersect {"deferred", "any"} # {}
  /\ At(t, "body")
  /\ task[k] = "none"
  /\ task' = [task EXCEPT ![k] = "pending"]
  /\ UNCHANGED <<stack, parent, attached, env, terminated>>

(* Deviation: the thread is attached and detached whatever it was before. *)
il2cpp_async_internalUnchecked(t, k) ==
  /\ At(t, "body")
  /\ task[k] = "pending"
  /\ task' = [task EXCEPT ![k] = "started"]
  /\ stack' = [stack EXCEPT ![t] = Append(@, attached_invoke(FALSE))]
  /\ UNCHANGED <<parent, attached, env, terminated>>

(* il2cpp's list of attached threads has the current one. *)
is_thread_attached(t) == t \in attached

(* get() or wait() on a deferred future calls il2cpp_async_internal here.  *)
il2cpp_async_internal(t, k) ==
  /\ At(t, "body")
  /\ task[k] = "pending"
  /\ task' = [task EXCEPT ![k] = "started"]
  /\ stack' = [stack EXCEPT ![t] = Append(@,
       IF ChecksAttached /\ is_thread_attached(t) THEN plain_invoke ELSE attached_invoke(FALSE))]
  /\ UNCHANGED <<parent, attached, env, terminated>>

attach_thread(t) ==
  /\ At(t, "attach")
  /\ attached' = attached \union {t}
  /\ env' = env \union {t}
  /\ stack' = InnermostAt(t, "body")
  /\ UNCHANGED <<parent, task, terminated>>

(* Deviation: whoever leaves a scope waits for every other thread. *)
EveryThreadDone(t) == \A w \in Workers \ {t} : stack[w] = <<>>

(* The scope of the innermost call ends once the threads it created are    *)
(* joined (~il2cpp_thread, ~future).                                       *)
ChildrenDone(t) ==
  \A w \in Workers : parent[w] = <<t, Len(stack[t])>> => stack[w] = <<>>

Leave(t) ==
  /\ At(t, "body")
  /\ stack[t] # <<plain_invoke>>
  /\ ChildrenDone(t)
  /\ stack' = IF Last(stack[t]).attaches THEN InnermostAt(t, "detach")
              ELSE [stack EXCEPT ![t] = Front(@)]

Return(t) ==
  /\ Leave(t)
  /\ UNCHANGED <<parent, attached, env, task, terminated>>

(* Deviation: an exception skips detach_thread. *)
ThrowSkipsDetach(t) ==
  /\ At(t, "body")
  /\ stack[t] # <<plain_invoke>>
  /\ ChildrenDone(t)
  /\ stack' = [stack EXCEPT ![t] = Front(@)]
  /\ terminated' = Last(stack[t]).spawn
  /\ UNCHANGED <<parent, attached, env, task>>

(* An exception runs on_scope_exit too, except where nothing catches it.   *)
Throw(t) ==
  /\ Leave(t)
  /\ terminated' = Last(stack[t]).spawn
  /\ UNCHANGED <<parent, attached, env, task>>

detach_thread(t) ==
  /\ At(t, "detach")
  /\ attached' = attached \ {t}
  /\ env' = env \ {t}
  /\ stack' = [stack EXCEPT ![t] = Front(@)]
  /\ UNCHANGED <<parent, task, terminated>>

Next ==
  \E t \in Threads :
    \/ \E w \in Workers : il2cpp_thread(t, w) \/ il2cpp_async(t, w)
    \/ \E k \in Tasks : il2cpp_async_deferred(t, k) \/ il2cpp_async_internal(t, k)
    \/ attach_thread(t) \/ Return(t) \/ Throw(t) \/ detach_thread(t)

Spec == Init /\ [][Next]_vars

(* The scheduler runs every thread, and the functions handed over return.  *)
Fairness ==
  \A t \in Threads : WF_vars(attach_thread(t)) /\ WF_vars(Return(t)) /\ WF_vars(detach_thread(t))

FairSpec == Spec /\ Fairness

--------------------------------------------------------------------------------
(* Properties. *)

(* A thread that il2cpp_thread or il2cpp_async created is registered from  *)
(* before its function starts until it exits ("automatically will register *)
(* with il2cpp and deregister once it exits"), whatever it calls meanwhile.*)
RegisteredUntilExit ==
  \A w \in Workers :
    (stack[w] # <<>> /\ stack[w][1].pc # "attach") => w \in attached /\ w \in env

(* A finished thread leaves no registration behind.                        *)
NoneLeftAttached == \A w \in Workers : stack[w] = <<>> => w \notin attached

(* Joining terminates: a created thread runs, detaches and is gone, unless *)
(* an exception terminated the program.                                    *)
ThreadsFinish ==
  \A w \in Workers : stack[w] # <<>> ~> (stack[w] = <<>> \/ terminated)

================================================================================
