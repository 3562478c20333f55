---------------------------- MODULE Threading_proofs ----------------------------
(***************************************************************************)
(* Proofs about Threading, for any number of threads and deferred calls.   *)
(*                                                                         *)
(* A thread that was created begins with a call of attached_invoke, which  *)
(* is the last one it leaves, so it is detached when it is gone, in every  *)
(* build (Based).  That it stays registered until then needs               *)
(* is_thread_attached: then whatever else it is in are plain calls         *)
(* (Layered).                                                              *)
(***************************************************************************)
EXTENDS Threading, SequenceTheorems, TLAPS

Labels == {"attach", "body", "detach"}

(* A created thread's outermost call attaches it, and it is detached       *)
(* before it is created and when it is gone.                               *)
Based ==
  \A w \in Workers :
    /\ Unused(w) => stack[w] = <<>>
    /\ stack[w] # <<>> => stack[w][1].attaches
    /\ stack[w] = <<>> => w \notin attached

(* With is_thread_attached the calls inside the outermost one are plain,   *)
(* and the thread is registered once that one has attached it.             *)
Layered ==
  \A w \in Workers :
    /\ \A i \in DOMAIN stack[w] : i > 1 => ~stack[w][i].attaches /\ stack[w][i].pc = "body"
    /\ Len(stack[w]) > 1 => stack[w][1].pc = "body"
    /\ (stack[w] # <<>> /\ stack[w][1].pc # "attach") => w \in attached /\ w \in env

--------------------------------------------------------------------------------
(* Stacks of calls. *)
LEMMA CallsTyped == ASSUME NEW spawn \in BOOLEAN
                    PROVE  attached_invoke(spawn) \in Call /\ plain_invoke \in Call
  BY DEF attached_invoke, plain_invoke, Call

(* The top of a stack. *)
LEMMA StackNotEmpty ==
  ASSUME NEW s \in Seq(Call), s # <<>>
  PROVE  /\ Len(s) \in Nat /\ Len(s) > 0 /\ DOMAIN s = 1 .. Len(s)
         /\ Last(s) = s[Len(s)] /\ Last(s) \in Call
  BY DEF Last

(* A positive number that is not one. *)
LEMMA DeeperThanOne == \A n \in Nat : n > 0 /\ n # 1 => n > 1
  OBVIOUS

(* The innermost call goes on. *)
LEMMA InnermostMoves ==
  ASSUME NEW s \in Seq(Call), s # <<>>, NEW l \in Labels
  PROVE  LET r == [s EXCEPT ![Len(s)].pc = l]
         IN  /\ r \in Seq(Call) /\ Len(r) = Len(s) /\ r # <<>>
             /\ \A i \in 1 .. Len(s) - 1 : r[i] = s[i]
             /\ r[Len(s)].pc = l /\ r[Len(s)].attaches = s[Len(s)].attaches
  <1> DEFINE c == [s[Len(s)] EXCEPT !.pc = l]
             r == [s EXCEPT ![Len(s)] = c]
  <1>1. Len(s) \in Nat /\ Len(s) > 0 /\ s[Len(s)] \in Call
    BY StackNotEmpty
  <1>2. c \in Call /\ c.pc = l /\ c.attaches = s[Len(s)].attaches
    BY <1>1 DEF Call, Labels
  <1> HIDE DEF c
  <1>3. /\ r \in Seq(Call) /\ Len(r) = Len(s) /\ r # <<>>
        /\ \A i \in 1 .. Len(s) - 1 : r[i] = s[i]
        /\ r[Len(s)] = c
    BY <1>1, <1>2
  <1> QED
    BY <1>2, <1>3 DEF c

(* A stack without its top. *)
LEMMA FrontProperties ==
  ASSUME NEW s \in Seq(Call), s # <<>>
  PROVE  /\ Front(s) \in Seq(Call) /\ Len(Front(s)) = Len(s) - 1
         /\ DOMAIN Front(s) \subseteq DOMAIN s
         /\ \A i \in DOMAIN Front(s) : Front(s)[i] = s[i]
  <1>1. Len(s) \in Nat /\ Len(s) > 0 /\ DOMAIN s = 1 .. Len(s)
    BY StackNotEmpty
  <1>2. \A i \in 1 .. Len(s) - 1 : s[i] \in Call
    BY <1>1
  <1> QED
    BY <1>1, <1>2, SubSeqProperties DEF Front

(* A stack with a call on it. *)
LEMMA PushProperties ==
  ASSUME NEW s \in Seq(Call), NEW c \in Call
  PROVE  /\ Append(s, c) \in Seq(Call) /\ Len(Append(s, c)) = Len(s) + 1 /\ Len(s) \in Nat
         /\ \A i \in 1 .. Len(s) : Append(s, c)[i] = s[i]
         /\ Append(s, c)[Len(s) + 1] = c
  OBVIOUS

(* What an action does to the stack of its thread: nothing else changes.   *)
Pushes(t, c) == stack' = [stack EXCEPT ![t] = Append(@, c)]
Moves(t, l) == stack[t] # <<>> /\ stack' = [stack EXCEPT ![t][Len(stack[t])].pc = l]
Pops(t) == stack[t] # <<>> /\ stack' = [stack EXCEPT ![t] = Front(@)]

(* The step of a thread that changes its own stack only. *)
LEMMA LeaveSteps ==
  ASSUME NEW t \in Threads, Leave(t)
  PROVE  /\ At(t, "body")
         /\ IF Last(stack[t]).attaches THEN Moves(t, "detach") ELSE Pops(t)
  BY DEF Leave, At, InnermostAt, Moves, Pops

--------------------------------------------------------------------------------
(* Every step keeps the types. *)
LEMMA TypeStep == TypeOK /\ [Next]_vars => TypeOK'
  <1> SUFFICES ASSUME TypeOK, [Next]_vars PROVE TypeOK'
    OBVIOUS
  <1>0. stack \in [Threads -> Seq(Call)] /\ Workers \subseteq Threads
    BY DEF TypeOK, Threads
  <1>1. ASSUME NEW t \in Threads, NEW w \in Workers, NEW spawn \in BOOLEAN, Start(t, w, attached_invoke(spawn)),
               UNCHANGED <<attached, env, task, terminated>>
        PROVE  TypeOK'
    <2>1. <<attached_invoke(spawn)>> \in Seq(Call)
      BY CallsTyped
    <2>2. Len(stack[t]) \in Nat
      BY <1>0
    <2>3. stack' \in [Threads -> Seq(Call)] /\ parent' \in [Workers -> Threads \X Nat]
      BY <1>0, <1>1, <2>1, <2>2 DEF Start, TypeOK
    <2> QED
      BY <1>1, <2>3 DEF TypeOK
  <1>2. ASSUME NEW t \in Threads, NEW k \in Tasks, il2cpp_async_deferred(t, k)
        PROVE  TypeOK'
    BY <1>2 DEF il2cpp_async_deferred, TypeOK
  <1>3. ASSUME NEW t \in Threads, NEW k \in Tasks, il2cpp_async_internal(t, k)
        PROVE  TypeOK'
    <2>1. PICK c \in Call : stack' = [stack EXCEPT ![t] = Append(@, c)]
      BY <1>3, CallsTyped DEF il2cpp_async_internal
    <2>2. stack' \in [Threads -> Seq(Call)]
      BY <1>0, <2>1
    <2> QED
      BY <1>3, <2>2 DEF il2cpp_async_internal, TypeOK
  <1>4. ASSUME NEW t \in Threads, NEW l \in Labels, Moves(t, l)
        PROVE  stack' \in [Threads -> Seq(Call)]
    BY <1>0, <1>4, InnermostMoves DEF Moves
  <1>5. ASSUME NEW t \in Threads, Pops(t)
        PROVE  stack' \in [Threads -> Seq(Call)]
    BY <1>0, <1>5, FrontProperties DEF Pops
  <1>6. ASSUME NEW t \in Threads, attach_thread(t)
        PROVE  TypeOK'
    <2>1. Moves(t, "body")
      BY <1>6 DEF attach_thread, At, InnermostAt, Moves
    <2> QED
      BY <1>4, <1>6, <2>1 DEF attach_thread, TypeOK, Labels
  <1>7. ASSUME NEW t \in Threads, Return(t) \/ Throw(t)
        PROVE  TypeOK'
    <2>1. stack' \in [Threads -> Seq(Call)]
      BY <1>4, <1>5, <1>7, LeaveSteps DEF Return, Throw, Labels
    <2>2. Last(stack[t]).spawn \in BOOLEAN
      BY <1>0, <1>7, StackNotEmpty DEF Return, Throw, Leave, At, Call
    <2> QED
      BY <1>7, <2>1, <2>2 DEF Return, Throw, TypeOK
  <1>8. ASSUME NEW t \in Threads, detach_thread(t)
        PROVE  TypeOK'
    <2>1. Pops(t)
      BY <1>8 DEF detach_thread, At, Pops
    <2> QED
      BY <1>5, <1>8, <2>1 DEF detach_thread, TypeOK
  <1>9. CASE UNCHANGED vars
    BY <1>9 DEF TypeOK, vars
  <1> QED
    BY <1>1, <1>2, <1>3, <1>6, <1>7, <1>8, <1>9 DEF Next, il2cpp_thread, il2cpp_async

(* Stacks hold calls; threads, futures and registrations have their types. *)
THEOREM TypeCorrect == Spec => []TypeOK
  <1>1. Init => TypeOK
    <2>1. plain_invoke \in Call /\ <<plain_invoke>> \in Seq(Call) /\ <<>> \in Seq(Call)
      BY DEF plain_invoke, Call
    <2>2. ASSUME Init PROVE stack \in [Threads -> Seq(Call)]
      BY <2>1, <2>2 DEF Init, plain_invoke
    <2>3. Main \in Threads /\ NoParent \in Threads \X Nat
      BY DEF Threads, NoParent
    <2> QED
      BY <2>2, <2>3 DEF Init, TypeOK
  <1> QED
    BY <1>1, TypeStep, PTL DEF Spec

--------------------------------------------------------------------------------
(* Every step keeps the attaching call at the bottom of a created thread's *)
(* stack.                                                                  *)
LEMMA BasedStep == TypeOK /\ Based /\ [Next]_vars => Based'
  <1> SUFFICES ASSUME TypeOK, Based, [Next]_vars PROVE Based'
    OBVIOUS
  <1>0. stack \in [Threads -> Seq(Call)] /\ parent \in [Workers -> Threads \X Nat] /\ Workers \subseteq Threads
    BY DEF TypeOK, Threads
  <1> USE DEF Based, Unused
  <1>1. ASSUME NEW t \in Threads, NEW w \in Workers, NEW spawn \in BOOLEAN, Start(t, w, attached_invoke(spawn)),
               UNCHANGED <<attached, env, task, terminated>>
        PROVE  Based'
    <2>1. parent'[w] # NoParent
      BY <1>0, <1>1, StackNotEmpty DEF Start, At, NoParent
    <2>2. stack'[w] = <<attached_invoke(spawn)>> /\ \A u \in Workers \ {w} : stack'[u] = stack[u] /\ parent'[u] = parent[u]
      BY <1>0, <1>1 DEF Start
    <2>3. stack'[w] # <<>> /\ stack'[w][1].attaches
      BY <2>2 DEF attached_invoke
    <2> QED
      BY <1>1, <2>1, <2>2, <2>3 DEF NoParent
  <1>2. ASSUME NEW t \in Threads, NEW k \in Tasks, il2cpp_async_deferred(t, k)
        PROVE  Based'
    BY <1>2 DEF il2cpp_async_deferred, NoParent
  <1>3. ASSUME NEW t \in Threads, NEW k \in Tasks, il2cpp_async_internal(t, k)
        PROVE  Based'
    <2>1. PICK c \in Call : Pushes(t, c)
      BY <1>3, CallsTyped DEF il2cpp_async_internal, Pushes
    <2>2. stack[t] # <<>> /\ Len(stack[t]) \in Nat /\ Len(stack[t]) > 0
      BY <1>0, <1>3, StackNotEmpty DEF il2cpp_async_internal, At
    <2>3. stack'[t] # <<>> /\ stack'[t][1] = stack[t][1] /\ \A u \in Threads \ {t} : stack'[u] = stack[u]
      BY <1>0, <2>1, <2>2, PushProperties DEF Pushes
    <2> QED
      BY <1>0, <1>3, <2>2, <2>3 DEF il2cpp_async_internal, NoParent
  <1>4. ASSUME NEW t \in Threads, NEW l \in Labels, Moves(t, l), parent' = parent,
               \A w \in Workers \ {t} : w \in attached' <=> w \in attached
        PROVE  Based'
    <2>1. stack[t] # <<>> /\ Len(stack[t]) \in Nat /\ Len(stack[t]) > 0
      BY <1>0, <1>4, StackNotEmpty DEF Moves
    <2>2. /\ stack'[t] # <<>> /\ stack'[t][1].attaches = stack[t][1].attaches
          /\ \A u \in Threads \ {t} : stack'[u] = stack[u]
      BY <1>0, <1>4, <2>1, InnermostMoves DEF Moves
    <2> QED
      BY <1>0, <1>4, <2>1, <2>2 DEF NoParent
  <1>5. ASSUME NEW t \in Threads, Pops(t), parent' = parent,
               \A w \in Workers \ {t} : w \in attached' <=> w \in attached,
               t \in attached' => Len(stack[t]) > 1 \/ t = Main
        PROVE  Based'
    <2>1. stack[t] # <<>> /\ Len(stack[t]) \in Nat /\ Len(stack[t]) > 0
      BY <1>0, <1>5, StackNotEmpty DEF Pops
    <2>2. /\ Len(stack'[t]) = Len(stack[t]) - 1 /\ stack'[t] \in Seq(Call)
          /\ stack'[t] # <<>> => stack'[t][1] = stack[t][1]
          /\ \A u \in Threads \ {t} : stack'[u] = stack[u]
      BY <1>0, <1>5, <2>1, FrontProperties DEF Pops
    <2> QED
      BY <1>0, <1>5, <2>1, <2>2, MainAssumption DEF NoParent
  <1>6. ASSUME NEW t \in Threads, attach_thread(t)
        PROVE  Based'
    <2>1. Moves(t, "body") /\ parent' = parent
      BY <1>6 DEF attach_thread, At, InnermostAt, Moves
    <2> QED
      BY <1>4, <1>6, <2>1 DEF attach_thread, Labels
  <1>7. ASSUME NEW t \in Threads, Return(t) \/ Throw(t)
        PROVE  Based'
    <2>1. parent' = parent /\ attached' = attached /\ stack[t] # <<>>
          /\ IF Last(stack[t]).attaches THEN Moves(t, "detach") ELSE Pops(t)
      BY <1>7, LeaveSteps DEF Return, Throw, At
    <2>2. CASE Last(stack[t]).attaches
      BY <1>4, <2>1, <2>2 DEF Labels
    <2>3. CASE ~Last(stack[t]).attaches
      <3>1. t \in Workers => Len(stack[t]) > 1
        BY <1>0, <2>1, <2>3, StackNotEmpty
      <3> QED
        BY <1>5, <2>1, <2>3, <3>1 DEF Threads
    <2> QED
      BY <2>2, <2>3
  <1>8. ASSUME NEW t \in Threads, detach_thread(t)
        PROVE  Based'
    <2>1. Pops(t) /\ parent' = parent /\ attached' = attached \ {t}
      BY <1>8 DEF detach_thread, At, Pops
    <2> QED
      BY <1>5, <2>1
  <1>9. CASE UNCHANGED vars
    BY <1>9 DEF vars, NoParent
  <1> QED
    BY <1>1, <1>2, <1>3, <1>6, <1>7, <1>8, <1>9 DEF Next, il2cpp_thread, il2cpp_async

(* So it is always there. *)
LEMMA BasedInvariant == Spec => []Based
  <1>1. Init => Based
    BY MainAssumption DEF Init, Based, Threads
  <1> QED
    BY <1>1, BasedStep, TypeCorrect, PTL DEF Spec

(* A finished thread leaves no registration behind, in every build.        *)
THEOREM FinishedAreDetached == Spec => []NoneLeftAttached
  <1>1. Based => NoneLeftAttached
    BY DEF Based, NoneLeftAttached
  <1> QED
    BY <1>1, BasedInvariant, PTL

--------------------------------------------------------------------------------
(* Registration follows from the stack of a thread, and only the build     *)
(* that asks is_thread_attached keeps the stack so.                        *)
LEMMA LayeredStep ==
  ASSUME ChecksAttached, TypeOK, Based, Layered, [Next]_vars
  PROVE  Layered'
  <1>0. stack \in [Threads -> Seq(Call)] /\ Workers \subseteq Threads
    BY DEF TypeOK, Threads
  <1> USE DEF Layered
  <1>1. ASSUME NEW t \in Threads, NEW w \in Workers, NEW spawn \in BOOLEAN, Start(t, w, attached_invoke(spawn)),
               UNCHANGED <<attached, env, task, terminated>>
        PROVE  Layered'
    <2>1. stack'[w] = <<attached_invoke(spawn)>> /\ \A u \in Workers \ {w} : stack'[u] = stack[u]
      BY <1>0, <1>1 DEF Start
    <2>2. DOMAIN stack'[w] = {1} /\ Len(stack'[w]) = 1 /\ stack'[w][1].pc = "attach"
      BY <2>1 DEF attached_invoke
    <2>3. ASSUME NEW u \in Workers
          PROVE  /\ \A i \in DOMAIN stack'[u] : i > 1 => ~stack'[u][i].attaches /\ stack'[u][i].pc = "body"
                 /\ Len(stack'[u]) > 1 => stack'[u][1].pc = "body"
                 /\ (stack'[u] # <<>> /\ stack'[u][1].pc # "attach") => u \in attached /\ u \in env
      <3>1. CASE u = w
        <4>1. \A i \in DOMAIN stack'[w] : ~(i > 1)
          BY <2>2
        <4>2. ~(Len(stack'[w]) > 1)
          BY <2>2
        <4> QED
          BY <2>2, <3>1, <4>1, <4>2, Zenon
      <3>2. CASE u # w
        <4>1. stack'[u] = stack[u]
          BY <2>1, <3>2
        <4> QED
          BY <4>1
      <3> QED
        BY <3>1, <3>2
    <2> QED
      BY <1>1, <2>3
  <1>2. ASSUME NEW t \in Threads, NEW k \in Tasks, il2cpp_async_deferred(t, k)
        PROVE  Layered'
    BY <1>2 DEF il2cpp_async_deferred
  <1>3. ASSUME NEW t \in Threads, NEW k \in Tasks, il2cpp_async_internal(t, k)
        PROVE  Layered'
    <2>1. /\ stack[t] \in Seq(Call) /\ Len(stack[t]) \in Nat /\ Len(stack[t]) > 0 /\ DOMAIN stack[t] = 1 .. Len(stack[t])
          /\ stack[t] # <<>> /\ stack[t][Len(stack[t])].pc = "body"
      BY <1>0, <1>3, StackNotEmpty DEF il2cpp_async_internal, At
    <2>2. ASSUME t \in Workers
          PROVE  stack[t][1].pc = "body" /\ t \in attached
      BY <2>1, <2>2
    <2>3. t \in Workers => stack' = [stack EXCEPT ![t] = Append(@, plain_invoke)]
      BY <1>3, <2>2 DEF il2cpp_async_internal, is_thread_attached
    <2>4. \A u \in Workers \ {t} : stack'[u] = stack[u]
      BY <1>0, <1>3 DEF il2cpp_async_internal
    <2>5. ASSUME t \in Workers
          PROVE  /\ Len(stack'[t]) = Len(stack[t]) + 1 /\ stack'[t] \in Seq(Call)
                 /\ \A i \in 1 .. Len(stack[t]) : stack'[t][i] = stack[t][i]
                 /\ stack'[t][Len(stack[t]) + 1] = plain_invoke
      <3>1. plain_invoke \in Call
        BY CallsTyped
      <3>2. stack'[t] = Append(stack[t], plain_invoke)
        BY <1>0, <2>3, <2>5
      <3> QED
        BY <2>1, <3>1, <3>2, PushProperties
    <2>6. ASSUME t \in Workers
          PROVE  /\ \A i \in DOMAIN stack'[t] : i > 1 => ~stack'[t][i].attaches /\ stack'[t][i].pc = "body"
                 /\ stack'[t][1].pc = "body"
      <3>1. DOMAIN stack'[t] = 1 .. Len(stack[t]) + 1
        BY <2>1, <2>5, <2>6
      <3>2. ~plain_invoke.attaches /\ plain_invoke.pc = "body"
        BY DEF plain_invoke
      <3> QED
        BY <2>1, <2>2, <2>5, <2>6, <3>1, <3>2
    <2>7. UNCHANGED <<attached, env>>
      BY <1>3 DEF il2cpp_async_internal
    <2> QED
      BY <2>1, <2>2, <2>4, <2>6, <2>7
  <1>4. ASSUME NEW t \in Threads, NEW l \in Labels, Moves(t, l), Last(stack[t]).pc # l,
               t \in Workers => Last(stack[t]).attaches \/ Last(stack[t]).pc # "body",
               \A w \in Workers \ {t} : (w \in attached' <=> w \in attached) /\ (w \in env' <=> w \in env),
               t \in Workers /\ l # "attach" => t \in attached' /\ t \in env'
        PROVE  Layered'
    <2>1. /\ stack[t] # <<>> /\ stack[t] \in Seq(Call) /\ Len(stack[t]) \in Nat /\ Len(stack[t]) > 0
          /\ DOMAIN stack[t] = 1 .. Len(stack[t]) /\ Last(stack[t]) = stack[t][Len(stack[t])]
      BY <1>0, <1>4, StackNotEmpty DEF Moves
    <2>2. ASSUME t \in Workers, Len(stack[t]) # 1 PROVE FALSE
      <3>1. Len(stack[t]) > 1
        BY <2>1, <2>2, DeeperThanOne
      <3>3. Len(stack[t]) \in DOMAIN stack[t]
        BY <2>1
      <3>2. ~stack[t][Len(stack[t])].attaches /\ stack[t][Len(stack[t])].pc = "body"
        BY <2>2, <3>1, <3>3
      <3> QED
        BY <1>4, <2>1, <2>2, <3>2
    <2>3. /\ \A u \in Workers \ {t} : stack'[u] = stack[u]
          /\ Len(stack'[t]) = Len(stack[t]) /\ stack'[t] \in Seq(Call)
          /\ stack'[t][Len(stack[t])].pc = l
      BY <1>0, <1>4, <2>1, InnermostMoves DEF Moves
    <2>4. t \in Workers => DOMAIN stack'[t] = {1} /\ stack'[t][1].pc = l
      BY <2>1, <2>2, <2>3
    <2> QED
      BY <1>4, <2>2, <2>3, <2>4
  <1>5. ASSUME NEW t \in Threads, Pops(t),
               \A w \in Workers \ {t} : (w \in attached' <=> w \in attached) /\ (w \in env' <=> w \in env),
               ((t \in attached' <=> t \in attached) /\ (t \in env' <=> t \in env)) \/ (t \in Workers => Len(stack[t]) = 1)
        PROVE  Layered'
    <2>1. stack[t] # <<>> /\ stack[t] \in Seq(Call) /\ Len(stack[t]) \in Nat /\ Len(stack[t]) > 0
          /\ DOMAIN stack[t] = 1 .. Len(stack[t])
      BY <1>0, <1>5, StackNotEmpty DEF Pops
    <2>2. /\ \A u \in Workers \ {t} : stack'[u] = stack[u]
          /\ Len(stack'[t]) = Len(stack[t]) - 1 /\ stack'[t] \in Seq(Call)
          /\ \A i \in DOMAIN stack'[t] : i \in DOMAIN stack[t] /\ stack'[t][i] = stack[t][i]
      BY <1>0, <1>5, <2>1, FrontProperties DEF Pops
    <2>3. DOMAIN stack'[t] = 1 .. Len(stack[t]) - 1
      BY <2>1, <2>2
    <2>4. Len(stack[t]) > 1 => stack'[t][1] = stack[t][1]
      BY <2>1, <2>2, <2>3
    <2>5. Len(stack[t]) = 1 => stack'[t] = <<>>
      BY <2>2, EmptySeq
    <2>6. ASSUME t \in Workers
          PROVE  /\ \A i \in DOMAIN stack'[t] : i > 1 => ~stack'[t][i].attaches /\ stack'[t][i].pc = "body"
                 /\ Len(stack'[t]) > 1 => stack'[t][1].pc = "body"
                 /\ (stack'[t] # <<>> /\ stack'[t][1].pc # "attach") => t \in attached' /\ t \in env'
      <3>1. \A i \in DOMAIN stack'[t] : i > 1 => ~stack'[t][i].attaches /\ stack'[t][i].pc = "body"
        BY <2>2, <2>6
      <3>2. Len(stack'[t]) > 1 => stack'[t][1].pc = "body"
        BY <2>1, <2>2, <2>4, <2>6
      <3>3. ASSUME stack'[t] # <<>>, stack'[t][1].pc # "attach"
            PROVE  t \in attached' /\ t \in env'
        <4>1. Len(stack[t]) # 1 /\ Len(stack[t]) > 1
          BY <2>1, <2>5, <3>3, DeeperThanOne
        <4>2. t \in attached /\ t \in env
          BY <2>1, <2>4, <2>6, <3>3, <4>1
        <4> QED
          BY <1>5, <2>6, <4>1, <4>2
      <3> QED
        BY <3>1, <3>2, <3>3
    <2> QED
      BY <1>5, <2>2, <2>6
  <1>6. ASSUME NEW t \in Threads, attach_thread(t)
        PROVE  Layered'
    <2>1. Moves(t, "body") /\ Last(stack[t]).pc = "attach"
      BY <1>6 DEF attach_thread, At, InnermostAt, Moves
    <2> QED
      BY <1>4, <1>6, <2>1 DEF attach_thread, Labels
  <1>7. ASSUME NEW t \in Threads, Return(t) \/ Throw(t)
        PROVE  Layered'
    <2>1. /\ UNCHANGED <<attached, env>> /\ stack[t] # <<>> /\ Last(stack[t]).pc = "body"
          /\ IF Last(stack[t]).attaches THEN Moves(t, "detach") ELSE Pops(t)
      BY <1>7, LeaveSteps DEF Return, Throw, At
    <2>2. CASE Last(stack[t]).attaches
      <3>1. t \in Workers => stack[t][1].pc # "attach"
        BY <1>0, <2>1, <2>2, StackNotEmpty
      <3> QED
        BY <1>4, <2>1, <2>2, <3>1 DEF Labels
    <2>3. CASE ~Last(stack[t]).attaches
      BY <1>5, <2>1, <2>3
    <2> QED
      BY <2>2, <2>3
  <1>8. ASSUME NEW t \in Threads, detach_thread(t)
        PROVE  Layered'
    <2>1. Pops(t) /\ Last(stack[t]).pc = "detach"
      BY <1>8 DEF detach_thread, At, Pops
    <2>2. ASSUME t \in Workers, Len(stack[t]) # 1 PROVE FALSE
      <3>1. /\ Len(stack[t]) \in Nat /\ Len(stack[t]) > 0 /\ DOMAIN stack[t] = 1 .. Len(stack[t])
            /\ Last(stack[t]) = stack[t][Len(stack[t])]
        BY <1>0, <2>1, StackNotEmpty DEF Pops
      <3>2. Len(stack[t]) > 1
        BY <2>2, <3>1, DeeperThanOne
      <3>4. Len(stack[t]) \in DOMAIN stack[t]
        BY <3>1
      <3>3. stack[t][Len(stack[t])].pc = "body"
        BY <2>2, <3>2, <3>4
      <3> QED
        BY <2>1, <3>1, <3>3
    <2> QED
      BY <1>5, <1>8, <2>1, <2>2 DEF detach_thread
  <1>9. CASE UNCHANGED vars
    BY <1>9 DEF vars
  <1> QED
    BY <1>1, <1>2, <1>3, <1>6, <1>7, <1>8, <1>9 DEF Next, il2cpp_thread, il2cpp_async

(* In the build that asks is_thread_attached a created thread is           *)
(* registered from before its function starts until it exits, whatever     *)
(* deferred calls it makes meanwhile and however they end.                 *)
THEOREM StaysRegistered ==
  ASSUME ChecksAttached
  PROVE  Spec => []RegisteredUntilExit
  <1>1. Init => Layered
    BY MainAssumption DEF Init, Layered, Threads
  <1>2. Layered => RegisteredUntilExit
    BY DEF Layered, RegisteredUntilExit
  <1>3. TypeOK /\ Based /\ Layered /\ [Next]_vars => Layered'
    BY LayeredStep
  <1> QED
    BY <1>1, <1>2, <1>3, TypeCorrect, BasedInvariant, PTL DEF Spec

================================================================================
