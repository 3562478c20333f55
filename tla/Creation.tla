------------------------------- MODULE Creation --------------------------------
(***************************************************************************)
(* Objects that C++ code makes: new_ctor (shared/members.hpp) takes the    *)
(* class of a C++ type, lets create_manual (src/types.cpp) allocate and    *)
(* run the class's .cctor if nobody has, and runs .ctor.  The .cctor is    *)
(* managed code that can end up in new_ctor again, through hooks, and can  *)
(* throw.  Several threads do this while the game loads assemblies and     *)
(* initializes classes; Classes has the lookups.                           *)
(***************************************************************************)
EXTENDS Classes

CONSTANTS
  Creatable, \* the types objects are made of
  Cctors,    \* names of the classes that have a .cctor
  MaxNested  \* bound on the calls a run of .cctor makes

ASSUME CctorsAssumption == Creatable \subseteq Types /\ Cctors \subseteq Names /\ MaxNested \in Nat

VARIABLES
  cctor_started,  \* classes with that flag
  cctor_finished, \* classes with cctor_finished_or_no_cctor
  threw           \* history: classes whose .cctor has thrown

creation_vars == <<cctor_started, cctor_finished, threw>>

vars == <<lookup_vars, stack, creation_vars>>

(* Every class a lookup can return. *)
AllClasses ==
  UNION {{Class(i, k, form) : k \in Assemblies[i], form \in {"plain", "array", "generic"}} : i \in DOMAIN Assemblies}

has_cctor(c) == c.form # "array" /\ c.name \in Cctors

Init ==
  /\ LookupInit
  /\ cctor_started = {} /\ threw = {}
  /\ cctor_finished = {c \in AllClasses : ~has_cctor(c)}

new_ctor(T) == Frame("new_ctor", T, "class")

create_manual(c) == Frame("create_manual", c, "check")

--------------------------------------------------------------------------------
AskClass(t) ==
  /\ At(t, "new_ctor", "class")
  /\ Calls(t, class_of(Top(t).of), "create")
  /\ UNCHANGED <<lookup_vars, creation_vars>>

(* An exception passes the depth'th frame: a new_ctor that returns errors  *)
(* is noexcept, any other is left, and managed code gets the exception.    *)
(* Whether a new_ctor returns its errors is chosen where it matters first. *)
Unwound(t, depth) ==
  IF depth > 0 /\ stack[t][depth].fn = "new_ctor"
    THEN \/ Crash
         \/ stack' = [stack EXCEPT ![t] = SubSeq(@, 1, depth - 1)] /\ UNCHANGED crashed
    ELSE stack' = [stack EXCEPT ![t] = SubSeq(@, 1, depth)] /\ UNCHANGED crashed

(* result_or_throw: an error or an exception; no object either way.        *)
Fail(t) == Answer(t, Null)

Create(t) ==
  /\ At(t, "new_ctor", "create")
  /\ IF Top(t).found = Null THEN Fail(t)
     ELSE Calls(t, create_manual(Top(t).found), "construct")
  /\ UNCHANGED <<lookup_vars, creation_vars>>

(* .ctor of the object, if there is one; it can throw as well, and is run  *)
(* by a run_method with or without a result, as new_ctor has one.          *)
Construct(t) ==
  /\ At(t, "new_ctor", "construct")
  /\ \/ Fail(t)
     \/ Top(t).found # Null /\ Answer(t, Top(t).found)
  /\ UNCHANGED <<lookup_vars, creation_vars>>

(* Null for a class that the game has not initialized and when there is no *)
(* memory; the flags are read once.                                        *)
CreateManual(t) ==
  LET c == Top(t).of  ready == ~has_cctor(c) \/ c \in cctor_finished \/ c \in cctor_started
  IN  /\ At(t, "create_manual", "check")
      /\ \/ Answer(t, Null)
         \/ ready /\ Answer(t, c)
         \/ ~ready /\ Goto(t, "start")
      /\ UNCHANGED <<lookup_vars, creation_vars>>

(* Deviation: the flag is not set before .cctor runs. *)
StartUnmarked(t) ==
  LET c == Top(t).of
  IN  /\ At(t, "create_manual", "start")
      /\ Goto(t, "cctor")
      /\ UNCHANGED <<lookup_vars, cctor_started, cctor_finished, threw>>

StartCctor(t) ==
  LET c == Top(t).of
  IN  /\ At(t, "create_manual", "start")
      /\ cctor_started' = cctor_started \union {c}
      /\ Goto(t, "cctor")
      /\ UNCHANGED <<lookup_vars, cctor_finished, threw>>

(* A hooked method that .cctor runs makes an object. *)
NestedCreate(t) ==
  /\ At(t, "create_manual", "cctor")
  /\ Top(t).i <= MaxNested
  /\ \E T \in Creatable :
       stack' = [stack EXCEPT ![t] = Append(Append(Front(@), [Top(t) EXCEPT !.i = @ + 1]), new_ctor(T))]
  /\ UNCHANGED <<lookup_vars, creation_vars>>

(* Deviation: the flag the next call looks at is not set. *)
ReturnUnmarked(t) ==
  LET c == Top(t).of
  IN  /\ At(t, "create_manual", "cctor")
      /\ Answer(t, c)
      /\ UNCHANGED <<lookup_vars, cctor_started, cctor_finished, threw>>

CctorReturns(t) ==
  LET c == Top(t).of
  IN  /\ At(t, "create_manual", "cctor")
      /\ cctor_finished' = cctor_finished \union {c}
      /\ Answer(t, c)
      /\ UNCHANGED <<lookup_vars, cctor_started, threw>>

(* run_method throws what .cctor threw; cctor_started stays set and the    *)
(* object is lost.                                                         *)
CctorThrows(t) ==
  LET c == Top(t).of
  IN  /\ At(t, "create_manual", "cctor")
      /\ threw' = threw \union {c}
      /\ Unwound(t, Len(stack[t]) - 1)
      /\ UNCHANGED <<loaded, names_to_classes, tables, statics, guards, asked,
                     cctor_started, cctor_finished>>

Calling(t) ==
  \/ LookupCalls(t)
  \/ \E T \in Creatable : Call(t, new_ctor(T))

Gone == crashed /\ UNCHANGED vars

Next ==
  \/ \E t \in Threads : Calling(t) /\ UNCHANGED creation_vars
  \/ \E t \in Threads : LookUp(t) /\ UNCHANGED creation_vars
  \/ \E t \in Threads : Search(t) /\ UNCHANGED creation_vars
  \/ \E t \in Threads : find_nested(t) /\ UNCHANGED creation_vars
  \/ \E t \in Threads : Store(t) /\ UNCHANGED creation_vars
  \/ \E t \in Threads : Return(t) /\ UNCHANGED creation_vars
  \/ \E t \in Threads : ReadStatic(t) /\ UNCHANGED creation_vars
  \/ \E t \in Threads : BeginStatic(t) /\ UNCHANGED creation_vars
  \/ \E t \in Threads : EndStatic(t) /\ UNCHANGED creation_vars
  \/ \E t \in Threads : AskElement(t) /\ UNCHANGED creation_vars
  \/ \E t \in Threads : MakeArray(t) /\ UNCHANGED creation_vars
  \/ \E t \in Threads : AskBase(t) /\ UNCHANGED creation_vars
  \/ \E t \in Threads : AskArgument(t) /\ UNCHANGED creation_vars
  \/ \E t \in Threads : make_generic(t) /\ UNCHANGED creation_vars
  \/ \E t \in Threads : NextImage(t) /\ UNCHANGED creation_vars
  \/ \E t \in Threads : add_type_to_name(t) /\ UNCHANGED creation_vars
  \/ \E t \in Threads :
       \/ AskClass(t) \/ Create(t) \/ Construct(t) \/ CreateManual(t)
       \/ StartCctor(t) \/ NestedCreate(t) \/ CctorReturns(t) \/ CctorThrows(t)
  \/ LoadAssembly /\ UNCHANGED creation_vars
  \/ Gone

Spec == Init /\ [][Next]_vars

(* What a thread does inside the calls it is in. *)
Step(t) ==
  \/ /\ \/ LookUp(t) \/ Search(t) \/ find_nested(t) \/ Store(t) \/ Return(t)
        \/ ReadStatic(t) \/ BeginStatic(t) \/ EndStatic(t) \/ AskElement(t) \/ MakeArray(t)
        \/ AskBase(t) \/ AskArgument(t) \/ make_generic(t) \/ NextImage(t) \/ add_type_to_name(t)
     /\ UNCHANGED creation_vars
  \/ AskClass(t) \/ Create(t) \/ Construct(t) \/ CreateManual(t)
  \/ StartCctor(t) \/ NestedCreate(t) \/ CctorReturns(t) \/ CctorThrows(t)

(* The scheduler runs every thread, and managed code returns. *)
FairSpec == Spec /\ \A t \in Threads : WF_vars(Step(t))

--------------------------------------------------------------------------------
(* Properties. *)

(* Every variable has a value of its type; a frame's found is a class.     *)
TypeOK ==
  /\ loaded \in 0 .. Len(Assemblies) /\ crashed \in BOOLEAN
  /\ DOMAIN names_to_classes \subseteq Names
  /\ \A k \in DOMAIN names_to_classes : names_to_classes[k] \in AllClasses
  /\ \A i \in DOMAIN Assemblies : tables[i] = Unbuilt \/ tables[i] \subseteq plain_names(i)
  /\ \A T \in Types : statics[T] \in AllClasses \union {Null} /\ guards[T] \in {"unset", "running", "done"}
  /\ \A t \in Threads : \A d \in DOMAIN stack[t] : stack[t][d].found \in AllClasses \union {Null}
  /\ cctor_started \union cctor_finished \union threw \subseteq AllClasses

(* A class's .cctor that makes objects of its own class, in any number of  *)
(* calls, is not entered again by its thread ("BE WARNED" says that other  *)
(* threads may).                                                           *)
CctorNotReentered ==
  \A t \in Threads : \A d, e \in DOMAIN stack[t] :
    (stack[t][d].at = "cctor" /\ stack[t][e].at = "cctor" /\ stack[t][d].of = stack[t][e].of) => d = e

Running(c) ==
  \E t \in Threads : \E d \in DOMAIN stack[t] : stack[t][d].fn = "create_manual" /\ stack[t][d].of = c
                                                /\ stack[t][d].at = "cctor"

(* Objects are of classes that are ready: create_manual hands out objects  *)
(* of classes whose .cctor somebody has started, and once nobody is in it, *)
(* and unless it has thrown, it is finished.                               *)
ReadyWhenQuiet ==
  /\ \A t \in Threads : (Returning(t, "create_manual") /\ Top(t).found # Null)
                          => Top(t).of \in cctor_started \union cctor_finished
  /\ \A c \in cctor_started \ threw : crashed \/ Running(c) \/ c \in cctor_finished

(* Every call returns, whatever is waited for in it (unless the program is *)
(* gone, with all calls).                                                  *)
CallsReturn ==
  \A t \in Threads : stack[t] # <<>> ~> stack[t] = <<>>

================================================================================
