-------------------------------- MODULE Classes --------------------------------
(***************************************************************************)
(* How C++ code gets at il2cpp classes: get_class_from_name with its cache *)
(* (src/types.cpp), the class of a C++ type (class_of, shared/types.hpp),  *)
(* which keeps what it got in a static, and log_classes (src/debug.cpp),   *)
(* which fills the tables il2cpp itself looks names up in.  The game loads *)
(* assemblies meanwhile.                                                   *)
(*                                                                         *)
(* A name is a sequence: <<"A", "B">> is the class "A/B" nested in "A".    *)
(* The calls a thread is in are a stack of frames.  Creation adds the      *)
(* calls that make objects, and composes.                                  *)
(***************************************************************************)
EXTENDS Integers, Sequences, FiniteSetsExt, SequencesExt

CONSTANTS
  Threads,
  Assemblies, \* Assemblies[i]: the names defined in the i-th assembly
  Types,      \* C++ types with a class: see class_of
  LoadedAtStart,
  Asked,      \* the names asked for directly
  LogsAlone   \* whether log_classes runs while no other call does

Names == UNION {Assemblies[i] : i \in DOMAIN Assemblies}

ASSUME AssembliesAssumption ==
  /\ Assemblies \in Seq(SUBSET Seq(STRING))
  /\ \A i \in DOMAIN Assemblies : \A k \in Assemblies[i] : k # <<>> /\ (Len(k) > 1 => Front(k) \in Assemblies[i])
ASSUME TypesAssumption ==
  \A T \in Types :
    \/ T.form = "plain" /\ T.name \in Seq(STRING) /\ T.name # <<>>
    \/ T.form = "array" /\ T.element \in Types
    \/ T.form = "generic" /\ T.name \in Seq(STRING) /\ T.name # <<>> /\ T.argument \in Types
ASSUME LoadedAssumption == LoadedAtStart \in 0 .. Len(Assemblies) /\ Asked \subseteq Names /\ LogsAlone \in BOOLEAN

VARIABLES
  loaded,           \* how many assemblies are loaded
  names_to_classes, \* the cache
  tables,           \* tables[i]: nameToClassHashTable of assembly i's image
  statics,          \* statics[T]: the static klass of T
  guards,           \* guards[T]: how far its initialization is
  asked,            \* history: asked[T]: loaded when that initialization began
  stack,            \* stack[t]: frames of the calls t is in
  crashed           \* the program is gone: null was read as a class

lookup_vars == <<loaded, names_to_classes, tables, statics, guards, asked, crashed>>

Unbuilt == {<<>>}

Class(i, name, form) == [assembly |-> i, name |-> name, form |-> form]

Null == Class(0, <<>>, "plain")

LookupInit ==
  /\ loaded = LoadedAtStart
  /\ names_to_classes = <<>>
  /\ tables = [i \in DOMAIN Assemblies |-> Unbuilt]
  /\ statics = [T \in Types |-> Null]
  /\ guards = [T \in Types |-> "unset"]
  /\ asked = [T \in Types |-> 0]
  /\ stack = [t \in Threads |-> <<>>]
  /\ crashed = FALSE

--------------------------------------------------------------------------------
(* Frames.  "since" is history: what was loaded when a lookup began.       *)
Frame(fn, of, at) == [fn |-> fn, of |-> of, at |-> at, i |-> 1, n |-> 0, base |-> Null, found |-> Null, since |-> 0]

get_class_from_name(name) == [Frame("get_class_from_name", [name |-> name], "lookup") EXCEPT !.since = loaded]

class_of(T) == Frame("class_of", T, "static")

log_classes == [Frame("log_classes", [name |-> <<>>], "image") EXCEPT !.n = loaded]

Top(t) == Last(stack[t])

At(t, fn, label) == stack[t] # <<>> /\ Top(t).fn = fn /\ Top(t).at = label

With(t, frame) == stack' = [stack EXCEPT ![t] = Append(Front(@), frame)]

Goto(t, label) == With(t, [Top(t) EXCEPT !.at = label])

Answer(t, class) ==
  With(t, [Top(t) EXCEPT !.at = "return", !.found = class, !.i = 1, !.n = 0, !.base = Null])

(* The call's frame goes on at label when the callee has returned. *)
Calls(t, callee, label) ==
  stack' = [stack EXCEPT ![t] = Append(Append(Front(@), [Top(t) EXCEPT !.at = label]), callee)]

Logging == \E t \in Threads : stack[t] # <<>> /\ stack[t][1].fn = "log_classes"

(* Nothing runs once the program is gone. *)
Crash == crashed' = TRUE /\ stack' = [t \in Threads |-> <<>>]

Call(t, frame) ==
  /\ ~crashed /\ stack[t] = <<>>
  /\ LogsAlone => /\ ~Logging
                  /\ frame.fn = "log_classes" => \A s \in Threads : stack[s] = <<>>
  /\ stack' = [stack EXCEPT ![t] = <<frame>>]
  /\ UNCHANGED lookup_vars

(* What a call found is in its caller's frame when it is gone. *)
Popped(t) ==
  LET below == Front(stack[t])
  IN  IF below = <<>> THEN <<>>
      ELSE Append(Front(below), [Last(below) EXCEPT !.found = Top(t).found])

Return(t) ==
  /\ stack[t] # <<>> /\ Top(t).at = "return"
  /\ stack' = [stack EXCEPT ![t] = Popped(t)]
  /\ UNCHANGED lookup_vars

--------------------------------------------------------------------------------
(* get_class_from_name *)

(* The cache under the lock; without it, the declaring class of a nested   *)
(* name by a call of the function itself, or the assemblies there are now. *)
LookUp(t) ==
  /\ At(t, "get_class_from_name", "lookup")
  /\ LET name == Top(t).of.name
     IN  IF name \in DOMAIN names_to_classes THEN Answer(t, names_to_classes[name])
         ELSE IF Len(name) > 1 THEN Calls(t, get_class_from_name(<<Head(name)>>), "nested")
         ELSE With(t, [Top(t) EXCEPT !.at = "search", !.n = loaded])
  /\ UNCHANGED lookup_vars

plain_names(i) == {k \in Assemblies[i] : Len(k) = 1}

(* il2cpp's class_from_name builds the image's table if there is none, and *)
(* otherwise believes it.                                                  *)
class_from_name(i, name) == name \in (IF tables[i] = Unbuilt THEN plain_names(i) ELSE tables[i])

TableBuilt(i) == tables' = [tables EXCEPT ![i] = IF @ = Unbuilt THEN plain_names(i) ELSE @]

(* Deviations: the last assembly that has the name; failures cached as     *)
(* well.                                                                   *)
SearchLast(t) ==
  /\ At(t, "get_class_from_name", "search")
  /\ LET name == Top(t).of.name  i == Top(t).n + 1 - Top(t).i
     IN  IF Top(t).i > Top(t).n THEN Answer(t, Null) /\ UNCHANGED tables
         ELSE /\ IF class_from_name(i, name)
                   THEN With(t, [Top(t) EXCEPT !.at = "store", !.found = Class(i, name, "plain")])
                   ELSE With(t, [Top(t) EXCEPT !.i = @ + 1])
              /\ TableBuilt(i)
  /\ UNCHANGED <<loaded, names_to_classes, statics, guards, asked, crashed>>

SearchCachesFailure(t) ==
  /\ At(t, "get_class_from_name", "search")
  /\ LET name == Top(t).of.name  i == Top(t).i
     IN  IF i > Top(t).n THEN Goto(t, "store") /\ UNCHANGED tables
         ELSE /\ IF class_from_name(i, name)
                   THEN With(t, [Top(t) EXCEPT !.at = "store", !.found = Class(i, name, "plain")])
                   ELSE With(t, [Top(t) EXCEPT !.i = @ + 1])
              /\ TableBuilt(i)
  /\ UNCHANGED <<loaded, names_to_classes, statics, guards, asked, crashed>>

(* One assembly's image is asked. *)
Search(t) ==
  /\ At(t, "get_class_from_name", "search")
  /\ LET name == Top(t).of.name  i == Top(t).i
     IN  IF i > Top(t).n THEN Answer(t, Null) /\ UNCHANGED tables
         ELSE /\ IF class_from_name(i, name)
                   THEN With(t, [Top(t) EXCEPT !.at = "store", !.found = Class(i, name, "plain")])
                   ELSE With(t, [Top(t) EXCEPT !.i = @ + 1])
              /\ TableBuilt(i)
  /\ UNCHANGED <<loaded, names_to_classes, statics, guards, asked, crashed>>

(* The nested types of the declaring class, level by level; metadata has   *)
(* them all.                                                               *)
find_nested(t) ==
  /\ At(t, "get_class_from_name", "nested")
  /\ LET name == Top(t).of.name  declaring == Top(t).found
     IN  IF declaring # Null /\ name \in Assemblies[declaring.assembly]
           THEN With(t, [Top(t) EXCEPT !.at = "store", !.found = Class(declaring.assembly, name, "plain")])
           ELSE Answer(t, Null)
  /\ UNCHANGED lookup_vars

(* emplace under the lock keeps what another thread has put there; the     *)
(* answer is the thread's own.                                             *)
Store(t) ==
  /\ At(t, "get_class_from_name", "store")
  /\ LET name == Top(t).of.name  known == DOMAIN names_to_classes
     IN  names_to_classes' =
           [k \in known \union {name} |-> IF k \in known THEN names_to_classes[k] ELSE Top(t).found]
  /\ Answer(t, Top(t).found)
  /\ UNCHANGED <<loaded, tables, statics, guards, asked, crashed>>

--------------------------------------------------------------------------------
(* class_of.  The forms of a type: "plain" (DEFINE_IL2CPP_CLASS), whose    *)
(* static is initialized once, by one thread while others wait; "array",   *)
(* for arrays of and pointers to a type, and "generic"                     *)
(* (DEFINE_IL2CPP_GEN_CLASS), whose statics are tried again while they are *)
(* null.                                                                   *)
ReadStatic(t) ==
  LET T == Top(t).of
  IN  /\ At(t, "class_of", "static")
      /\ T.form = "plain" => guards[T] = "done"
      /\ T.form # "plain" => statics[T] # Null
      /\ Answer(t, statics[T])
      /\ UNCHANGED lookup_vars

BeginStatic(t) ==
  LET T == Top(t).of
  IN  /\ At(t, "class_of", "static")
      /\ T.form = "plain" /\ guards[T] = "unset"
      /\ guards' = [guards EXCEPT ![T] = "running"]
      /\ asked' = [asked EXCEPT ![T] = loaded]
      /\ Calls(t, get_class_from_name(T.name), "initialize")
      /\ UNCHANGED <<loaded, names_to_classes, tables, statics, crashed>>

(* Deviation: only a class ends the initialization. *)
EndStaticIfFound(t) ==
  LET T == Top(t).of
  IN  /\ At(t, "class_of", "initialize")
      /\ statics' = [statics EXCEPT ![T] = Top(t).found]
      /\ guards' = [guards EXCEPT ![T] = IF Top(t).found = Null THEN @ ELSE "done"]
      /\ Goto(t, "return")
      /\ UNCHANGED <<loaded, names_to_classes, tables, asked, crashed>>

EndStatic(t) ==
  LET T == Top(t).of
  IN  /\ At(t, "class_of", "initialize")
      /\ statics' = [statics EXCEPT ![T] = Top(t).found]
      /\ guards' = [guards EXCEPT ![T] = "done"]
      /\ Goto(t, "return")
      /\ UNCHANGED <<loaded, names_to_classes, tables, asked, crashed>>

AskElement(t) ==
  LET T == Top(t).of
  IN  /\ At(t, "class_of", "static")
      /\ T.form = "array" /\ statics[T] = Null
      /\ Calls(t, class_of(T.element), "element")
      /\ UNCHANGED lookup_vars

(* Deviation: whether the element has a class is not looked at.            *)
MakeArrayUnchecked(t) ==
  LET T == Top(t).of  array == [Top(t).found EXCEPT !.form = "array"]
  IN  /\ At(t, "class_of", "element")
      /\ statics' = [statics EXCEPT ![T] = array]
      /\ Answer(t, array)
      /\ UNCHANGED <<loaded, names_to_classes, tables, guards, asked, crashed>>

(* RET_DEF_UNLESS the element has a class; array_class_get or              *)
(* Class_GetPtrClass.                                                      *)
MakeArray(t) ==
  LET T == Top(t).of  element == Top(t).found
  IN  /\ At(t, "class_of", "element")
      /\ IF element = Null THEN Answer(t, Null) /\ UNCHANGED statics
         ELSE LET array == [element EXCEPT !.form = "array"]
              IN  statics' = [statics EXCEPT ![T] = array] /\ Answer(t, array)
      /\ UNCHANGED <<loaded, names_to_classes, tables, guards, asked, crashed>>

AskBase(t) ==
  LET T == Top(t).of
  IN  /\ At(t, "class_of", "static")
      /\ T.form = "generic" /\ statics[T] = Null
      /\ Calls(t, get_class_from_name(T.name), "base")
      /\ UNCHANGED lookup_vars

AskArgument(t) ==
  /\ At(t, "class_of", "base")
  /\ stack' = [stack EXCEPT ![t] =
       Append(Append(Front(@), [Top(t) EXCEPT !.at = "argument", !.base = Top(t).found]),
              class_of(Top(t).of.argument))]
  /\ UNCHANGED lookup_vars

(* make_generic asks for the System.Type of the base and of its argument;  *)
(* get_system_type reads the class without a look at it.  MakeGenericType  *)
(* of two classes that exist succeeds.                                     *)
make_generic(t) ==
  LET T == Top(t).of  base == Top(t).base
  IN  /\ At(t, "class_of", "argument")
      /\ IF Null \in {base, Top(t).found} THEN Crash /\ UNCHANGED statics
         ELSE LET inflated == [base EXCEPT !.form = "generic"]
              IN  /\ statics' = [statics EXCEPT ![T] = inflated]
                  /\ Answer(t, inflated)
                  /\ UNCHANGED crashed
      /\ UNCHANGED <<loaded, names_to_classes, tables, guards, asked>>

--------------------------------------------------------------------------------
(* log_classes goes through the images; a table that is missing is put     *)
(* into the image first and then filled, type by type.                     *)
NextImage(t) ==
  LET i == Top(t).i
  IN  /\ At(t, "log_classes", "image")
      /\ IF i > Top(t).n THEN Answer(t, Null) /\ UNCHANGED tables
         ELSE IF tables[i] = Unbuilt THEN Goto(t, "fill") /\ tables' = [tables EXCEPT ![i] = {}]
         ELSE With(t, [Top(t) EXCEPT !.i = i + 1]) /\ UNCHANGED tables
      /\ UNCHANGED <<loaded, names_to_classes, statics, guards, asked, crashed>>

add_type_to_name(t) ==
  LET i == Top(t).i  missing == plain_names(i) \ tables[i]
  IN  /\ At(t, "log_classes", "fill")
      /\ IF missing = {} THEN Goto(t, "image") /\ UNCHANGED tables
         ELSE /\ \E name \in missing : tables' = [tables EXCEPT ![i] = @ \union {name}]
              /\ UNCHANGED stack
      /\ UNCHANGED <<loaded, names_to_classes, statics, guards, asked, crashed>>

(* The game loads its next assembly. *)
LoadAssembly ==
  /\ ~crashed /\ loaded < Len(Assemblies)
  /\ loaded' = loaded + 1
  /\ UNCHANGED <<names_to_classes, tables, statics, guards, asked, stack, crashed>>

(* Calls from outside. *)
LookupCalls(t) ==
  \/ \E name \in Asked : Call(t, get_class_from_name(name))
  \/ \E T \in Types : Call(t, class_of(T))
  \/ Call(t, log_classes)

--------------------------------------------------------------------------------
(* Properties. *)

(* What a search of the first n assemblies finds, in one step. *)
first_match(n, name) ==
  LET having == {i \in 1 .. n : <<Head(name)>> \in Assemblies[i]}
  IN  IF having # {} /\ name \in Assemblies[Min(having)] THEN Class(Min(having), name, "plain") ELSE Null

Returning(t, fn) == stack[t] # <<>> /\ Top(t).fn = fn /\ Top(t).at = "return"

(* "Returns the first matching class ... by searching through all          *)
(* assemblies that are loaded. (Cached)": a class that is answered, cached *)
(* or kept in a static is the one a search would find now, whatever has    *)
(* been loaded, asked for or raced since.                                  *)
FirstMatch ==
  /\ \A k \in DOMAIN names_to_classes : names_to_classes[k] = first_match(loaded, k)
  /\ \A t \in Threads :
       Returning(t, "get_class_from_name") => Top(t).found \in {Null, first_match(loaded, Top(t).of.name)}
  /\ \A T \in Types : T.form = "plain" => statics[T] \in {Null, first_match(loaded, T.name)}

(* No class is missed that was there when it was asked for: a null answer, *)
(* and a null that a static keeps for good, mean that no assembly loaded   *)
(* at the call had the class.                                              *)
FailsOnlyWhenUnloaded ==
  /\ \A t \in Threads :
       (Returning(t, "get_class_from_name") /\ Top(t).found = Null)
         => first_match(Top(t).since, Top(t).of.name) = Null
  /\ \A T \in Types :
       (guards[T] = "done" /\ statics[T] = Null) => first_match(asked[T], T.name) = Null

================================================================================
