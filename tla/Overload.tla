------------------------------- MODULE Overload --------------------------------
(***************************************************************************)
(* Which method find_method means (src/find.cpp, src/types.cpp): the       *)
(* methods of a class and its parents are tried in turn; an exact match    *)
(* ends the search, and among convertible ones the first of those with the *)
(* least weight wins.                                                      *)
(*                                                                         *)
(* Classes are addresses.  A type is a class by value or by reference, or  *)
(* a generic parameter of a method (mvar >= 0).                            *)
(***************************************************************************)
EXTENDS Integers, Sequences, FiniteSetsExt, SequencesExt

CONSTANTS
  Classes,         \* addresses of Il2CppClass
  Parent,          \* Parent[c]: klass->parent
  Interfaces,      \* Interfaces[c]: klass->implementedInterfaces
  InterfaceTypes,  \* classes with TYPE_ATTRIBUTE_INTERFACE
  EnumBase,        \* EnumBase[c]: the base type's class of an enum, or null
  Object,          \* System.Object
  Methods          \* Methods[c]: klass->methods, once Class_Init has filled it

null == 0
NoMethod == <<>>
IntMax == 2147483647

ASSUME ClassesAssumption == Classes \subseteq Nat \ {null} /\ Object \in Classes
ASSUME HierarchyAssumption ==
  /\ Parent \in [Classes -> Classes \union {null}]
  /\ EnumBase \in [Classes -> Classes \union {null}]
  /\ InterfaceTypes \subseteq Classes
  /\ DOMAIN Interfaces = Classes /\ DOMAIN Methods = Classes

(* An argument type that is unknown: Il2CppType const* is null. *)
NoType == [class |-> null, byref |-> FALSE, mvar |-> -1]

(* No class is among its own parents, and methods are arrays. *)
ASSUME ParentsAssumption == \A S \in SUBSET Classes : S # {} => \E c \in S : Parent[c] \notin S
ASSUME MethodsAssumption == \A c \in Classes : Methods[c] \in Seq(ToSet(Methods[c]))

(* A class and its parents, nearest first. *)
Chain[c \in Classes \union {null}] == IF c = null THEN <<>> ELSE <<c>> \o Chain[Parent[c]]

(* il2cpp's class_is_assignable_from: any value is assignable to Object.   *)
class_is_assignable_from(to, from) ==
  \/ to \in {from, Object}
  \/ to \in ToSet(Chain[from])
  \/ \E c \in ToSet(Chain[from]) : to \in ToSet(Interfaces[c])

--------------------------------------------------------------------------------
is_convertible_from(to, from, args) ==
  /\ args /\ to.byref => from.byref
  /\ \/ to.mvar >= 0
     \/ class_is_assignable_from(to.class, from.class)
     \/ EnumBase[to.class] # null /\ class_is_assignable_from(EnumBase[to.class], from.class)

(* A parameter that is not compared, and the type of one that is.          *)
skipped(m, i, args) ==
  args[i] = NoType \/ (m.params[i].mvar >= 0 /\ m.params[i].mvar >= m.generics)

inflated(p, generics) ==
  IF p.mvar >= 0 THEN [class |-> generics[p.mvar + 1], byref |-> p.byref, mvar |-> -1] ELSE p

param_match(m, generics, args) ==
  IF Len(m.params) # Len(args) \/ m.generics # Len(generics) THEN "none"
  ELSE LET compared == {i \in DOMAIN args : ~skipped(m, i, args)}
           type(i) == inflated(m.params[i], generics)
       IN  IF \E i \in compared : ~is_convertible_from(type(i), args[i], TRUE) THEN "none"
           ELSE IF \A i \in compared : type(i) = args[i] THEN "exact" ELSE "convertible"

(* The climb from the passed class towards the parameter's class: how many *)
(* steps, and where it ends; null when it runs past the topmost class.     *)
climb(method_class, passed_class) ==
  LET chain == Chain[passed_class]
      stops == {i \in DOMAIN chain : chain[i] = method_class
                                     \/ ~class_is_assignable_from(method_class, chain[i])}
  IN  IF stops = {} THEN [steps |-> Len(chain), end |-> null]
      ELSE [steps |-> Min(stops) - 1, end |-> chain[Min(stops)]]

(* How many elements the merge of two arrays finds in both: all of them    *)
(* when the arrays are the same or sorted by address, as il2cpp's need not *)
(* be.                                                                     *)
common(s, t) ==
  LET merge[p \in (1 .. Len(s) + 1) \X (1 .. Len(t) + 1)] ==
        LET i == p[1]
            j == p[2]
        IN  IF i > Len(s) \/ j > Len(t) THEN 0
            ELSE IF s[i] < t[j] THEN merge[<<i + 1, j>>]
            ELSE IF s[i] > t[j] THEN merge[<<i, j + 1>>]
            ELSE 1 + merge[<<i + 1, j + 1>>]
  IN  merge[<<1, 1>>]

(* Cases that param_distance decides before it climbs. *)
unknown(method_class, passed_class) == null \in {method_class, passed_class}

(* Deviation: no early answer for interfaces. *)
concrete_from_interface_never(method_class, passed_class) == FALSE

concrete_from_interface(method_class, passed_class) ==
  passed_class \in InterfaceTypes /\ method_class \notin InterfaceTypes

param_distance(method_class, passed_class) ==
  CASE unknown(method_class, passed_class) -> 1
    [] ~unknown(method_class, passed_class) /\ method_class = passed_class -> 0
    [] ~unknown(method_class, passed_class) /\ method_class # passed_class
         /\ concrete_from_interface(method_class, passed_class) -> 1000
    [] OTHER ->
         (IF method_class \in InterfaceTypes THEN 5 ELSE 0)
         + climb(method_class, passed_class).steps
         - common(Interfaces[method_class], Interfaces[climb(method_class, passed_class).end])

(* The climb ended at null, and its interfaces are read all the same.      *)
dereferences_null(method_class, passed_class) ==
  /\ ~unknown(method_class, passed_class)
  /\ method_class # passed_class
  /\ ~concrete_from_interface(method_class, passed_class)
  /\ climb(method_class, passed_class).end = null

--------------------------------------------------------------------------------
(* The weight of an overload, unless computing it reads null. *)
weight(m, args) ==
  FoldLeft(LAMBDA sum, i : sum + param_distance(m.params[i].class, args[i].class),
           0, [i \in DOMAIN args |-> i])

(* The match functions that find_method hands to the search.               *)
matches(m, q) ==
  CASE q.kind = "name" -> IF m.name = q.name THEN "exact" ELSE "none"
    [] q.kind = "args" -> IF m.name = q.name /\ Len(m.params) = q.args THEN "exact" ELSE "none"
    [] q.kind = "types" -> IF m.name = q.name THEN param_match(m, q.generics, q.params) ELSE "none"

(* The search goes through places <<i, j>>: method j of the i-th class of  *)
(* the chain.  Only classes in initialized have their methods.             *)
candidates(klass, initialized) ==
  UNION {{<<i, j>> : j \in DOMAIN Methods[Chain[klass][i]]} :
         i \in {k \in DOMAIN Chain[klass] : Chain[klass][k] \in initialized}}

method_id(klass, place) == <<Chain[klass][place[1]], place[2]>>

method(id) == Methods[id[1]][id[2]]

before(p, r) == p[1] < r[1] \/ (p[1] = r[1] /\ p[2] < r[2])

first(places) == CHOOSE p \in places : \A r \in places \ {p} : before(p, r)

matching(places, q, match) ==
  {p \in places : matches(method(method_id(q.klass, p)), q) = match}

(* Deviation: any convertible overload will do. *)
lightest_any(places, q) == matching(places, q, "convertible")

(* match_value < best_val: the lightest of the convertible ones. *)
lightest(places, q) ==
  LET among == matching(places, q, "convertible")
      value(p) == weight(method(method_id(q.klass, p)), q.params)
  IN  {p \in among : value(p) < IntMax /\ \A r \in among : value(p) <= value(r)}

(* The method that the search over places ends with.                       *)
find_among(places, q) ==
  CASE matching(places, q, "exact") # {} ->
         method_id(q.klass, first(matching(places, q, "exact")))
    [] matching(places, q, "exact") = {} /\ lightest(places, q) # {} ->
         method_id(q.klass, first(lightest(places, q)))
    [] OTHER -> NoMethod

(* type_get_class_or_element_class reads the argument's type, also one that *)
(* param_match has skipped because it is null.                             *)
reads_null(param, arg) == arg = NoType \/ dereferences_null(param.class, arg.class)

(* Weights are computed up to the first exact match. *)
crashes_among(places, q) ==
  \E p \in matching(places, q, "convertible") :
    /\ \A r \in matching(places, q, "exact") : before(p, r)
    /\ \E k \in DOMAIN q.params : reads_null(method(method_id(q.klass, p)).params[k], q.params[k])

================================================================================
