-------------------------------- MODULE Members --------------------------------
(***************************************************************************)
(* Calls of managed members from C++ (shared/members.hpp): which member is *)
(* meant (src/find.cpp), whether the C++ types fit it, and how a call      *)
(* ends: with a value, with an error in a result, with a C++ exception, or *)
(* with the program, when an exception meets a noexcept function or the    *)
(* lookup reads null.                                                      *)
(*                                                                         *)
(* A C++ value is its C++ type and the class of the object it refers to    *)
(* (null for a null reference).  Methods have, besides what Overload       *)
(* looks at, the type they return, a vtable slot, whether they have code   *)
(* (callable), and a class their generic arguments must derive from.       *)
(***************************************************************************)
EXTENDS Overload

CONSTANTS
  Properties, \* Properties[c]: the properties c declares, by name
  Fields,     \* Fields[c]: the types of its fields, by name
  Offsets,    \* Offsets[c]: klass->interfaceOffsets, by interface
  Void,       \* System.Void
  Stub        \* the method in vtable slots that have no code

Type(c) == [class |-> c, byref |-> FALSE, mvar |-> -1]

AllMethods == UNION {{<<c, j>> : j \in DOMAIN Methods[c]} : c \in Classes}

SignatureTypes(m) == {m.returns} \union ToSet(m.params)

(* The classes that generic parameters of methods have.                    *)
ParameterClasses ==
  UNION {{t.class : t \in {u \in SignatureTypes(method(id)) : u.mvar >= 0}} : id \in AllMethods}

(* Object has no parent, nor has an interface.  A class lists the          *)
(* interfaces of the interfaces it lists.                                  *)
ASSUME InterfacesAssumption ==
  /\ Parent[Object] = null /\ Interfaces[Object] = <<>>
  /\ \A i \in InterfaceTypes : Parent[i] = null
  /\ \A c \in Classes : \A i \in ToSet(Interfaces[c]) :
       i \in InterfaceTypes /\ ToSet(Interfaces[i]) \subseteq ToSet(Interfaces[c])

(* A method has the generic parameters that its types name.  Their classes *)
(* are plain Objects, and no enum's base.                                  *)
ASSUME SignaturesAssumption ==
  /\ \A id \in AllMethods :
       /\ method(id).params \in Seq(ToSet(method(id).params)) /\ method(id).generics \in Nat
       /\ \A t \in SignatureTypes(method(id)) : t.mvar \in Int /\ t.mvar < method(id).generics
  /\ \A p \in ParameterClasses :
       p \in Classes /\ Parent[p] = Object /\ Interfaces[p] = <<>> /\ \A c \in Classes : EnumBase[c] # p

(* Neither fields nor the methods of properties have generic parameters of *)
(* their own.                                                              *)
ASSUME DeclarationsAssumption ==
  \A c \in Classes :
    /\ \A name \in DOMAIN Fields[c] : Fields[c][name].mvar \in Int /\ Fields[c][name].mvar < 0
    /\ \A name \in DOMAIN Properties[c] :
         \A id \in {Properties[c][name].get, Properties[c][name].set} :
           id = NoMethod \/ (id \in AllMethods /\ method(id).generics = 0)

(* An Il2CppObject* has the type of its object. *)
extract_type(v) == IF v.type = Type(Object) /\ v.object # null THEN Type(v.object) ELSE v.type

extracted(args) == [k \in DOMAIN args |-> extract_type(args[k])]

convertible(to, from, args) == NoType \notin {to, from} /\ is_convertible_from(to, from, args)

--------------------------------------------------------------------------------
(* The members of a class.                                                 *)
by_slot(klass, slot) ==
  LET js == {j \in DOMAIN Methods[klass] : Methods[klass][j].slot = slot}
  IN  IF js = {} THEN NoMethod ELSE <<klass, Min(js)>>

Inherited(klass) == UNION {{<<c, j>> : j \in DOMAIN Methods[c]} : c \in ToSet(Chain[klass])}

(* Interfaces have no vtable: their methods' slots are positions in them.  *)
vtable_count(klass) ==
  IF klass \in InterfaceTypes THEN 0
  ELSE Max({method(id).slot : id \in Inherited(klass)} \union {-1}) + 1

(* A vtable has no gaps.  Methods of a class and its parents share a slot  *)
(* if and only if they have the same name and parameters, as do the method *)
(* of an interface and the one in the slot it stands for: no method hides  *)
(* another, implements one under another name, or differs from one in its  *)
(* generic parameters only.                                                *)
same_signature(m, n) == m.name = n.name /\ m.params = n.params

ASSUME VtablesAssumption ==
  /\ Stub \in AllMethods /\ ~method(Stub).callable
  /\ \A klass \in Classes :
       /\ vtable_count(klass) \in Nat
       /\ \A slot \in 0 .. (vtable_count(klass) - 1) : \E id \in Inherited(klass) : method(id).slot = slot
  /\ \A klass \in Classes \ InterfaceTypes :
       /\ \A id, other \in Inherited(klass) :
            method(id).slot >= 0 =>
              (method(id).slot = method(other).slot <=> same_signature(method(id), method(other)))
       /\ \A i \in DOMAIN Offsets[klass] : \A j \in DOMAIN Methods[i] :
            \E id \in Inherited(klass) :
              method(id).slot = Offsets[klass][i] + j - 1 /\ same_signature(method(id), method(<<i, j>>))
  /\ \A klass \in Classes : \A i \in DOMAIN Offsets[klass] : i \in InterfaceTypes /\ Offsets[klass][i] \in Nat

(* il2cpp's vtables: the most derived method, or a stub.                   *)
vtable(klass, slot) ==
  LET nearest == CHOOSE i \in DOMAIN Chain[klass] :
                   /\ by_slot(Chain[klass][i], slot) # NoMethod
                   /\ \A k \in 1 .. i - 1 : by_slot(Chain[klass][k], slot) = NoMethod
      id == by_slot(Chain[klass][nearest], slot)
  IN  IF method(id).callable THEN id ELSE Stub

(* The slot of an interface's method counts from the interface's offset.   *)
by_vtable(klass, declaring, slot) ==
  CASE declaring \notin InterfaceTypes ->
         IF slot >= vtable_count(klass) THEN NoMethod
         ELSE IF method(vtable(klass, slot)).slot = slot THEN vtable(klass, slot)
         ELSE by_slot(klass, slot)
    [] declaring \in InterfaceTypes /\ slot >= Len(Methods[declaring]) -> NoMethod
    [] declaring \in InterfaceTypes /\ slot < Len(Methods[declaring]) /\ declaring \in DOMAIN Offsets[klass] ->
         IF Offsets[klass][declaring] + slot < vtable_count(klass)
           THEN vtable(klass, Offsets[klass][declaring] + slot)
           ELSE NoMethod
    [] OTHER ->
         IF klass \in InterfaceTypes /\ slot < Len(Methods[klass]) THEN <<klass, slot + 1>> ELSE NoMethod

find_method(klass, info) ==
  CASE info.kind \in {"args", "types"} ->
         find_among(candidates(klass, Classes), [info EXCEPT !.klass = klass])
    [] info.kind = "slot" -> by_slot(klass, info.slot)
    [] info.kind = "vtable" -> by_vtable(klass, info.declaring, info.slot)
    [] info.kind = "method" -> info.method

(* The lookup reads null while it weighs overloads. *)
find_crashes(klass, info) ==
  info.kind = "types" /\ crashes_among(candidates(klass, Classes), [info EXCEPT !.klass = klass])

(* The first class of the chain that declares the name.                    *)
declared(members, klass, name) ==
  LET places == {i \in DOMAIN Chain[klass] : name \in DOMAIN members[Chain[klass][i]]}
  IN  IF places = {} THEN NoMethod ELSE members[Chain[klass][Min(places)]][name]

find_property(klass, name) == declared(Properties, klass, name)

find_field(klass, name) == declared(Fields, klass, name)

--------------------------------------------------------------------------------
(* How a call ends.                                                        *)
result_or_throw(c) == [is |-> IF c.result THEN "error" ELSE "thrown"]

(* An exception from below goes through the call.                          *)
escaped(c) == [is |-> IF c.result THEN "terminated" ELSE "thrown"]

delivered(id, params, returned) == [is |-> "value", method |-> id, params |-> params, returned |-> returned]

(* MakeGenericMethod throws unless it gets as many classes as the method   *)
(* has parameters, all within its constraints.                             *)
make_generic_fails(m, generics) ==
  \/ Len(generics) # m.generics
  \/ \E k \in DOMAIN generics : ~class_is_assignable_from(m.constraint, generics[k])

(* Deviation: slots name methods as exactly as types do.                   *)
types_checked_slots(info) == info.kind \in {"name", "types", "method", "slot", "vtable"}

(* A name alone is looked up by the types of the arguments.                *)
types_checked(info) == info.kind \in {"name", "types", "method"}

(* A call by name alone gives the lookup the types of its arguments. *)
by_types(c, name, args) ==
  [kind |-> "types", klass |-> null, name |-> name, generics |-> c.generics, params |-> extracted(args)]

(* The method found for info is called. *)
invoke(c, info, id, m, returns, args) ==
  CASE id = NoMethod \/ ~m.callable -> result_or_throw(c)
    [] /\ id # NoMethod /\ m.callable /\ ~types_checked(info)
       /\ \/ param_match(m, c.generics, extracted(args)) = "none"
          \/ ~convertible(returns, m.returns, FALSE) -> result_or_throw(c)
    [] OTHER ->
         IF m.generics > 0 /\ make_generic_fails(m, c.generics) THEN escaped(c)
         ELSE IF c.raises THEN result_or_throw(c)
         ELSE delivered(id, [k \in DOMAIN m.params |-> inflated(m.params[k], c.generics)],
                        inflated(m.returns, c.generics))

method_or_none(id) == IF id = NoMethod THEN NoMethod ELSE method(id)

run_method(c, info, id, returns, args) == invoke(c, info, id, method_or_none(id), returns, args)

sought(c, info, args) == IF info.kind = "name" THEN by_types(c, info.name, args) ELSE info

run_method_impl(c, info, returns, args) ==
  IF find_crashes(c.klass, sought(c, info, args)) THEN [is |-> "crashed"]
  ELSE run_method(c, info, find_method(c.klass, sought(c, info, args)), returns, args)

ByMethod(id) == [kind |-> "method", method |-> id]

(* The property's getter or setter, if it has one. *)
get_with(c, getter) ==
  IF getter = NoMethod \/ ~convertible(c.returns, method(getter).returns, FALSE) THEN result_or_throw(c)
  ELSE run_method(c, ByMethod(getter), getter, c.returns, <<>>)

get_property_impl(c) ==
  get_with(c, IF find_property(c.klass, c.name) = NoMethod THEN NoMethod ELSE find_property(c.klass, c.name).get)

set_with(c, setter) ==
  IF setter = NoMethod \/ Len(method(setter).params) # 1
     \/ ~convertible(method(setter).params[1], extract_type(c.args[1]), TRUE) THEN result_or_throw(c)
  ELSE run_method(c, ByMethod(setter), setter, method(setter).returns, c.args)

set_property_impl(c) ==
  set_with(c, IF find_property(c.klass, c.name) = NoMethod THEN NoMethod ELSE find_property(c.klass, c.name).set)

get_field_impl(c) ==
  LET field == find_field(c.klass, c.name)
  IN  IF field = NoMethod \/ ~convertible(c.returns, field, FALSE) THEN result_or_throw(c)
      ELSE delivered(NoMethod, <<>>, field)

set_field_impl(c) ==
  LET field == find_field(c.klass, c.name)
  IN  IF field = NoMethod \/ ~convertible(field, extract_type(c.args[1]), FALSE) THEN result_or_throw(c)
      ELSE delivered(NoMethod, <<field>>, c.returns)

cast(c) ==
  LET inst == c.args[1]
  IN  IF inst.object = null \/ ~class_is_assignable_from(c.returns.class, inst.object) THEN result_or_throw(c)
      ELSE delivered(NoMethod, <<>>, Type(inst.object))

call(c) ==
  CASE c.op = "run_method" -> run_method_impl(c, c.info, c.returns, c.args)
    [] c.op = "get_property" -> get_property_impl(c)
    [] c.op = "set_property" -> set_property_impl(c)
    [] c.op = "get_field" -> get_field_impl(c)
    [] c.op = "set_field" -> set_field_impl(c)
    [] c.op = "cast" -> cast(c)

================================================================================
