------------------------------ MODULE MCAlgorithms ------------------------------
(* Small memories, patterns, texts and functions. *)
EXTENDS Algorithms

MCMemories == [1..10 -> {"00", "f5"}]
MCBorders == {3, 7}
MCPatterns == SeqOf({"00", "f5", "?", "??"}, 3) \ {<<>>}

(* a, b, e with an acute accent and a surrogate pair *)
MCChars == {[utf8 |-> <<97>>, utf16 |-> <<97>>], [utf8 |-> <<98>>, utf16 |-> <<98>>],
            [utf8 |-> <<195, 169>>, utf16 |-> <<233>>],
            [utf8 |-> <<240, 159, 152, 128>>, utf16 |-> <<55357, 56832>>]}
MCTexts == SeqOf(MCChars, 2)

MCInsns == {[id |-> "B", target |-> 3], [id |-> "BL", target |-> 5], [id |-> "BR"], [id |-> "RET"],
            [id |-> "ADRP", target |-> 7, reg |-> "x0"], [id |-> "ADR", target |-> 4, reg |-> "x1"],
            [id |-> "ADD", reg |-> "x1", base |-> "x0", imm |-> 2],
            [id |-> "LDR", reg |-> "x0", base |-> "x1", imm |-> 1]}
MCCodes == [1..4 -> MCInsns]
MCCopied == 0..2
MCWords == 1..40
(***************************************************************************)
(* Classes: 1 Object; 2 Shape, abstract, implements 8 IShape; 3 Circle:    *)
(* Shape; 4 Mode: an enum over 5, Int32; 6 void; 7 String; 9 a generic     *)
(* parameter; 10 holds the stub.                                           *)
(***************************************************************************)
MCClasses == 1 .. 10
MCParents == [c \in MCClasses |-> CASE c \in {2, 4, 5, 7, 9} -> 1 [] c = 3 -> 2 [] OTHER -> 0]
MCInterfaces == [c \in MCClasses |-> IF c = 2 THEN <<8>> ELSE <<>>]
MCInterfaceTypes == {8}
MCEnums == [c \in MCClasses |-> IF c = 4 THEN 5 ELSE 0]
MCOffsets == [c \in MCClasses |-> IF c \in {2, 3} THEN (8 :> 1) ELSE <<>>]
MCStub == <<10, 1>>

Param(i) == [class |-> 9, byref |-> FALSE, mvar |-> i]

M(name, params, returns, slot) ==
  [name |-> name, params |-> params, returns |-> returns, slot |-> slot, generics |-> 0,
   callable |-> TRUE, constraint |-> 1]

Area(slot) == M("Area", <<>>, Type(5), slot)
Name(slot) == M("Name", <<>>, Type(7), slot)
Grow(slot) == M("Grow", <<Type(4)>>, Type(6), slot)

(* Shape's vtable: Grow, IShape's Area and Name; Area is abstract.         *)
MCMethods ==
  [c \in MCClasses |->
    CASE c = 8 -> <<Area(0), Name(1)>>
      [] c = 2 -> <<Grow(0), [Area(1) EXCEPT !.callable = FALSE], Name(2),
                    M("Join", <<Type(2)>>, Type(2), -1), M("set_Top", <<Type(2)>>, Type(6), -1),
                    M("Link", <<Type(2), Type(2)>>, Type(6), -1)>>
      [] c = 3 -> <<Name(2), Area(1), M("get_Top", <<>>, Type(3), -1),
                    [M("Find", <<Param(0)>>, Param(0), -1) EXCEPT !.generics = 1, !.constraint = 2]>>
      [] c = 10 -> <<[M("stub", <<>>, Type(6), -2) EXCEPT !.callable = FALSE]>>
      [] OTHER -> <<>>]

MCProperties ==
  [c \in MCClasses |->
    CASE c = 2 -> ("Top" :> [get |-> NoMethod, set |-> <<2, 5>>])
      [] c = 3 -> ("Radius" :> [get |-> <<3, 3>>, set |-> NoMethod])
      [] OTHER -> <<>>]
MCFields == [c \in MCClasses |-> CASE c = 2 -> ("mode" :> Type(4)) [] c = 3 -> ("next" :> Type(2)) [] OTHER -> <<>>]

(* References to objects of the type or of a subclass, null references,    *)
(* values, and a type that has no class, alone or before another value.    *)
V(type, object) == [type |-> type, object |-> object]
MCValues == {V(Type(1), 3), V(Type(1), 5), V(Type(1), 0), V(Type(2), 3), V(Type(3), 3), V(Type(5), 5), V(NoType, 7)}
MCArgs == {<<>>, <<V(NoType, 7), V(Type(3), 3)>>, <<V(NoType, 7), V(Type(2), 3)>>} \union {<<v>> : v \in MCValues}

ByName(n) == [kind |-> "name", name |-> n]
ByArgs(n, k) == [kind |-> "args", klass |-> 0, name |-> n, args |-> k]
BySlot(s) == [kind |-> "slot", slot |-> s]
ByVtable(d, s) == [kind |-> "vtable", declaring |-> d, slot |-> s]

MCInfos ==
  {ByName(n) : n \in {"Area", "Grow", "Join", "Find", "Link", "None"}}
  \union {ByArgs("Join", 1), ByArgs("Find", 1), ByArgs("Name", 0), ByMethod(<<3, 4>>), ByMethod(<<2, 4>>)}
  \union {BySlot(s) : s \in 0 .. 3}
  \union {ByVtable(d, s) : d \in {2, 3, 8}, s \in 0 .. 3}

C(op, klass, returns, args) ==
  [op |-> op, klass |-> klass, returns |-> Type(returns), args |-> args, result |-> TRUE, raises |-> FALSE,
   generics |-> <<>>, info |-> [kind |-> "none"], name |-> ""]

MCCalls ==
  {[C("run_method", k, r, a) EXCEPT !.info = i, !.generics = g, !.result = res, !.raises = x] :
     k \in {2, 3, 8}, r \in {1, 2, 3, 5, 6, 7}, a \in MCArgs, i \in MCInfos,
     g \in {<<>>, <<3>>, <<7>>}, res \in BOOLEAN, x \in BOOLEAN}
  \union {[C(op, k, r, a) EXCEPT !.name = n] :
     op \in {"get_property", "get_field"}, k \in {2, 3}, r \in 1 .. 7, a \in {<<>>}, n \in {"Top", "Radius", "mode", "next"}}
  \union {[C(op, k, 6, <<v>>) EXCEPT !.name = n] :
     op \in {"set_property", "set_field"}, k \in {2, 3}, v \in MCValues, n \in {"Top", "Radius", "mode", "next"}}
  \union {C("cast", 1, r, <<v>>) : r \in {1, 2, 3, 7, 8}, v \in MCValues}
================================================================================
