----------------------------- MODULE MCFindMethod ------------------------------
(***************************************************************************)
(* FindMethod over a few classes:                                          *)
(*   1 Object; 2 Shape: Object, implements 9 and 8; 3 Circle: Shape;       *)
(*   4 Mode: an enum over 5, Int32; 6 Disc: Circle; 8 IShape; 9 IRound,    *)
(*   which extends IShape; 10 a generic parameter.                         *)
(***************************************************************************)
EXTENDS FindMethod, TLC

CONSTANTS t1, t2

TwoThreads == {t1, t2}
Symmetric == Permutations(TwoThreads)

SomeClasses == {1, 2, 3, 4, 5, 6, 8, 9, 10}
SomeInterfaceTypes == {8, 9}
SomeParents == [c \in SomeClasses |-> CASE c \in {2, 4, 5} -> 1 [] c = 3 -> 2 [] c = 6 -> 3 [] OTHER -> 0]
SomeInterfaces == [c \in SomeClasses |-> CASE c = 2 -> <<9, 8>> [] c = 9 -> <<8>> [] OTHER -> <<>>]
SomeEnums == [c \in SomeClasses |-> IF c = 4 THEN 5 ELSE 0]

T(c) == [class |-> c, byref |-> FALSE, mvar |-> -1]
Ref(c) == [class |-> c, byref |-> TRUE, mvar |-> -1]
Generic(i) == [class |-> 10, byref |-> FALSE, mvar |-> i]

M(name, params, generics) == [name |-> name, params |-> params, generics |-> generics]

(* Overloads in a class and its parent, one of them generic. *)
SomeMethods ==
  [c \in SomeClasses |->
    CASE c = 2 -> <<M("draw", <<T(1)>>, 0), M("draw", <<T(8)>>, 0), M("draw", <<T(2)>>, 0),
                    M("draw", <<>>, 0), M("set", <<T(4)>>, 0)>>
      [] c = 3 -> <<M("draw", <<T(2), T(1)>>, 0), M("draw", <<T(1), T(1)>>, 0),
                    M("set", <<Ref(5)>>, 0), M("make", <<Generic(0)>>, 1),
                    M("paint", <<T(3)>>, 0), M("paint", <<T(2)>>, 0)>>
      [] OTHER -> <<>>]

ByName(c, n) == [kind |-> "name", klass |-> c, name |-> n]
ByArgs(c, n, k) == [kind |-> "args", klass |-> c, name |-> n, args |-> k]
ByTypes(c, n, gs, ts) ==
  [kind |-> "types", klass |-> c, name |-> n, generics |-> gs, params |-> ts]

SomeQueries ==
  {ByName(3, "draw"), ByName(2, "draw"), ByArgs(3, "draw", 0), ByArgs(3, "draw", 3),
   ByTypes(3, "draw", <<>>, <<T(3)>>), ByTypes(3, "draw", <<>>, <<T(3), T(3)>>),
   ByTypes(3, "draw", <<>>, <<T(8)>>), ByTypes(3, "set", <<>>, <<T(5)>>),
   ByTypes(3, "make", <<2>>, <<T(3)>>), ByTypes(3, "draw", <<>>, <<NoType>>)}

(* A call with a Disc: Circle is nearer than Shape, which has interfaces.  *)
DiscQueries == {ByTypes(3, "paint", <<>>, <<T(6)>>)}
===============================================================================
