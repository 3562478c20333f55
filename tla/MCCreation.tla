------------------------------ MODULE MCCreation ------------------------------
(* Creation on a small instance. *)
EXTENDS Creation

CONSTANTS t1, t2

TwoThreads == {t1, t2}

A == <<"A">>
AB == <<"A", "B">>

(* The second assembly has a class of the same name. *)
TwoAssemblies == <<{A, AB}, {A}>>

PlainType == [form |-> "plain", name |-> A]
ArrayType == [form |-> "array", element |-> PlainType]
GenericType == [form |-> "generic", name |-> AB, argument |-> PlainType]

AllTypes == {PlainType, ArrayType, GenericType}
PlainTypes == {PlainType}
OnlyA == {A}
===============================================================================
