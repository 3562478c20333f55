------------------------------- MODULE MCListW --------------------------------
(* ListW on small instances. *)
EXTENDS ListW

CONSTANTS null, x, y

RefValues == {null, x, y}
SmallIndices == -1 .. 3
SomeSpans == {0, 3, 6}
(* Versions only grow; bound them. *)
MaxVersion == 9
VersionBound == _version <= MaxVersion
(* request and result are history; no operation reads them. *)
Fields == <<_items, _size, _version>>
===============================================================================
