------------------------------ MODULE MCSafePtr -------------------------------
(* SafePtr on small instances. *)
EXTENDS SafePtr, TLC

CONSTANTS t1, t2, h1, h2, h3, b1, b2, o1, o2

OneThread == {t1}
TwoThreads == {t1, t2}
TwoHandles == {h1, h2}
ThreeHandles == {h1, h2, h3}
TwoBlocks == {b1, b2}
TwoObjects == {o1, o2}
===============================================================================
