--------------------------- MODULE MCIl2CppFunctions ---------------------------
(* Two threads initialize and allocate; one of them calls __allocate_unsafe. *)
EXTENDS Il2CppFunctions

CONSTANTS t1, t2, b1, b2

MCThreads == {t1, t2}
MCUnsafeThreads == {t1}
MCBlocks == {b1, b2}
MCSizes == {2, 3}
(* An export that is traced from, one that is called, a traced pointer with *)
(* a check, and one without.                                                *)
MCFragile == {"shutdown", "gc_alloc_fixed", "Class_FromIl2CppTypeNative", "defaults"}
================================================================================
