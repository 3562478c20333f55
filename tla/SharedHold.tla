------------------------------ MODULE SharedHold ------------------------------
(***************************************************************************)
(* What safe_ptr promises to its users: "a C++ type that wraps a C#        *)
(* pointer, keeping it valid for the entire lifetime of this instance"     *)
(* (shared/safeptr.hpp).  Smart pointers hold managed objects, and the     *)
(* garbage collector takes an object only while nobody holds it.  Wrapper  *)
(* blocks and reference counts do not appear here; SafePtr implements this *)
(* module.                                                                 *)
(***************************************************************************)

CONSTANTS
  Handles,   \* the safe_ptr objects of the program
  Objects,   \* the managed objects
  Null       \* a safe_ptr that holds nothing

VARIABLES
  holds,     \* holds[h]: the object safe_ptr h keeps valid, or Null
  alive      \* the objects that have not been collected

vars == <<holds, alive>>

TypeOK ==
  /\ holds \in [Handles -> Objects \union {Null}]
  /\ alive \subseteq Objects

Init ==
  /\ holds = [h \in Handles |-> Null]
  /\ alive = Objects

(* A safe_ptr starts to hold a valid object. *)
Acquire(h, x) ==
  /\ x \in alive
  /\ holds' = [holds EXCEPT ![h] = x]
  /\ UNCHANGED alive

(* A safe_ptr is emptied, assigned to or destroyed. *)
Release(h) ==
  /\ holds' = [holds EXCEPT ![h] = Null]
  /\ UNCHANGED alive

(* A safe_ptr takes over what another one holds. *)
Transfer(h, s) ==
  /\ holds' = [holds EXCEPT ![h] = holds[s], ![s] = Null]
  /\ UNCHANGED alive

(* The garbage collector takes an object that no safe_ptr holds. *)
Collect(x) ==
  /\ \A h \in Handles : holds[h] # x
  /\ alive' = alive \ {x}
  /\ UNCHANGED holds

Next ==
  \/ \E h \in Handles, x \in Objects : Acquire(h, x)
  \/ \E h \in Handles : Release(h)
  \/ \E h, s \in Handles : h # s /\ Transfer(h, s)
  \/ \E x \in Objects : Collect(x)

Spec == Init /\ [][Next]_vars

===============================================================================
