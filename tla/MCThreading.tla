----------------------------- MODULE MCThreading ------------------------------
(* Threading on small instances. *)
EXTENDS Threading

CONSTANTS w1, w2, k1, k2

TwoWorkers == {w1, w2}
TwoTasks == {k1, k2}
AllPolicies == {"async", "deferred", "any"}
AsyncOnly == {"async"}
===============================================================================
