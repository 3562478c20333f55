--------------------------- MODULE MCEventCallback ----------------------------
(* EventCallback on small instances: a free function, a lambda and two     *)
(* member functions, one of them subscribed on two instances.              *)
EXTENDS EventCallback

FourFunctions == {"free", "update", "draw", "lambda"}
MemberNames == {"update", "draw"}

(* Non-virtual member functions have addresses of their own. *)
CodeAddresses ==
  [f \in Functions |->
    CASE f = "free" -> 4 [] f = "update" -> 5 [] f = "draw" -> 3 [] f = "lambda" -> 9]

InstanceAddresses ==
  [f \in Functions |->
    CASE f \in {"free", "lambda"} -> {0} [] f = "update" -> {1, 2} [] f = "draw" -> {3}]
===============================================================================
