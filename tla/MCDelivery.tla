------------------------------ MODULE MCDelivery ------------------------------
(* Instances of Delivery for TLC. *)
EXTENDS Delivery, TLC

CONSTANTS w1, w2, e1, e2

TwoProcesses == [w \in Workers |-> w]
OneProcess == [w \in Workers |-> "p"]

AnyProvider == [Executions -> ResponseShapes]

WorkerSymmetry == Permutations({w1, w2})
===============================================================================
