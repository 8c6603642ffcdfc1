-------------------------- MODULE MCDeliveryStores --------------------------
(* Two backends over the shared store; two threads of one command-line      *)
(* process over a file that keeps one receipt.                              *)
EXTENDS DeliveryStores

CONSTANTS w1, w2

TwoProcesses == [w \in Workers |-> IF w = w1 THEN 1 ELSE 2]
OneProcess == [w \in Workers |-> 1]

AnyProvider == [Executions -> {"JsonRpc", "PlainText", "Blockchair"}]
\* One Bitcoin execution over Esplora, and one over JSON-RPC.
TwoProviders == {[e \in FileExecutions |-> IF e = "e1" THEN "PlainText" ELSE "JsonRpc"]}
=============================================================================
