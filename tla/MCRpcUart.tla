----------------------------- MODULE MCRpcUart -----------------------------
(* Instances of RpcUart. *)
EXTENDS RpcUart

\* All packets of a node have the same checksum.
First == CHOOSE m \in Nodes : TRUE
MCCrc(n, p) == IF n = First THEN 0 ELSE 1
MCSends == [n \in Nodes |-> IF n = First THEN 3 ELSE 1]
=============================================================================
