--------------------------- MODULE MCBackendMemory ----------------------------
(* Instances of BackendMemory for TLC.                                       *)
EXTENDS BackendMemory, TLC

CONSTANTS d1, d2, b1, b2, k1, k2, r1, r2, gateways, addresses

(* Queues of more than one request, and tables that two keys overfill.     *)
Requests == gateways :> 2 @@ addresses :> 1
Windows == gateways :> 1 @@ addresses :> 2
Keys == gateways :> 1 @@ addresses :> 2
=============================================================================
