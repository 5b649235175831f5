--------------------------- MODULE MCGatewayRecall ---------------------------
(* GatewayRecall with recalls of different amounts.                        *)
EXTENDS GatewayRecall, TLC

MCAmount == [r \in Recalls |-> IF r = "first" THEN 1 ELSE 2]
=============================================================================
