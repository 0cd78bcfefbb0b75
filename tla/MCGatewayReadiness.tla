--------------------------- MODULE MCGatewayReadiness ---------------------------
(* The two peers and the threshold of the deployed gateway. *)
EXTENDS GatewayReadiness
=============================================================================
