------------------------ MODULE MCGatewayRefinement ------------------------
(* TLC instance of GatewayRefinement, with the requests of MCGateway.      *)
EXTENDS GatewayRefinement, MCGateway
============================================================================
