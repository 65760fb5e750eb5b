-------------------------- MODULE MCGatewayClient --------------------------
(* GatewayClient for TLC: the parameters are given in the .cfg. *)
EXTENDS GatewayClient
=============================================================================
