------------------------- MODULE MCGatewayTransport -------------------------
(* Small instances of GatewayTransport for TLC. *)
EXTENDS GatewayTransport
=============================================================================
