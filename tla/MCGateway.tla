------------------------------ MODULE MCGateway ------------------------------
(* Instances of GatewayTransfer for TLC: one caller, or two at once. *)
EXTENDS GatewayTransfer

CONSTANTS alice, bob

TwoCallers == {alice, bob}
=============================================================================
