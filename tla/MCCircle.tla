------------------------------ MODULE MCCircle ------------------------------
(* Instances of CircleTransfer for TLC: one caller, or two at once. *)
EXTENDS CircleTransfer

CONSTANTS alice, bob

TwoCallers == {alice, bob}
=============================================================================
