-------------------------- MODULE MCTransferObject --------------------------
(* Instances of TransferObject for TLC: one caller, or up to three at once. *)
EXTENDS TransferObject, TLC

CONSTANTS alice, bob, carol

ThreeCallers == {alice, bob, carol}

Symmetry == Permutations(ThreeCallers)
=============================================================================
