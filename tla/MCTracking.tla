----------------------------- MODULE MCTracking -----------------------------
(* Instances of TransferTracking for TLC. *)
EXTENDS TransferTracking
=============================================================================
