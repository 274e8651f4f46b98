------------------------------ MODULE MCClients ------------------------------
(* Instances of ProtocolClients for TLC: two runs of one party, one of the other. *)
EXTENDS ProtocolClients

TwoRunsAndOne == <<2, 1>>
=============================================================================
