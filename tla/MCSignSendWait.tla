--------------------------- MODULE MCSignSendWait ---------------------------
(* Instances of SignSendWait for TLC: every plan of N transactions. *)
EXTENDS SignSendWait
=============================================================================
