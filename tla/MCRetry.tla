------------------------------ MODULE MCRetry ------------------------------
(* Instances of Retry for TLC: three retries, with calls that last up to two intervals. *)
EXTENDS Retry
=============================================================================
