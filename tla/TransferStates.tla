--------------------------- MODULE TransferStates ---------------------------
(***************************************************************************)
(* The states of a cross-chain transfer (connect/src/types.ts) and the     *)
(* order in which a transfer goes through them.                            *)
(***************************************************************************)
EXTENDS Integers

Failed               == -1
Created              == 0
SourceInitiated      == 1
SourceFinalized      == 2
InReview             == 3
Attested             == 4
Refunded             == 5
DestinationInitiated == 6
DestinationQueued    == 7
DestinationFinalized == 8

TransferState == Failed .. DestinationFinalized

(* A later report of the same transfer: further on, or given up by its relayer before
   anything happened on the destination chain, in which case only that can follow. *)
Follows(r, s) == \/ s = r
                 \/ s > r /\ (r = Failed => s > Attested)
                 \/ s = Failed /\ r <= Attested
=============================================================================
