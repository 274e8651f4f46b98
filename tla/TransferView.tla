---------------------------- MODULE TransferView ----------------------------
(***************************************************************************)
(* What an application may conclude from the state it is shown.            *)
(*                                                                         *)
(* Facts about a transfer become true, once, in the world: its message is  *)
(* on the source chain, the guardians have signed it, it is redeemed on    *)
(* the destination chain, or the relayer has given up.  The state shown    *)
(* follows the facts, possibly late and skipping some, but it never claims *)
(* what has not happened and never goes back.  A relay failure can be      *)
(* shown instead of anything before the destination chain, and only what   *)
(* happened on the destination chain can follow it.                        *)
(***************************************************************************)
EXTENDS TransferStates

VARIABLES facts,  \* what has happened
          view    \* the state shown

viewVars == <<facts, view>>

Facts == {"message", "vaa", "redeemed", "relayFailed"}

Requires(f) == IF f = "message" THEN {} ELSE IF f = "redeemed" THEN {"vaa"} ELSE {"message"}

(* The fact behind each state that can be shown. *)
Justified(s) ==
    \/ s \in {Created, SourceInitiated}
    \/ s \in {SourceFinalized, InReview} /\ "message" \in facts
    \/ s = Attested /\ "vaa" \in facts
    \/ s \in {DestinationInitiated, DestinationFinalized} /\ "redeemed" \in facts
    \/ s = Failed /\ "relayFailed" \in facts

Init == /\ facts \in SUBSET Facts
        /\ view \in TransferState
        /\ Justified(view)

Happens(f) == /\ f \notin facts
              /\ Requires(f) \subseteq facts
              /\ facts' = facts \cup {f}
              /\ UNCHANGED view

Shows(s) == /\ Justified(s)
            /\ s # view /\ Follows(view, s)
            /\ view' = s
            /\ UNCHANGED facts

Next == (\E f \in Facts : Happens(f)) \/ (\E s \in TransferState : Shows(s))

Spec == Init /\ [][Next]_viewVars
=============================================================================
