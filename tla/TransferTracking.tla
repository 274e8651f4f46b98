-------------------------- MODULE TransferTracking --------------------------
(***************************************************************************)
(* An application following one token transfer: TokenTransfer.track()      *)
(* (connect/src/protocols/tokenBridge/tokenTransfer.ts), driven either     *)
(* directly, again and again with the last receipt it produced, or through *)
(* checkAndCompleteTransfer() (connect/src/routes/common.ts) over the      *)
(* manual or the executor route, which also redeems.                       *)
(*                                                                         *)
(* Everything track() asks is answered by a world that moves on its own:   *)
(* source chain, guardians, governor, relayer, destination chain and       *)
(* Wormholescan index.  An answer describes some moment between the call   *)
(* (`asked`) and its return, so it may be out of date when it is used.     *)
(***************************************************************************)
EXTENDS TransferStates

CONSTANTS Protocols,  \* "TokenBridge" (manual route), "ExecutorTokenBridge"
          Drivers,    \* "track", "check" (checkAndCompleteTransfer)
          Starts,     \* how the first receipt was made: "initiate", "resume", "identifier"
          Signers,    \* whether checkAndCompleteTransfer is given a destination signer
          Redeemers,  \* whether somebody else may redeem the transfer
          Failures    \* whether services and signer may fail a call

ASSUME TrackingAssumption ==
    /\ Protocols \subseteq {"TokenBridge", "ExecutorTokenBridge"}
    /\ Drivers \subseteq {"track", "check"}
    /\ Starts \subseteq {"initiate", "resume", "identifier"}
    /\ Signers \subseteq BOOLEAN
    /\ Redeemers \subseteq BOOLEAN
    /\ Failures \subseteq BOOLEAN

VARIABLES mode,     \* which of these it is
          world,    \* the facts about the transfer
          asked,    \* the world when the pending call was made
          receipt,  \* the receipt of the running track(), as last yielded
          known,    \* the receipt the application calls with
          pc,       \* the await the code is at
          err,      \* what the last call threw, if it did
          redeems   \* redeem transactions the user has sent, up to 2

moving == <<world, asked, receipt, known, pc, err, redeems>>
vars   == <<mode, moving>>

Modes == [protocol : Protocols, driver : Drivers, signer : Signers,
          others : Redeemers, faults : Failures]

Protocol  == mode.protocol
Driver    == mode.driver
HasSigner == mode.signer
Others    == mode.others
Faults    == mode.faults

Relays == {"none", "unseen", "pending", "submitted", "failed"}

World == [message : BOOLEAN,    \* the source node returns the message of the transaction
          governor : {"no", "held", "released"},
          vaa : BOOLEAN,        \* Wormholescan has the signed VAA
          redeemed : BOOLEAN,   \* the destination bridge has processed the VAA
          indexed : BOOLEAN,    \* Wormholescan knows the destination transaction
          relay : Relays]       \* the executor's status of the relay ("none": no executor)

(* attestation: receipt.attestation.attestation is set, as the types of types.ts require
   from Attested on; originTxs: receipt.originTxs is set. *)
Receipt == [state : TransferState, attestation : BOOLEAN, originTxs : BOOLEAN]

WellFormed(r) ==
    /\ r \in Receipt
    /\ r.state \in {Attested, DestinationInitiated, DestinationFinalized, Failed} => r.attestation

(* A receipt as initiate() returns it, or as getReceipt() makes it from a transfer that
   was found by transaction (resume) or by message id: these have the VAA, and the
   receipt of a message id has no origin transaction. *)
FirstReceipt(how) == [state       |-> IF how = "initiate" THEN SourceInitiated ELSE Attested,
                      attestation |-> how # "initiate",
                      originTxs   |-> how # "identifier"]
-----------------------------------------------------------------------------
(* The world. *)

Becomes(f, v) == /\ world' = [world EXCEPT ![f] = v]
                 /\ UNCHANGED <<asked, receipt, known, pc, err, redeems>>

MessageVisible == ~ world.message /\ Becomes("message", TRUE)

GovernorHolds == /\ world.message /\ ~ world.vaa /\ world.governor = "no"
                 /\ Becomes("governor", "held")

GovernorReleases == world.governor = "held" /\ Becomes("governor", "released")

GuardiansSign == /\ world.message /\ ~ world.vaa /\ world.governor # "held"
                 /\ Becomes("vaa", TRUE)

ExecutorNotices == world.relay = "unseen" /\ world.message /\ Becomes("relay", "pending")

(* Unsupported or underpaid, aborted, or failed: all the same to track(). *)
ExecutorFails == world.relay = "pending" /\ Becomes("relay", "failed")

ExecutorRedeems == /\ world.relay = "pending" /\ world.vaa /\ ~ world.redeemed
                   /\ world' = [world EXCEPT !.redeemed = TRUE, !.relay = "submitted"]
                   /\ UNCHANGED <<asked, receipt, known, pc, err, redeems>>

OthersRedeem == /\ Others /\ world.vaa /\ ~ world.redeemed
                /\ Becomes("redeemed", TRUE)

Indexed == world.redeemed /\ ~ world.indexed /\ Becomes("indexed", TRUE)

WorldNext == \/ MessageVisible \/ GovernorHolds \/ GovernorReleases \/ GuardiansSign
             \/ ExecutorNotices \/ ExecutorFails \/ ExecutorRedeems \/ OthersRedeem \/ Indexed
-----------------------------------------------------------------------------
(* The generator.  Each action is the code from the return of one await to the next. *)

(* What a call made at `asked` may answer now about f. *)
Seen(f) == {asked[f], world[f]}

At(p) == pc' = p /\ asked' = world

Throw(e) == pc' = "threw" /\ err' = e /\ UNCHANGED asked

Yield(s) == receipt' = [receipt EXCEPT !.state = s]

(* The first section of track() whose condition holds of the receipt it is given. *)
Entry(r) == IF r.state = SourceInitiated THEN "message"
            ELSE IF r.state \in {SourceFinalized, InReview} THEN "vaa"
            ELSE IF r.state \in {Attested, Failed} THEN "status"
            ELSE IF r.state = DestinationInitiated THEN "complete"
            ELSE "drained"

ServiceFails(p) == /\ Faults /\ pc = p
                   /\ Throw("service")
                   /\ UNCHANGED <<world, receipt, known, redeems>>

GetTransferMessage ==
    /\ pc = "message"
    /\ \/ TRUE \in Seen("message") /\ Yield(SourceFinalized) /\ At("vaa") /\ UNCHANGED err
       \/ FALSE \in Seen("message") /\ Throw("No WormholeMessageId found") /\ UNCHANGED receipt
    /\ UNCHANGED <<world, known, redeems>>

(* Mutant: the state advances without the attestation. *)
StateOnly(r) == [r EXCEPT !.state = Attested]

WithVaa(r) == [r EXCEPT !.state = Attested, !.attestation = TRUE]

(* The VAA is yielded, and then the code throws all the same. *)
VaaFound ==
    /\ pc = "vaa"
    /\ TRUE \in Seen("vaa")
    /\ receipt' = WithVaa(receipt)
    /\ Throw("Attestation not found")
    /\ UNCHANGED <<world, known, redeems>>

VaaMissing ==
    /\ pc = "vaa"
    /\ FALSE \in Seen("vaa")
    /\ At("enqueued")
    /\ UNCHANGED <<world, receipt, known, err, redeems>>

(* Mutant: a VAA that is not enqueued sends the receipt back. *)
ReviewEnds(held) == IF held THEN Yield(InReview) ELSE Yield(SourceFinalized)

Reviewed(held) == IF held THEN Yield(InReview) ELSE UNCHANGED receipt

IsTransferEnqueued ==
    /\ pc = "enqueued"
    /\ \E g \in Seen("governor") : Reviewed(g = "held")
    /\ Throw("Attestation not found")
    /\ UNCHANGED <<world, known, redeems>>

GetTransactionStatus ==
    /\ pc = "status"
    /\ \E i \in Seen("indexed") : IF i THEN Yield(DestinationInitiated) ELSE UNCHANGED receipt
    /\ At("complete")
    /\ UNCHANGED <<world, known, err, redeems>>

(* After the destination chain has answered: only an executor transfer that is still
   attested asks for the status of its relay. *)
AfterComplete(r) == IF r.state = Attested /\ Protocol = "ExecutorTokenBridge"
                    THEN "executor" ELSE "drained"

(* A node of the destination chain that lags may not know of the redeem yet. *)
RedeemAnswers == Seen("redeemed") \cup (IF Faults THEN {FALSE} ELSE {})

(* Mutants: the answer is ignored, or is not asked for once a destination transaction is known. *)
CompletedIgnored(c)   == UNCHANGED receipt
CompletedAttested(c)  == IF c /\ receipt.state = Attested
                         THEN Yield(DestinationFinalized) ELSE UNCHANGED receipt

Completed(c) == IF c THEN Yield(DestinationFinalized) ELSE UNCHANGED receipt

IsTransferComplete ==
    /\ pc = "complete"
    /\ \E c \in RedeemAnswers : Completed(c)
    /\ At(AfterComplete(receipt'))
    /\ UNCHANGED <<world, known, err, redeems>>

(* Mutant: the wrong status is taken for a failure. *)
RelaySubmitted(status) == status = "submitted"

RelayFailure(status) == status = "failed"

GetExecutorTxStatus ==
    /\ pc = "executor"
    /\ \/ /\ ~ receipt.originTxs
          /\ Throw("TypeError: originTxs is undefined") /\ UNCHANGED receipt
       \/ /\ receipt.originTxs /\ "unseen" \in Seen("relay")
          /\ Throw("No transaction status found") /\ UNCHANGED receipt
       \/ /\ receipt.originTxs
          /\ \E s \in Seen("relay") \ {"unseen"} :
                IF RelayFailure(s) THEN Yield(Failed) ELSE UNCHANGED receipt
          /\ At("drained") /\ UNCHANGED err
    /\ UNCHANGED <<world, known, redeems>>
-----------------------------------------------------------------------------
(* checkAndCompleteTransfer, once the generator is drained; a drained track() that the
   application drives itself leaves it with the last receipt. *)

CompletedReceipt == receipt.state = DestinationFinalized

(* Mutant: the receipt is completed a state too early. *)
MustCompleteFinalized == Driver = "check" /\ HasSigner /\ receipt.state = SourceFinalized

(* isManual(route) holds of both routes: each has a `complete` method. *)
MustComplete == Driver = "check" /\ HasSigner /\ receipt.state = Attested

StartRedeem ==
    /\ pc = "drained"
    /\ MustComplete
    /\ At("redeeming")
    /\ UNCHANGED <<world, receipt, known, err, redeems>>

(* The bridge accepts a VAA once; the redeem of a processed one reverts and
   signSendWait throws.  The receipt of route.complete() is dropped, and the loop tracks
   again from the old one, unless the time is up. *)
RedeemSucceeds ==
    /\ pc = "redeeming"
    /\ ~ world.redeemed
    /\ world' = [world EXCEPT !.redeemed = TRUE]
    /\ redeems' = IF redeems < 2 THEN redeems + 1 ELSE 2
    /\ pc' = "resting"
    /\ UNCHANGED <<asked, receipt, known, err>>

(* The redeem lands, but waiting for it fails. *)
RedeemUnconfirmed ==
    /\ Faults
    /\ pc = "redeeming"
    /\ ~ world.redeemed
    /\ world' = [world EXCEPT !.redeemed = TRUE]
    /\ redeems' = IF redeems < 2 THEN redeems + 1 ELSE 2
    /\ Throw("timeout")
    /\ UNCHANGED <<receipt, known>>

RedeemReverts ==
    /\ pc = "redeeming"
    /\ world.redeemed
    /\ redeems' = IF redeems < 2 THEN redeems + 1 ELSE 2
    /\ Throw("redeem reverted")
    /\ UNCHANGED <<world, receipt, known>>

(* Two seconds later, or out of time. *)
TrackAgain ==
    /\ Driver = "check"
    /\ pc = "resting" \/ (pc = "drained" /\ ~ CompletedReceipt /\ ~ MustComplete)
    /\ At(Entry(receipt))
    /\ UNCHANGED <<world, receipt, known, err, redeems>>

Return ==
    /\ pc = "resting" \/ (pc = "drained" /\ ~ MustComplete)
    /\ pc' = "returned"
    /\ known' = receipt
    /\ UNCHANGED <<world, asked, receipt, err, redeems>>

(* After a throw the application has what it called with, or, when it drives track()
   itself, whatever was yielded before the throw. *)
LastSeen == IF Driver = "track" THEN receipt ELSE known

CallAgain ==
    /\ pc \in {"threw", "returned"}
    /\ LastSeen.state # DestinationFinalized
    /\ receipt' = LastSeen
    /\ known' = LastSeen
    /\ At(Entry(LastSeen))
    /\ err' = "none"
    /\ UNCHANGED <<world, redeems>>

Awaits == {"message", "vaa", "enqueued", "status", "complete", "executor", "redeeming"}

ClientNext == \/ GetTransferMessage \/ VaaFound \/ VaaMissing \/ IsTransferEnqueued
              \/ GetTransactionStatus \/ IsTransferComplete \/ GetExecutorTxStatus
              \/ StartRedeem \/ RedeemSucceeds \/ RedeemUnconfirmed \/ RedeemReverts
              \/ TrackAgain \/ Return \/ CallAgain

Init == /\ mode \in Modes
        /\ \E how \in Starts :
              /\ receipt = FirstReceipt(how)
              /\ world \in [message : {how # "initiate"}, governor : {"no"},
                            vaa : {how # "initiate"}, redeemed : {FALSE, how # "initiate"}, indexed : {FALSE},
                            relay : {IF Protocol = "TokenBridge" THEN "none" ELSE "unseen"}]
        /\ known = receipt
        /\ asked = world
        /\ pc = Entry(receipt)
        /\ err = "none"
        /\ redeems = 0

Next == /\ WorldNext \/ ClientNext \/ \E p \in Awaits : ServiceFails(p)
        /\ UNCHANGED mode

Spec == Init /\ [][Next]_vars

(* The chains, the guardians and the services do their work, and the client's calls
   return.  Nothing makes anybody redeem, or the governor hold. *)
Fairness == /\ WF_moving(MessageVisible) /\ WF_moving(GovernorReleases) /\ WF_moving(GuardiansSign)
            /\ WF_moving(ExecutorNotices) /\ WF_moving(ExecutorFails \/ ExecutorRedeems)
            /\ WF_moving(Indexed)
            /\ WF_moving(ClientNext)

FairSpec == Spec /\ Fairness
-----------------------------------------------------------------------------
Pcs == Awaits \cup {"drained", "resting", "returned", "threw"}

Errors == {"none", "service", "timeout", "redeem reverted", "Attestation not found",
           "No WormholeMessageId found", "No transaction status found",
           "TypeError: originTxs is undefined"}

TypeOK == /\ mode \in Modes
          /\ world \in World
          /\ asked \in World
          /\ WellFormed(receipt)
          /\ WellFormed(known)
          /\ pc \in Pcs
          /\ err \in Errors
          /\ redeems \in 0 .. 2

(* Whatever the services answer late or not at all, the states the application sees are
   true of the world and never go back: TransferTracking implements TransferView. *)
Happened == (IF world.message THEN {"message"} ELSE {})
            \cup (IF world.vaa THEN {"vaa"} ELSE {})
            \cup (IF world.redeemed THEN {"redeemed"} ELSE {})
            \cup (IF world.relay = "failed" THEN {"relayFailed"} ELSE {})

View == INSTANCE TransferView WITH facts <- Happened, view <- LastSeen.state

ImplementsView == View!Spec

(* A user never pays for a second redeem transaction: once the first is sent, whether it
   redeemed the transfer or lost against another redeemer, the loop sees that it is done. *)
UserRedeemsOnce == ~ Faults => redeems <= 1

(* A redeemed transfer is eventually shown as final to an application that keeps asking;
   checkAndCompleteTransfer() shows it to one that has an attested receipt. *)
RedeemedIsShown ==
    ~ Faults /\ world.redeemed /\ (Driver = "track" \/ known.attestation)
        ~> LastSeen.state = DestinationFinalized

(* A relay that failed is eventually shown to an application that keeps asking with a
   receipt that has origin transactions, unless the transfer got through otherwise. *)
RelayFailureIsShown ==
    ~ Faults /\ world.relay = "failed" /\ Driver = "track" /\ receipt.originTxs
        ~> LastSeen.state \in {Failed, DestinationInitiated, DestinationFinalized}

(* checkAndCompleteTransfer() brings an attested transfer of the manual route to its end,
   redeeming it if nobody else does. *)
AttestedIsFinalized ==
    ~ Faults /\ Driver = "check" /\ HasSigner /\ Protocol = "TokenBridge" /\ LastSeen.state = Attested
        ~> LastSeen.state = DestinationFinalized

(* "if there is an opportunity to complete, this function will do it" (examples/src/router.ts) *)
OpportunityTaken == <>(world.redeemed)

(* Receipts that are attested have their origin transactions (types.ts), so no section of
   track() fails for want of one. *)
OriginAtHand == err # "TypeError: originTxs is undefined"
=============================================================================
