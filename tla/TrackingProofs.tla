--------------------------- MODULE TrackingProofs ---------------------------
(***************************************************************************)
(* Theorems about TransferTracking, for both protocols and drivers, every  *)
(* way a receipt can start and every behaviour of the services.            *)
(***************************************************************************)
EXTENDS TransferTracking, TLAPS

(* An answer in flight can be late, but what it says has happened has happened. *)
StaleInv == /\ asked.message => world.message
            /\ asked.vaa => world.vaa
            /\ asked.redeemed => world.redeemed
            /\ asked.indexed => world.indexed
            /\ asked.relay = "failed" => world.relay = "failed"

(* Causes come before effects. *)
CausalInv == /\ world.vaa => world.message
             /\ world.redeemed => world.vaa
             /\ world.indexed => world.redeemed
             /\ world.relay \in {"pending", "submitted", "failed"} => world.message

(* Each await of track() is reached with a receipt of the section it belongs to. *)
SectionInv == /\ pc = "message" => receipt.state = SourceInitiated
              /\ pc \in {"vaa", "enqueued"} => receipt.state \in {SourceFinalized, InReview}
              /\ pc = "status" => receipt.state \in {Attested, Failed}
              /\ pc = "complete" => receipt.state \in {Attested, DestinationInitiated, Failed}
              /\ pc \in {"executor", "redeeming"} => receipt.state = Attested

(* The states track() can produce, and the fact behind each. *)
True(s) == \/ s = SourceInitiated
           \/ s \in {SourceFinalized, InReview} /\ world.message
           \/ s = Attested /\ world.vaa
           \/ s \in {DestinationInitiated, DestinationFinalized} /\ world.redeemed
           \/ s = Failed /\ world.relay = "failed"

TruthInv == True(receipt.state) /\ True(known.state)

(* A call returns a later state than it was made with. *)
OrderInv == Follows(known.state, receipt.state)

IInv == TypeOK /\ StaleInv /\ CausalInv /\ SectionInv /\ TruthInv /\ OrderInv
-----------------------------------------------------------------------------
LEMMA InitIInv == Init => IInv
<1> SUFFICES ASSUME Init PROVE IInv
  OBVIOUS
<1> USE TrackingAssumption DEF Failed, Created, SourceInitiated, SourceFinalized, InReview,
        Attested, Refunded, DestinationInitiated, DestinationQueued, DestinationFinalized
<1>1. PICK how \in Starts :
         /\ receipt = FirstReceipt(how)
         /\ world \in [message : {how # "initiate"}, governor : {"no"},
                       vaa : {how # "initiate"}, redeemed : {FALSE, how # "initiate"},
                       indexed : {FALSE},
                       relay : {IF Protocol = "TokenBridge" THEN "none" ELSE "unseen"}]
  BY DEF Init
<1>2. world \in World /\ CausalInv /\ world.relay # "failed"
  BY <1>1 DEF World, Relays, CausalInv
<1>3. WellFormed(receipt) /\ True(receipt.state)
  <2>1. CASE how = "initiate"
    <3>1. receipt = [state |-> 1, attestation |-> FALSE, originTxs |-> TRUE]
      BY <1>1, <2>1 DEF FirstReceipt
    <3> QED
      BY <3>1 DEF WellFormed, Receipt, TransferState, True
  <2>2. CASE how # "initiate"
    <3>1. /\ receipt.state = 4 /\ receipt.attestation
          /\ receipt \in [state : {4}, attestation : BOOLEAN, originTxs : BOOLEAN]
      BY <1>1, <2>2 DEF FirstReceipt
    <3>2. world.vaa
      BY <1>1, <2>2
    <3> QED
      BY <3>1, <3>2 DEF WellFormed, Receipt, TransferState, True
  <2> QED
    BY <2>1, <2>2
<1>4. pc \in Pcs /\ SectionInv
  BY <1>1 DEF Init, Entry, FirstReceipt, SectionInv, Pcs, Awaits
<1> QED
  BY <1>2, <1>3, <1>4 DEF Init, IInv, TypeOK, StaleInv, TruthInv, OrderInv, Follows, Errors

client == <<mode, asked, receipt, known, pc, err, redeems>>

(* What every step of the world does: facts stay true, and causes come first. *)
WorldGrows == /\ world' \in World
              /\ CausalInv'
              /\ world.message => world'.message
              /\ world.vaa => world'.vaa
              /\ world.redeemed => world'.redeemed
              /\ world.indexed => world'.indexed
              /\ world.relay = "failed" => world'.relay = "failed"

LEMMA WorldStep == IInv /\ WorldNext /\ UNCHANGED mode => WorldGrows /\ UNCHANGED client
<1> SUFFICES ASSUME IInv, WorldNext, UNCHANGED mode PROVE WorldGrows /\ UNCHANGED client
  OBVIOUS
<1> USE DEF IInv, TypeOK, CausalInv, World, Relays, Becomes, client, WorldGrows
<1>1. CASE MessageVisible
  BY <1>1 DEF MessageVisible
<1>2. CASE GovernorHolds
  BY <1>2 DEF GovernorHolds
<1>3. CASE GovernorReleases
  BY <1>3 DEF GovernorReleases
<1>4. CASE GuardiansSign
  BY <1>4 DEF GuardiansSign
<1>5. CASE ExecutorNotices
  BY <1>5 DEF ExecutorNotices
<1>6. CASE ExecutorFails
  BY <1>6 DEF ExecutorFails
<1>7. CASE ExecutorRedeems
  <2> DEFINE w == [world EXCEPT !.redeemed = TRUE]
  <2>1. w \in World /\ w.redeemed /\ w.message = world.message /\ w.vaa = world.vaa
           /\ w.indexed = world.indexed
    OBVIOUS
  <2>2. world' = [w EXCEPT !.relay = "submitted"] /\ world.vaa /\ world.relay # "failed"
    BY <1>7 DEF ExecutorRedeems
  <2>3. UNCHANGED client
    BY <1>7 DEF ExecutorRedeems
  <2> HIDE DEF w
  <2> QED
    BY <2>1, <2>2, <2>3
<1>8. CASE OthersRedeem
  BY <1>8 DEF OthersRedeem
<1>9. CASE Indexed
  BY <1>9 DEF Indexed
<1> QED
  BY <1>1, <1>2, <1>3, <1>4, <1>5, <1>6, <1>7, <1>8, <1>9 DEF WorldNext

(* The invariant does not mind a world that grows. *)
LEMMA GrowthKeepsIInv == IInv /\ WorldGrows /\ UNCHANGED client => IInv'
<1> SUFFICES ASSUME IInv, WorldGrows, UNCHANGED client PROVE IInv'
  OBVIOUS
<1>1. TypeOK' /\ CausalInv'
  BY DEF IInv, TypeOK, WorldGrows, client
<1>2. StaleInv'
  BY DEF IInv, StaleInv, WorldGrows, client
<1>3. SectionInv' /\ OrderInv'
  BY DEF IInv, SectionInv, OrderInv, Follows, client
<1>4. TruthInv'
  BY DEF IInv, TruthInv, True, WorldGrows, client
<1> QED
  BY <1>1, <1>2, <1>3, <1>4 DEF IInv
-----------------------------------------------------------------------------
(* The client.  A step that leaves the world alone either keeps the pending question or
   asks a new one of the current world. *)
Asks == UNCHANGED <<mode, world>> /\ (asked' = world \/ UNCHANGED asked)

LEMMA AskKeeps == IInv /\ Asks => (world \in World /\ StaleInv /\ CausalInv /\ asked \in World)'
  BY DEF IInv, TypeOK, Asks, StaleInv, CausalInv

(* What track() may do to its receipt: nothing, or advance to a state that is true. *)
Advances == /\ WellFormed(receipt)'
            /\ True(receipt'.state)
            /\ Follows(receipt.state, receipt'.state)

(* A yield changes the state of the receipt and nothing else of it. *)
LEMMA YieldSetsState ==
    ASSUME receipt \in Receipt, NEW s \in TransferState, Yield(s)
    PROVE  /\ receipt' \in Receipt
           /\ receipt'.state = s
           /\ receipt'.attestation = receipt.attestation
  BY DEF Receipt, Yield

(* A yielded state advances the receipt if it is true, follows, and has its attestation. *)
LEMMA YieldAdvances ==
    ASSUME IInv, NEW s \in TransferState, Yield(s), True(s), Follows(receipt.state, s),
           s \in {SourceFinalized, InReview} \/ receipt.attestation
    PROVE  Advances
<1>1. receipt \in Receipt
  BY DEF IInv, TypeOK, WellFormed
<1>2. /\ receipt' \in Receipt
      /\ receipt'.state = s
      /\ receipt'.attestation = receipt.attestation
  BY <1>1, YieldSetsState
<1> QED
  BY <1>2 DEF Advances, WellFormed, SourceFinalized, InReview, Attested, Failed,
              DestinationInitiated, DestinationFinalized

LEMMA KeepAdvances == IInv /\ UNCHANGED receipt => Advances
  BY DEF IInv, TypeOK, TruthInv, Advances, Follows, WellFormed

LEMMA ReceiptAdvances ==
    ASSUME IInv,
           \/ GetTransferMessage \/ VaaFound \/ VaaMissing \/ IsTransferEnqueued
           \/ GetTransactionStatus \/ IsTransferComplete \/ GetExecutorTxStatus
    PROVE  Advances
<1> USE DEF Failed, Created, SourceInitiated, SourceFinalized, InReview, Attested, Refunded,
        DestinationInitiated, DestinationQueued, DestinationFinalized
<1>0. /\ receipt \in Receipt /\ world \in World /\ asked \in World
      /\ receipt.state \in {Attested, Failed, DestinationInitiated} => receipt.attestation
  BY DEF IInv, TypeOK, WellFormed
<1>1. CASE GetTransferMessage
  <2>1. CASE TRUE \in Seen("message") /\ Yield(SourceFinalized)
    <3>1. world.message
      BY <1>0, <2>1 DEF Seen, World, IInv, StaleInv
    <3>2. pc = "message"
      BY <1>1 DEF GetTransferMessage
    <3>3. True(SourceFinalized) /\ Follows(receipt.state, SourceFinalized)
      BY <3>1, <3>2 DEF True, Follows, IInv, SectionInv
    <3> QED
      BY <2>1, <3>3, YieldAdvances DEF TransferState
  <2>2. CASE UNCHANGED receipt
    BY <2>2, KeepAdvances
  <2> QED
    BY <1>1, <2>1, <2>2 DEF GetTransferMessage
<1>2. CASE VaaFound
  <2>1. world.vaa
    BY <1>0, <1>2 DEF VaaFound, Seen, World, IInv, StaleInv
  <2> DEFINE r == [receipt EXCEPT !.state = Attested]
  <2>2. r \in Receipt /\ r.state = Attested
    BY <1>0 DEF Receipt, TransferState
  <2>3. receipt' = [r EXCEPT !.attestation = TRUE]
    BY <1>2 DEF VaaFound, WithVaa
  <2> HIDE DEF r
  <2>4. receipt' \in Receipt /\ receipt'.state = Attested /\ receipt'.attestation
    BY <2>2, <2>3 DEF Receipt
  <2>5. receipt.state \in {SourceFinalized, InReview}
    BY <1>2 DEF VaaFound, IInv, SectionInv
  <2>6. Follows(receipt.state, Attested)
    BY <2>5 DEF Follows
  <2> QED
    BY <2>1, <2>4, <2>6 DEF Advances, WellFormed, True
<1>3. CASE VaaMissing
  BY <1>3, KeepAdvances DEF VaaMissing
<1>4. CASE IsTransferEnqueued
  <2>1. receipt.state \in {SourceFinalized, InReview}
    BY <1>4 DEF IsTransferEnqueued, IInv, SectionInv
  <2>2. True(InReview) /\ Follows(receipt.state, InReview)
    BY <2>1 DEF True, Follows, IInv, TruthInv
  <2>3. CASE Yield(InReview)
    BY <2>2, <2>3, YieldAdvances DEF TransferState
  <2>4. CASE UNCHANGED receipt
    BY <2>4, KeepAdvances
  <2> QED
    BY <1>4, <2>3, <2>4 DEF IsTransferEnqueued, Reviewed
<1>5. CASE GetTransactionStatus
  <2>1. CASE TRUE \in Seen("indexed") /\ Yield(DestinationInitiated)
    <3>1. world.redeemed
      BY <1>0, <2>1 DEF Seen, World, IInv, StaleInv, CausalInv
    <3>2. receipt.state \in {Attested, Failed}
      BY <1>5 DEF GetTransactionStatus, IInv, SectionInv
    <3>3. True(DestinationInitiated) /\ Follows(receipt.state, DestinationInitiated)
      BY <3>1, <3>2 DEF True, Follows
    <3> QED
      BY <1>0, <2>1, <3>2, <3>3, YieldAdvances DEF TransferState
  <2>2. CASE UNCHANGED receipt
    BY <2>2, KeepAdvances
  <2>3. PICK i \in Seen("indexed") :
            IF i THEN Yield(DestinationInitiated) ELSE UNCHANGED receipt
    BY <1>5 DEF GetTransactionStatus
  <2>4. i \in BOOLEAN
    BY <1>0, <2>3 DEF Seen, World
  <2> QED
    BY <2>1, <2>2, <2>3, <2>4
<1>6. CASE IsTransferComplete
  <2>1. CASE TRUE \in RedeemAnswers /\ Yield(DestinationFinalized)
    <3>1. world.redeemed
      BY <1>0, <2>1 DEF RedeemAnswers, Seen, World, IInv, StaleInv
    <3>2. receipt.state \in {Attested, DestinationInitiated, Failed}
      BY <1>6 DEF IsTransferComplete, IInv, SectionInv
    <3>3. True(DestinationFinalized) /\ Follows(receipt.state, DestinationFinalized)
      BY <3>1, <3>2 DEF True, Follows
    <3> QED
      BY <1>0, <2>1, <3>2, <3>3, YieldAdvances DEF TransferState
  <2>2. CASE UNCHANGED receipt
    BY <2>2, KeepAdvances
  <2>3. PICK c \in RedeemAnswers : Completed(c)
    BY <1>6 DEF IsTransferComplete
  <2>4. c \in BOOLEAN
    BY <1>0, <2>3 DEF RedeemAnswers, Seen, World
  <2> QED
    BY <2>1, <2>2, <2>3, <2>4 DEF Completed
<1>7. CASE GetExecutorTxStatus
  <2>1. CASE "failed" \in Seen("relay") /\ Yield(Failed)
    <3>1. world.relay = "failed"
      BY <2>1 DEF Seen, IInv, StaleInv
    <3>2. receipt.state = Attested
      BY <1>7 DEF GetExecutorTxStatus, IInv, SectionInv
    <3>3. True(Failed) /\ Follows(receipt.state, Failed)
      BY <3>1, <3>2 DEF True, Follows
    <3> QED
      BY <1>0, <2>1, <3>2, <3>3, YieldAdvances DEF TransferState
  <2>2. CASE UNCHANGED receipt
    BY <2>2, KeepAdvances
  <2>3. CASE \E s \in Seen("relay") \ {"unseen"} :
                IF RelayFailure(s) THEN Yield(Failed) ELSE UNCHANGED receipt
    BY <2>1, <2>2, <2>3 DEF RelayFailure
  <2> QED
    BY <1>7, <2>2, <2>3 DEF GetExecutorTxStatus
<1> QED
  BY <1>1, <1>2, <1>3, <1>4, <1>5, <1>6, <1>7

LEMMA FollowsIsTransitive ==
    ASSUME NEW r \in TransferState, NEW s \in TransferState, NEW t \in TransferState,
           Follows(r, s), Follows(s, t)
    PROVE  Follows(r, t)
  BY DEF Follows, TransferState, Failed, Attested, DestinationFinalized

(* A step of track(): the answer to the pending question is worked into the receipt. *)
LEMMA TrackKeepsIInv ==
    ASSUME IInv, Asks, Advances, UNCHANGED <<known, redeems>>, pc' \in Pcs, err' \in Errors,
           SectionInv'
    PROVE  IInv'
<1>1. (world \in World /\ StaleInv /\ CausalInv /\ asked \in World)'
  BY AskKeeps
<1>2. TypeOK'
  BY <1>1 DEF IInv, TypeOK, Advances, Asks
<1>3. TruthInv'
  BY DEF IInv, TruthInv, Advances, True, Asks
<1>4. OrderInv'
  <2>1. /\ receipt.state \in TransferState /\ known.state \in TransferState
        /\ receipt'.state \in TransferState
    BY DEF IInv, TypeOK, Advances, WellFormed, Receipt
  <2> QED
    BY <2>1, FollowsIsTransitive DEF IInv, OrderInv, Advances
<1> QED
  BY <1>1, <1>2, <1>3, <1>4 DEF IInv

Tracks == \/ GetTransferMessage \/ VaaFound \/ VaaMissing \/ IsTransferEnqueued
          \/ GetTransactionStatus \/ IsTransferComplete \/ GetExecutorTxStatus

Loops == \/ StartRedeem \/ RedeemSucceeds \/ RedeemUnconfirmed \/ RedeemReverts
         \/ TrackAgain \/ Return \/ CallAgain

LEMMA TracksFrame ==
    ASSUME IInv, Tracks, UNCHANGED mode
    PROVE  /\ Asks /\ UNCHANGED <<world, known, redeems>>
           /\ pc' \in Pcs /\ err' \in Errors
<1> USE DEF Asks, At, Throw, Pcs, Awaits, Errors, IInv, TypeOK
<1>1. CASE GetTransferMessage
  BY <1>1 DEF GetTransferMessage
<1>2. CASE VaaFound
  BY <1>2 DEF VaaFound
<1>3. CASE VaaMissing
  BY <1>3 DEF VaaMissing
<1>4. CASE IsTransferEnqueued
  BY <1>4 DEF IsTransferEnqueued
<1>5. CASE GetTransactionStatus
  BY <1>5 DEF GetTransactionStatus
<1>6. CASE IsTransferComplete
  BY <1>6 DEF IsTransferComplete, AfterComplete
<1>7. CASE GetExecutorTxStatus
  BY <1>7 DEF GetExecutorTxStatus
<1> QED
  BY <1>1, <1>2, <1>3, <1>4, <1>5, <1>6, <1>7 DEF Tracks

LEMMA TracksSection ==
    ASSUME IInv, Tracks
    PROVE  SectionInv'
<1> USE DEF At, Throw, SectionInv
<1>0. receipt \in Receipt /\ SectionInv
  BY DEF IInv, TypeOK, WellFormed
<1>1. CASE GetTransferMessage
  <2>1. CASE pc' = "threw"
    BY <2>1
  <2>2. CASE Yield(SourceFinalized) /\ pc' = "vaa"
    <3>1. receipt'.state = SourceFinalized
      BY <1>0, <2>2, YieldSetsState DEF TransferState, Failed, SourceFinalized,
                                        DestinationFinalized
    <3> QED
      BY <2>2, <3>1
  <2> QED
    BY <1>1, <2>1, <2>2 DEF GetTransferMessage
<1>2. CASE VaaFound
  BY <1>2 DEF VaaFound
<1>3. CASE VaaMissing
  BY <1>0, <1>3 DEF VaaMissing
<1>4. CASE IsTransferEnqueued
  BY <1>4 DEF IsTransferEnqueued
<1>5. CASE GetTransactionStatus
  <2>1. pc = "status" /\ pc' = "complete" /\ (Yield(DestinationInitiated) \/ UNCHANGED receipt)
    BY <1>5 DEF GetTransactionStatus
  <2>2. Yield(DestinationInitiated) => receipt'.state = DestinationInitiated
    BY <1>0, YieldSetsState DEF TransferState, Failed, DestinationInitiated,
                                DestinationFinalized
  <2> QED
    BY <1>0, <2>1, <2>2
<1>6. CASE IsTransferComplete
  BY <1>6 DEF IsTransferComplete, AfterComplete
<1>7. CASE GetExecutorTxStatus
  BY <1>7 DEF GetExecutorTxStatus
<1> QED
  BY <1>1, <1>2, <1>3, <1>4, <1>5, <1>6, <1>7 DEF Tracks

LEMMA EntryIsItsSection ==
    ASSUME NEW r \in Receipt
    PROVE  /\ Entry(r) \in Pcs
           /\ Entry(r) = "message" => r.state = SourceInitiated
           /\ Entry(r) \in {"vaa", "enqueued"} => r.state \in {SourceFinalized, InReview}
           /\ Entry(r) = "status" => r.state \in {Attested, Failed}
           /\ Entry(r) = "complete" => r.state = DestinationInitiated
           /\ Entry(r) \notin {"executor", "redeeming"}
  BY DEF Entry, Pcs, Awaits

LEMMA LastSeenIsSound ==
    IInv => LastSeen \in {receipt, known} /\ WellFormed(LastSeen) /\ True(LastSeen.state)
  BY DEF IInv, TypeOK, TruthInv, LastSeen

(* The loop around track(): calls, redeems and returns. *)
LEMMA LoopsKeepIInv ==
    ASSUME IInv, Loops, UNCHANGED mode
    PROVE  IInv'
<1> USE DEF IInv
<1>1. ASSUME UNCHANGED <<world, receipt, known>>, Asks, redeems' \in 0 .. 2, err' \in Errors,
             \/ pc' \in {"resting", "threw"}
             \/ pc' = "redeeming" /\ receipt.state = Attested
             \/ pc' = Entry(receipt)
      PROVE  IInv'
  <2>1. receipt \in Receipt
    BY DEF TypeOK, WellFormed
  <2>2. pc' \in Pcs /\ SectionInv'
    BY <1>1, <2>1, EntryIsItsSection DEF SectionInv, Pcs, Awaits
  <2>3. (world \in World /\ StaleInv /\ CausalInv /\ asked \in World)'
    BY <1>1, AskKeeps
  <2>4. TypeOK' /\ TruthInv' /\ OrderInv'
    BY <1>1, <2>2, <2>3 DEF TypeOK, TruthInv, True, OrderInv
  <2> QED
    BY <2>2, <2>3, <2>4
<1>2. ASSUME NEW d \in {"resting", "threw"}, pc = "redeeming", pc' = d,
             world' = [world EXCEPT !.redeemed = TRUE],
             redeems' \in 0 .. 2, err' \in Errors, UNCHANGED <<asked, receipt, known>>
      PROVE  IInv'
  <2>1. world \in World /\ world.vaa
    BY <1>2 DEF TypeOK, SectionInv, TruthInv, True, Failed, Attested, SourceInitiated,
                SourceFinalized, InReview, DestinationInitiated, DestinationFinalized
  <2>2. /\ world' \in World /\ world'.redeemed
        /\ world'.message = world.message /\ world'.vaa = world.vaa
        /\ world'.indexed = world.indexed /\ world'.relay = world.relay
    BY <1>2, <2>1 DEF World
  <2>3. CausalInv' /\ StaleInv'
    BY <1>2, <2>1, <2>2 DEF CausalInv, StaleInv
  <2>4. TypeOK' /\ SectionInv' /\ OrderInv'
    BY <1>2, <2>2 DEF TypeOK, SectionInv, OrderInv, Pcs
  <2>5. TruthInv'
    BY <1>2, <2>2 DEF TruthInv, True
  <2> QED
    BY <2>3, <2>4, <2>5
<1>3. redeems \in 0 .. 2 /\ err \in Errors
  BY DEF TypeOK
<1>4. (IF redeems < 2 THEN redeems + 1 ELSE 2) \in 0 .. 2
  BY <1>3
<1>5. CASE StartRedeem
  BY <1>1, <1>3, <1>5 DEF StartRedeem, MustComplete, At, Asks
<1>6. CASE RedeemSucceeds
  BY <1>2, <1>3, <1>4, <1>6 DEF RedeemSucceeds
<1>7. CASE RedeemUnconfirmed
  BY <1>2, <1>4, <1>7 DEF RedeemUnconfirmed, Throw, Errors
<1>8. CASE RedeemReverts
  BY <1>1, <1>4, <1>8 DEF RedeemReverts, Throw, Errors, Asks
<1>9. CASE TrackAgain
  BY <1>1, <1>3, <1>9 DEF TrackAgain, At, Asks
<1>10. CASE Return
  <2>1. UNCHANGED <<world, asked, receipt, err, redeems>> /\ known' = receipt /\ pc' = "returned"
    BY <1>10 DEF Return
  <2>2. TypeOK' /\ StaleInv' /\ CausalInv' /\ SectionInv'
    BY <2>1 DEF TypeOK, StaleInv, CausalInv, SectionInv, Pcs
  <2> QED
    BY <2>1, <2>2 DEF TruthInv, True, OrderInv, Follows
<1>11. CASE CallAgain
  <2>1. /\ receipt' = LastSeen /\ known' = LastSeen /\ pc' = Entry(LastSeen)
        /\ asked' = world /\ err' \in Errors /\ UNCHANGED <<world, redeems>>
    BY <1>11 DEF CallAgain, At, Errors
  <2>2. WellFormed(LastSeen) /\ True(LastSeen.state) /\ LastSeen \in Receipt
    BY LastSeenIsSound DEF WellFormed
  <2>3. pc' \in Pcs /\ SectionInv'
    BY <2>1, <2>2, EntryIsItsSection DEF SectionInv
  <2>4. (world \in World /\ StaleInv /\ CausalInv /\ asked \in World)'
    BY <2>1, AskKeeps DEF Asks
  <2>5. WellFormed(receipt)' /\ WellFormed(known)'
    BY <2>1, <2>2 DEF WellFormed
  <2>6. TypeOK' /\ TruthInv' /\ OrderInv'
    BY <2>1, <2>2, <2>3, <2>4, <2>5 DEF TypeOK, TruthInv, True, OrderInv, Follows
  <2> QED
    BY <2>3, <2>4, <2>6
<1> QED
  BY <1>5, <1>6, <1>7, <1>8, <1>9, <1>10, <1>11 DEF Loops

LEMMA ModeStays == [Next]_vars => UNCHANGED mode
  BY DEF Next, vars

LEMMA NextIInv == IInv /\ [Next]_vars => IInv'
<1> SUFFICES ASSUME IInv, [Next]_vars PROVE IInv'
  OBVIOUS
<1> USE ModeStays
<1>1. CASE WorldNext
  BY <1>1, WorldStep, GrowthKeepsIInv
<1>2. CASE Tracks
  BY <1>2, TracksFrame, TracksSection, ReceiptAdvances, TrackKeepsIInv DEF Tracks
<1>3. CASE Loops
  BY <1>3, LoopsKeepIInv
<1>4. CASE \E p \in Awaits : ServiceFails(p)
  <2>1. UNCHANGED <<world, asked, receipt, known, redeems>> /\ pc' = "threw" /\ err' = "service"
    BY <1>4 DEF ServiceFails, Throw
  <2> QED
    BY <2>1 DEF IInv, TypeOK, StaleInv, CausalInv, SectionInv, TruthInv, True, OrderInv, Pcs,
                Errors
<1>5. CASE UNCHANGED vars
  BY <1>5 DEF vars, moving, IInv, TypeOK, StaleInv, CausalInv, SectionInv, TruthInv, True, OrderInv
<1> QED
  BY <1>1, <1>2, <1>3, <1>4, <1>5 DEF Next, ClientNext, Tracks, Loops

(* Every reachable state satisfies the invariant. *)
THEOREM TrackingInvariant == Spec => []IInv
  BY InitIInv, NextIInv, PTL DEF Spec

(* The receipts are well formed at every await, and nothing holds an attested state without
   its attestation. *)
THEOREM TrackingTypeOK == Spec => []TypeOK
<1>1. IInv => TypeOK
  BY DEF IInv
<1> QED
  BY <1>1, TrackingInvariant, PTL
-----------------------------------------------------------------------------
(* Refinement: what the application sees follows TransferView. *)

LEMMA TruthIsJustified ==
    ASSUME CausalInv, NEW s, True(s)
    PROVE  View!Justified(s)
  BY DEF CausalInv, True, View!Justified, Happened,
         Failed, SourceInitiated, SourceFinalized, InReview, Attested, DestinationInitiated,
         DestinationFinalized, View!Failed, View!SourceInitiated, View!SourceFinalized,
         View!InReview, View!Attested, View!DestinationInitiated, View!DestinationFinalized

LEMMA WorldShowsNothing ==
    ASSUME IInv, WorldNext, UNCHANGED mode
    PROVE  [View!Next]_(View!viewVars)
<1> USE DEF Happened
<1>1. UNCHANGED client /\ WorldGrows
  BY WorldStep
<1>2. UNCHANGED LastSeen.state
  BY <1>1 DEF LastSeen, Driver, client
<1>3. ASSUME NEW f \in View!Facts, f \notin Happened, View!Requires(f) \subseteq Happened,
             Happened' = Happened \cup {f}
      PROVE  View!Next
  BY <1>2, <1>3 DEF View!Next, View!Happens
<1>4. CASE UNCHANGED Happened
  BY <1>2, <1>4 DEF View!viewVars
<1>5. world \in World
  BY DEF IInv, TypeOK
<1> USE DEF World, Relays, Becomes, View!Facts, View!Requires
<1>6. CASE MessageVisible
  BY <1>3, <1>5, <1>6 DEF MessageVisible
<1>7. CASE GovernorHolds
  BY <1>4, <1>5, <1>7 DEF GovernorHolds
<1>8. CASE GovernorReleases
  BY <1>4, <1>5, <1>8 DEF GovernorReleases
<1>9. CASE GuardiansSign
  BY <1>3, <1>5, <1>9 DEF GuardiansSign
<1>10. CASE ExecutorNotices
  BY <1>4, <1>5, <1>10 DEF ExecutorNotices
<1>11. CASE ExecutorFails
  BY <1>3, <1>5, <1>11 DEF ExecutorFails, IInv, CausalInv
<1>12. CASE ExecutorRedeems
  BY <1>3, <1>5, <1>12 DEF ExecutorRedeems
<1>13. CASE OthersRedeem
  BY <1>3, <1>5, <1>13 DEF OthersRedeem
<1>14. CASE Indexed
  BY <1>4, <1>5, <1>14 DEF Indexed
<1> QED
  BY <1>6, <1>7, <1>8, <1>9, <1>10, <1>11, <1>12, <1>13, <1>14 DEF WorldNext

(* A step that leaves the world alone and shows a true state that may follow. *)
LEMMA ClientShows ==
    ASSUME IInv, UNCHANGED world, LastSeen'.state \in TransferState, True(LastSeen'.state),
           Follows(LastSeen.state, LastSeen'.state)
    PROVE  [View!Next]_(View!viewVars)
<1>1. View!Justified(LastSeen'.state)
  BY TruthIsJustified DEF IInv
<1>2. UNCHANGED Happened
  BY DEF Happened
<1>3. View!Follows(LastSeen.state, LastSeen'.state) /\ LastSeen'.state \in View!TransferState
  BY DEF Follows, View!Follows, TransferState, View!TransferState, Failed, View!Failed,
         Attested, View!Attested, DestinationFinalized, View!DestinationFinalized
<1>4. CASE LastSeen'.state = LastSeen.state
  BY <1>2, <1>4 DEF View!viewVars
<1>5. CASE LastSeen'.state # LastSeen.state
  <2>1. View!Shows(LastSeen'.state)
    BY <1>1, <1>2, <1>3, <1>5 DEF View!Shows
  <2> QED
    BY <1>3, <2>1 DEF View!Next
<1> QED
  BY <1>4, <1>5

(* The redeem of the user is the fact that the transfer is redeemed. *)
LEMMA RedeemHappens ==
    ASSUME IInv, pc = "redeeming", ~ world.redeemed, world' = [world EXCEPT !.redeemed = TRUE],
           UNCHANGED <<mode, receipt, known>>
    PROVE  View!Next
<1>1. world \in World /\ world.vaa
  BY DEF IInv, TypeOK, SectionInv, TruthInv, True, Failed, Attested, SourceInitiated,
         SourceFinalized, InReview, DestinationInitiated, DestinationFinalized
<1>2. /\ world'.redeemed
      /\ world'.message = world.message /\ world'.vaa = world.vaa
      /\ world'.relay = world.relay
  BY <1>1 DEF World
<1>3. Happened' = Happened \cup {"redeemed"} /\ "redeemed" \notin Happened /\ "vaa" \in Happened
  BY <1>1, <1>2 DEF Happened
<1>4. UNCHANGED LastSeen.state
  BY DEF LastSeen, Driver
<1>5. View!Happens("redeemed")
  BY <1>3, <1>4 DEF View!Happens, View!Requires
<1> QED
  BY <1>5 DEF View!Next, View!Facts

LEMMA InitShows == Init => View!Init
<1> SUFFICES ASSUME Init PROVE View!Init
  OBVIOUS
<1>1. IInv
  BY InitIInv
<1>2. View!Justified(LastSeen.state)
  BY <1>1, LastSeenIsSound, TruthIsJustified DEF IInv
<1>3. LastSeen.state \in View!TransferState
  BY <1>1, LastSeenIsSound DEF WellFormed, Receipt, TransferState, View!TransferState,
        Failed, View!Failed, DestinationFinalized, View!DestinationFinalized
<1>4. Happened \in SUBSET View!Facts
  BY DEF Happened, View!Facts
<1> QED
  BY <1>2, <1>3, <1>4 DEF View!Init

LEMMA StepShows == IInv /\ [Next]_vars => [View!Next]_(View!viewVars)
<1> SUFFICES ASSUME IInv, [Next]_vars PROVE [View!Next]_(View!viewVars)
  OBVIOUS
<1>0. IInv' /\ UNCHANGED mode
  BY NextIInv, ModeStays
<1>c. UNCHANGED Driver
  BY <1>0 DEF Driver
<1> USE <1>0, <1>c
<1>a. /\ LastSeen'.state \in TransferState /\ LastSeen.state \in TransferState
      /\ True(LastSeen.state)
      /\ UNCHANGED world => True(LastSeen'.state)
  BY <1>0 DEF IInv, TypeOK, WellFormed, Receipt, LastSeen, TruthInv, True
<1>b. ASSUME UNCHANGED <<world, LastSeen>>
      PROVE  [View!Next]_(View!viewVars)
  BY <1>a, <1>b, ClientShows DEF Follows
<1>1. CASE WorldNext
  BY <1>1, WorldShowsNothing
<1>2. CASE Tracks
  <2>1. Asks /\ UNCHANGED <<world, known>> /\ Advances
    BY <1>2, TracksFrame, ReceiptAdvances DEF Tracks
  <2>2. Follows(LastSeen.state, LastSeen'.state)
    BY <2>1 DEF Advances, LastSeen, Follows
  <2> QED
    BY <1>a, <2>1, <2>2, ClientShows
<1>3. CASE StartRedeem \/ RedeemReverts \/ TrackAgain
  BY <1>b, <1>3 DEF StartRedeem, RedeemReverts, TrackAgain, LastSeen
<1>4. CASE RedeemSucceeds \/ RedeemUnconfirmed
  BY <1>4, RedeemHappens DEF RedeemSucceeds, RedeemUnconfirmed
<1>5. CASE Return
  <2>1. UNCHANGED world /\ receipt' = receipt /\ known' = receipt
    BY <1>5 DEF Return
  <2>2. Follows(LastSeen.state, LastSeen'.state)
    BY <2>1 DEF IInv, OrderInv, LastSeen, Follows
  <2> QED
    BY <1>a, <2>1, <2>2, ClientShows
<1>6. CASE CallAgain
  BY <1>b, <1>6 DEF CallAgain, LastSeen
<1>7. CASE \E p \in Awaits : ServiceFails(p)
  BY <1>b, <1>7 DEF ServiceFails, LastSeen
<1>8. CASE UNCHANGED vars
  BY <1>b, <1>8 DEF vars, moving, LastSeen
<1> QED
  BY <1>1, <1>2, <1>3, <1>4, <1>5, <1>6, <1>7, <1>8 DEF Next, ClientNext, Tracks

(* What an application is shown by track() or checkAndCompleteTransfer() is true of the
   chains and never goes back, whatever the services answer late, wrongly as missing or
   not at all. *)
THEOREM TrackingImplementsView == Spec => ImplementsView
  BY InitShows, StepShows, TrackingInvariant, PTL DEF Spec, ImplementsView, View!Spec
-----------------------------------------------------------------------------
(* One redeem is enough, as long as the services answer. *)

(* Once the user has redeemed, the transfer is; every question asked since is answered so,
   and no path leads to another redeem. *)
OnceInv == /\ redeems \in 0 .. 1
           /\ redeems = 1 => /\ world.redeemed
                             /\ pc = "complete" => asked.redeemed
                             /\ pc \notin {"executor", "redeeming"}
                             /\ pc = "drained" => receipt.state # Attested

LEMMA LoopsKeepOnce ==
    ASSUME ~ Faults, IInv, OnceInv, Loops
    PROVE  OnceInv'
<1> USE DEF OnceInv
<1>1. ASSUME NEW r \in Receipt, receipt' = r, pc' = Entry(r), asked' = world,
             UNCHANGED <<world, redeems>>
      PROVE  OnceInv'
  BY <1>1 DEF Entry
<1>2. receipt \in Receipt /\ LastSeen \in Receipt /\ world \in World
  BY LastSeenIsSound DEF IInv, TypeOK, WellFormed
<1>3. CASE StartRedeem
  BY <1>3 DEF StartRedeem, MustComplete, At
<1>4. CASE RedeemSucceeds
  <2>1. redeems = 0 /\ redeems' = 1 /\ pc' = "resting" /\ world' = [world EXCEPT !.redeemed = TRUE]
    BY <1>4 DEF RedeemSucceeds
  <2>2. world'.redeemed
    BY <1>2, <2>1 DEF World
  <2> QED
    BY <2>1, <2>2
<1>5. CASE RedeemUnconfirmed
  BY <1>5 DEF RedeemUnconfirmed
<1>6. CASE RedeemReverts
  <2>1. /\ world.redeemed /\ pc = "redeeming" /\ pc' = "threw"
        /\ redeems' = IF redeems < 2 THEN redeems + 1 ELSE 2
        /\ UNCHANGED world
    BY <1>6 DEF RedeemReverts, Throw
  <2>2. redeems = 0
    BY <2>1
  <2>3. redeems' = 1
    BY <2>1, <2>2
  <2> QED
    BY <2>1, <2>3
<1>7. CASE TrackAgain
  BY <1>1, <1>2, <1>7 DEF TrackAgain, At
<1>8. CASE Return
  BY <1>8 DEF Return
<1>9. CASE CallAgain
  BY <1>1, <1>2, <1>9 DEF CallAgain, At
<1> QED
  BY <1>3, <1>4, <1>5, <1>6, <1>7, <1>8, <1>9 DEF Loops

LEMMA TracksKeepOnce ==
    ASSUME ~ Faults, IInv, OnceInv, Tracks, UNCHANGED mode
    PROVE  OnceInv'
<1> USE DEF OnceInv, At, Throw
<1>1. UNCHANGED <<world, redeems>> /\ receipt \in Receipt /\ world \in World /\ asked \in World
  BY TracksFrame DEF IInv, TypeOK, WellFormed
<1>2. CASE GetTransferMessage
  BY <1>1, <1>2 DEF GetTransferMessage
<1>3. CASE VaaFound
  BY <1>1, <1>3 DEF VaaFound
<1>4. CASE VaaMissing
  BY <1>1, <1>4 DEF VaaMissing
<1>5. CASE IsTransferEnqueued
  BY <1>1, <1>5 DEF IsTransferEnqueued
<1>6. CASE GetTransactionStatus
  BY <1>1, <1>6 DEF GetTransactionStatus
<1>7. CASE IsTransferComplete
  <2>1. CASE redeems = 0
    BY <1>1, <2>1
  <2>2. CASE redeems = 1
    <3>1. RedeemAnswers = {TRUE}
      BY <1>1, <1>7, <2>2 DEF IsTransferComplete, RedeemAnswers, Seen, World
    <3>2. Yield(DestinationFinalized)
      BY <1>7, <3>1 DEF IsTransferComplete, Completed
    <3>3. receipt'.state = DestinationFinalized
      BY <1>1, <3>2, YieldSetsState DEF TransferState, Failed, DestinationFinalized
    <3>4. pc' = "drained" /\ receipt'.state # Attested
      BY <1>7, <3>3 DEF IsTransferComplete, AfterComplete, DestinationFinalized, Attested
    <3> QED
      BY <1>1, <2>2, <3>4
  <2> QED
    BY <2>1, <2>2
<1>8. CASE GetExecutorTxStatus
  BY <1>1, <1>8 DEF GetExecutorTxStatus
<1> QED
  BY <1>2, <1>3, <1>4, <1>5, <1>6, <1>7, <1>8 DEF Tracks

(* A user of checkAndCompleteTransfer() never sends a second redeem transaction, whoever
   else redeems: a redeem that is sent is seen by every later call. *)
THEOREM TrackingRedeemsOnce == Spec => []UserRedeemsOnce
<1> DEFINE Once == ~ Faults => OnceInv
<1>1. Init => Once
  BY DEF Init, OnceInv
<1>2. IInv /\ Once /\ [Next]_vars => Once'
  <2> SUFFICES ASSUME IInv, OnceInv, [Next]_vars, ~ Faults' PROVE OnceInv'
    BY ModeStays DEF Faults
  <2>0. UNCHANGED mode /\ ~ Faults
    BY ModeStays DEF Faults
  <2> USE <2>0
  <2>1. CASE WorldNext
    BY <2>1, WorldStep DEF OnceInv, WorldGrows, client
  <2>2. CASE Tracks
    BY <2>2, TracksKeepOnce
  <2>3. CASE Loops
    BY <2>3, LoopsKeepOnce
  <2>4. CASE \E p \in Awaits : ServiceFails(p)
    BY <2>4 DEF ServiceFails
  <2>5. CASE UNCHANGED vars
    BY <2>5 DEF OnceInv, vars, moving
  <2> QED
    BY <2>1, <2>2, <2>3, <2>4, <2>5 DEF Next, ClientNext, Tracks, Loops
<1>3. Once => UserRedeemsOnce
  BY DEF OnceInv, UserRedeemsOnce
<1> HIDE DEF Once
<1> QED
  BY <1>1, <1>2, <1>3, TrackingInvariant, PTL DEF Spec
=============================================================================
