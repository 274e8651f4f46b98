--------------------------- MODULE TransferObject ---------------------------
(***************************************************************************)
(* A TokenTransfer object (connect/src/protocols/tokenBridge/              *)
(* tokenTransfer.ts), the state machine an application drives with         *)
(* initiateTransfer(), fetchAttestation() and completeTransfer(), and the  *)
(* receipt getReceipt() makes of it.  The methods check the state before   *)
(* they await and write it after; several calls may be pending at once.    *)
(* A transfer is known by the number it has on the source chain; what one  *)
(* submission there and on the destination chain does is SignSendWait's.   *)
(***************************************************************************)
EXTENDS TransferStates

CONSTANTS Callers,      \* those who may use the object at the same time
          Starts,       \* how it was made: "details", "identifier", "transaction"
          Faults,       \* a submission may land and still throw
          MaxTransfers  \* bound: transfers on the source chain

ASSUME ObjectAssumption ==
    /\ Starts \subseteq {"details", "identifier", "transaction"}
    /\ Faults \in BOOLEAN
    /\ MaxTransfers \in Nat \ {0}

VARIABLES users,     \* those who do
          sent,      \* the transfers on the source chain, 1 .. sent
          messages,  \* those whose message the source node returns
          signed,    \* those whose VAA is signed
          redeemed,  \* those the destination bridge has processed
          state,     \* _state
          origin,    \* the transfer whose transactions are in txids, 0 if none
          destTx,    \* txids has a transaction of the destination chain
          id,        \* attestations[0].id: the transfer it belongs to, 0 if unset
          vaa,       \* attestations[0].attestation, likewise
          pc,        \* where each caller awaits
          about      \* the transfer its pending call is about, 0 if none

world  == <<users, sent, messages, signed, redeemed>>
object == <<state, origin, destTx, id, vaa>>
vars   == <<users, sent, messages, signed, redeemed, state, origin, destTx, id, vaa, pc, about>>

Transfers == 1 .. MaxTransfers

Idle(c) == pc[c] = "idle"

(* Returning and throwing are the same to the object. *)
Return(c) == /\ pc' = [pc EXCEPT ![c] = "idle"]
             /\ about' = [about EXCEPT ![c] = 0]

Await(c, p, t) == /\ pc' = [pc EXCEPT ![c] = p]
                  /\ about' = [about EXCEPT ![c] = t]
-----------------------------------------------------------------------------
(* initiateTransfer() *)

StartInitiate(c) == /\ Idle(c) /\ state = Created
                    /\ Await(c, "transfer", 0)
                    /\ UNCHANGED <<world, object>>

Sends == sent < MaxTransfers /\ sent' = sent + 1

(* Whatever was in txids is replaced. *)
TransferReturns(c) == /\ pc[c] = "transfer"
                      /\ Sends
                      /\ origin' = sent + 1 /\ destTx' = FALSE
                      /\ state' = SourceInitiated
                      /\ Return(c)
                      /\ UNCHANGED <<users, messages, signed, redeemed, id, vaa>>

(* Nothing is remembered of a submission that throws, whether it landed or not. *)
TransferThrows(c) == /\ pc[c] = "transfer"
                     /\ (Faults /\ Sends) \/ UNCHANGED sent
                     /\ Return(c)
                     /\ UNCHANGED <<users, messages, signed, redeemed, object>>
-----------------------------------------------------------------------------
(* fetchAttestation() *)

MayFetch == state \in SourceInitiated .. Attested

(* The id is looked up unless it is there, and the VAA unless it is there too. *)
StartFetch(c) ==
    /\ Idle(c) /\ MayFetch
    /\ \/ id = 0 /\ origin # 0 /\ Await(c, "message", origin) /\ UNCHANGED state
       \/ id # 0 /\ vaa = 0 /\ Await(c, "vaa", id) /\ UNCHANGED state
       \/ id # 0 /\ vaa # 0 /\ Await(c, "check", vaa) /\ state' = Attested
    /\ UNCHANGED <<world, origin, destTx, id, vaa>>

MessageFound(c) == /\ pc[c] = "message" /\ about[c] \in messages
                   /\ id' = about[c] /\ vaa' = 0
                   /\ Await(c, "vaa", about[c])
                   /\ UNCHANGED <<world, state, origin, destTx>>

(* Mutant: the object is attested before its VAA is there. *)
AttestedEarly(c) == /\ pc[c] = "vaa"
                    /\ state' = Attested
                    /\ Await(c, "check", about[c])
                    /\ UNCHANGED <<world, origin, destTx, id, vaa>>

(* By now the attestations may be those another call has put there. *)
VaaFound(c) == /\ pc[c] = "vaa" /\ about[c] \in signed
               /\ vaa' = about[c]
               /\ state' = Attested
               /\ Await(c, "check", about[c])
               /\ UNCHANGED <<world, origin, destTx, id>>

(* No message or VAA in time, or a service fails. *)
FetchThrows(c) == /\ pc[c] \in {"message", "vaa", "check"}
                  /\ Return(c)
                  /\ UNCHANGED <<world, object>>

(* Mutant: any answer of the destination chain is taken for a completion. *)
FinalizedAnyway(completed) == state' = DestinationFinalized

Finalized(completed) == state' = IF completed THEN DestinationFinalized ELSE state

(* The destination chain answers for the time of the call or a later one. *)
CompletionChecked(c) == /\ pc[c] = "check"
                        /\ \E completed \in BOOLEAN :
                               (completed => about[c] \in redeemed) /\ Finalized(completed)
                        /\ Return(c)
                        /\ UNCHANGED <<world, origin, destTx, id, vaa>>
-----------------------------------------------------------------------------
(* completeTransfer() *)

(* Mutant: the state is written before the redeem is awaited. *)
InitiatesAtOnce(c) == /\ Idle(c) /\ state >= Attested
                      /\ vaa # 0
                      /\ Await(c, "redeem", vaa)
                      /\ state' = DestinationInitiated
                      /\ UNCHANGED <<world, origin, destTx, id, vaa>>

StartComplete(c) == /\ Idle(c) /\ state >= Attested
                    /\ vaa # 0
                    /\ Await(c, "redeem", vaa)
                    /\ UNCHANGED <<world, object>>

(* The destination bridge accepts a VAA once. *)
Redeems(t) == t \notin redeemed /\ redeemed' = redeemed \cup {t}

RedeemLands(c) == /\ pc[c] = "redeem"
                  /\ Redeems(about[c])
                  /\ Await(c, "redeemed", about[c])
                  /\ UNCHANGED <<users, sent, messages, signed, object>>

RedeemReturns(c) == /\ pc[c] = "redeemed"
                    /\ destTx' = TRUE
                    /\ state' = DestinationInitiated
                    /\ Return(c)
                    /\ UNCHANGED <<world, origin, id, vaa>>

RedeemThrows(c) == /\ pc[c] = "redeem" \/ (Faults /\ pc[c] = "redeemed")
                   /\ Return(c)
                   /\ UNCHANGED <<world, object>>
-----------------------------------------------------------------------------
(* The chains and the guardians; others may redeem. *)

MessageVisible(t) == /\ t \in 1 .. sent \ messages
                     /\ messages' = messages \cup {t}
                     /\ UNCHANGED <<users, sent, signed, redeemed, object, pc, about>>

GuardiansSign(t) == /\ t \in messages \ signed
                    /\ signed' = signed \cup {t}
                    /\ UNCHANGED <<users, sent, messages, redeemed, object, pc, about>>

OthersRedeem(t) == /\ t \in signed
                   /\ Redeems(t)
                   /\ UNCHANGED <<users, sent, messages, signed, object, pc, about>>

(* A new object, or one from() found by its message id or transaction, after the
   fetchAttestation() it ends with. *)
Init == /\ users \in SUBSET Callers /\ users # {}
        /\ \E how \in Starts :
              IF how = "details"
              THEN /\ sent = 0 /\ messages = {} /\ signed = {} /\ redeemed = {}
                   /\ state = Created /\ origin = 0 /\ id = 0 /\ vaa = 0
              ELSE /\ sent = 1 /\ messages = {1} /\ signed = {1} /\ redeemed \in {{}, {1}}
                   /\ state \in {Attested, DestinationFinalized}
                   /\ state = DestinationFinalized => redeemed = {1}
                   /\ origin = IF how = "transaction" THEN 1 ELSE 0
                   /\ id = 1 /\ vaa = 1
        /\ destTx = FALSE
        /\ pc = [c \in Callers |-> "idle"]
        /\ about = [c \in Callers |-> 0]

Method(c) == \/ StartInitiate(c) \/ TransferReturns(c) \/ TransferThrows(c)
             \/ StartFetch(c) \/ MessageFound(c) \/ VaaFound(c) \/ FetchThrows(c)
             \/ CompletionChecked(c)
             \/ StartComplete(c) \/ RedeemLands(c) \/ RedeemReturns(c) \/ RedeemThrows(c)

World(t) == MessageVisible(t) \/ GuardiansSign(t) \/ OthersRedeem(t)

Next == (\E c \in users : Method(c)) \/ (\E t \in Transfers : World(t))

Spec == Init /\ [][Next]_vars
-----------------------------------------------------------------------------
TypeOK == /\ users \subseteq Callers
          /\ sent \in 0 .. MaxTransfers
          /\ messages \subseteq Transfers /\ signed \subseteq Transfers
          /\ redeemed \subseteq Transfers
          /\ state \in TransferState
          /\ origin \in 0 .. MaxTransfers /\ id \in 0 .. MaxTransfers /\ vaa \in 0 .. MaxTransfers
          /\ destTx \in BOOLEAN
          /\ pc \in [Callers -> {"idle", "transfer", "message", "vaa", "check", "redeem", "redeemed"}]
          /\ about \in [Callers -> 0 .. MaxTransfers]

(* Mutants: the receipt of an object takes the id for the VAA, or what is in the object
   for nothing. *)
ReceiptOfId == IF destTx THEN DestinationFinalized
               ELSE IF id # 0 THEN Attested
               ELSE IF origin # 0 THEN SourceInitiated ELSE Created

(* getReceipt(): the last of its conditions that holds. *)
ReceiptState == IF destTx THEN DestinationFinalized
                ELSE IF id # 0 /\ vaa # 0 THEN Attested
                ELSE IF id # 0 THEN SourceFinalized
                ELSE IF origin # 0 THEN SourceInitiated ELSE Created

(* The transfer the object is about, and what has happened to it. *)
Mine == IF id # 0 THEN id ELSE origin

Happened == {f \in {"message", "vaa", "redeemed"} :
                \/ f = "message" /\ Mine \in messages
                \/ f = "vaa" /\ Mine \in signed
                \/ f = "redeemed" /\ Mine \in redeemed}

Alone(c) == users = {c}

Sole == \E c \in Callers : Alone(c)

(* Driven by one caller, getTransferState() and getReceipt() never go back and never show
   what has not happened, even when calls throw and are repeated, in any order.  Several
   callers are promised no view. *)
StateView   == INSTANCE TransferView
               WITH facts <- IF Sole THEN Happened ELSE {},
                    view  <- IF Sole THEN state ELSE Created
ReceiptView == INSTANCE TransferView
               WITH facts <- IF Sole THEN Happened ELSE {},
                    view  <- IF Sole THEN ReceiptState ELSE Created

StateImplementsView   == StateView!Spec
ReceiptImplementsView == ReceiptView!Spec

(* Driven by one caller, an object that says it is attested has what completeTransfer()
   needs. *)
AttestedCanComplete == Sole /\ state >= Attested => vaa # 0

(* With any number of pending calls the state may go back and the VAA of one transfer
   may replace that of another, but what the object says has happened to some transfer,
   and the VAA it holds is signed. *)
StateIsTrue == /\ state >= SourceFinalized => messages # {}
               /\ state >= Attested => signed # {}
               /\ state >= DestinationInitiated \/ destTx => redeemed # {}
               /\ vaa # 0 => vaa \in signed
=============================================================================
