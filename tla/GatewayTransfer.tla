--------------------------- MODULE GatewayTransfer ---------------------------
(***************************************************************************)
(* A GatewayTransfer object (connect/src/protocols/gateway/                *)
(* gatewayTransfer.ts): a transfer that goes through Wormchain, into       *)
(* Cosmos, out of it, or from one Cosmos chain to another.  Its            *)
(* fetchAttestation() follows the transfer from chain to chain, and fills  *)
(* the list of IBC transfers of the object on the way.  The forwarding by  *)
(* Wormchain of a transfer from outside is found by the message in its     *)
(* payload, everything else by ids.                                        *)
(***************************************************************************)
EXTENDS TransferStates, Sequences

CONSTANTS Callers,       \* those who may use the object at the same time
          Directions,    \* "in", "out", "hop": whether source or destination are in Cosmos
          Starts,        \* "details" or "transaction": what from() is given
          Fees,          \* the fee in the details of the transfer
          Payloads,      \* whether they have a payload
          Faults,        \* a submission may land and still throw
          MaxTransfers   \* bound: transfers the object has sent

ASSUME GatewayAssumption ==
    /\ Directions \subseteq {"in", "out", "hop"}
    /\ Starts \subseteq {"details", "transaction"}
    /\ Fees \subseteq Nat
    /\ Payloads \subseteq BOOLEAN
    /\ Faults \in BOOLEAN
    /\ MaxTransfers \in Nat \ {0}

VARIABLES users,      \* those who do
          direction,
          batched,    \* relayers put the packets of several transfers into one transaction
          sentMsg,    \* the gateway message of the transfer, as it was sent
          msg,        \* msg, the one the object looks for
          sent,       \* the transfers the object has sent, 1 .. sent
          stage,      \* how far each transfer is
          state,      \* _state
          origin,     \* the transfer whose transactions are in `transactions`
          destTx,     \* which has a transaction of the destination chain
          hops,       \* ibcTransfers: the packets, each of a transfer
          vaa,        \* vaas[0]: the transfer of the VAA, 0 if there is none
          pc,         \* where each caller awaits
          about       \* the transfer its pending call is about, 0 if none

chains == <<users, direction, batched, sentMsg, sent, stage>>
object == <<msg, state, origin, destTx, hops, vaa>>
calls  == <<pc, about>>
vars   == <<chains, object, calls>>

Own       == 1 .. MaxTransfers
Foreign   == MaxTransfers + 1    \* somebody else's, like it but for the nonce, and done
Transfers == 1 .. Foreign

Sent == 1 .. sent

(* What happens to a transfer, in order: "sent" is when the source node shows it. *)
Route == IF direction = "in"  THEN <<"sent", "signed", "forwarded", "delivered">>
         ELSE IF direction = "out" THEN <<"sent", "forwarded", "signed", "delivered">>
         ELSE <<"sent", "forwarded", "delivered">>

Has(t, s) == \E k \in 1 .. stage[t] : Route[k] = s

Idle(c) == pc[c] = "idle"

Return(c) == /\ pc' = [pc EXCEPT ![c] = "idle"]
             /\ about' = [about EXCEPT ![c] = 0]

Await(c, p, t) == /\ pc' = [pc EXCEPT ![c] = p]
                  /\ about' = [about EXCEPT ![c] = t]
-----------------------------------------------------------------------------
(* The gateway message.  A payload is carried in base 64, so it is known by how often it
   has been encoded; 0 is no payload. *)

GatewayTransferMsg(nonce, fee, layers) ==
    [nonce |-> nonce, fee |-> fee, payload |-> layers]

(* What from() makes of the message in a VAA: the nonce is kept, the fee is not, and
   the payload is encoded once more.  (Of a transfer from Cosmos it keeps the fee and not
   the nonce, but does not look for that message.) *)
RecoveredMsg(m) ==
    GatewayTransferMsg(m.nonce, 0, IF m.payload = 0 THEN 0 ELSE m.payload + 1)

(* The message of any transfer on the chains. *)
MsgOf(t) == IF t = Foreign THEN [sentMsg EXCEPT !.nonce = 2] ELSE sentMsg
-----------------------------------------------------------------------------
(* initiateTransfer() *)

StartInitiate(c) == /\ Idle(c) /\ state = Created
                    /\ Await(c, "transfer", 0)
                    /\ UNCHANGED <<chains, object>>

Sends == sent < MaxTransfers /\ sent' = sent + 1

TransferReturns(c) == /\ pc[c] = "transfer"
                      /\ Sends
                      /\ origin' = sent + 1 /\ destTx' = FALSE
                      /\ state' = SourceInitiated
                      /\ Return(c)
                      /\ UNCHANGED <<users, direction, batched, sentMsg, stage, msg, hops, vaa>>

TransferThrows(c) == /\ pc[c] = "transfer"
                     /\ (Faults /\ Sends) \/ UNCHANGED sent
                     /\ Return(c)
                     /\ UNCHANGED <<users, direction, batched, sentMsg, stage, object>>
-----------------------------------------------------------------------------
(* fetchAttestation() *)

MayFetch == state \in SourceInitiated .. Attested

FromGateway == direction # "in"

(* From outside, the transaction is read before the first await, from Cosmos after it. *)
StartFetch(c) ==
    /\ Idle(c) /\ MayFetch
    /\ IF FromGateway THEN Await(c, "bridge", 0) ELSE Await(c, "message", origin)
    /\ UNCHANGED <<chains, object>>

(* A transaction of the destination chain among them cannot be looked up at the source. *)
BridgeThere(c) ==
    /\ pc[c] = "bridge"
    /\ IF destTx THEN Return(c) ELSE Await(c, "source", origin)
    /\ UNCHANGED <<chains, object>>

SourceFound(c) ==
    /\ pc[c] = "source"
    /\ Has(about[c], "sent")
    /\ hops' = {<<"sent", about[c]>>}
    /\ Await(c, IF direction = "out" THEN "message" ELSE "forwarded", about[c])
    /\ UNCHANGED <<chains, msg, state, origin, destTx, vaa>>

(* The transfers a transaction is about that has the packet of t: the code takes one by
   its position. *)
InTx(t) == {t} \cup (IF batched THEN {Foreign} ELSE {})

MessageFound(c) ==
    /\ pc[c] = "message"
    /\ \/ direction = "in" /\ Has(about[c], "sent") /\ Await(c, "vaa", about[c])
       \/ /\ direction = "out" /\ Has(about[c], "forwarded")
          /\ \E t \in InTx(about[c]) : Await(c, "vaa", t)
    /\ UNCHANGED <<chains, object>>

(* Mutant: the VAA is kept and the state is not. *)
KeepsState == UNCHANGED state

NextState == state' = IF direction = "out" THEN Attested ELSE state

VaaFound(c) ==
    /\ pc[c] = "vaa"
    /\ Has(about[c], "signed")
    /\ vaa' = about[c]
    /\ NextState
    /\ IF direction = "out" THEN Return(c) ELSE Await(c, "forwarded", about[c])
    /\ UNCHANGED <<chains, msg, origin, destTx, hops>>

(* Mutant: the search does not mind the nonce. *)
MatchesButNonce(t) == [MsgOf(t) EXCEPT !.nonce = msg.nonce] = msg

Matches(t) == MsgOf(t) = msg

(* Mutant: what Wormchain does is not kept. *)
ForgetsHop(t) == UNCHANGED hops

KeepsHop(t) == hops' = IF FromGateway THEN hops ELSE hops \cup {<<"forwarded", t>>}

(* From Cosmos by the id of the packet; from outside, once the VAA is redeemed, by the
   message. *)
ForwardFound(c) ==
    /\ pc[c] = "forwarded"
    /\ Has(about[c], "forwarded")
    /\ \E u \in (IF FromGateway THEN {about[c]} ELSE {t \in Transfers : Matches(t)}) :
          /\ Has(u, "forwarded")
          /\ \E t \in InTx(u) : KeepsHop(t) /\ Await(c, "delivered", t)
    /\ UNCHANGED <<chains, msg, state, origin, destTx, vaa>>

(* Mutant: the destination is not asked. *)
DeliveredAnyway(t) == TRUE

Delivered(t) == Has(t, "delivered")

DeliveryFound(c) ==
    /\ pc[c] = "delivered"
    /\ Delivered(about[c])
    /\ \E t \in InTx(about[c]) : hops' = hops \cup {<<"delivered", t>>}
    /\ state' = Attested
    /\ Return(c)
    /\ UNCHANGED <<chains, msg, origin, destTx, vaa>>

(* Something is not found in time, or a node fails. *)
FetchThrows(c) ==
    /\ pc[c] \in {"bridge", "source", "message", "vaa", "forwarded", "delivered"}
    /\ Return(c)
    /\ UNCHANGED <<chains, object>>
-----------------------------------------------------------------------------
(* completeTransfer(): a transfer into Cosmos is complete when it is attested. *)

StartComplete(c) == /\ Idle(c) /\ state >= Attested
                    /\ direction = "out" /\ vaa # 0
                    /\ Await(c, "redeem", vaa)
                    /\ UNCHANGED <<chains, object>>

Redeems(t) == /\ Has(t, "signed") /\ ~ Has(t, "delivered")
              /\ stage' = [stage EXCEPT ![t] = Len(Route)]

RedeemLands(c) == /\ pc[c] = "redeem"
                  /\ Redeems(about[c])
                  /\ Await(c, "landed", about[c])
                  /\ UNCHANGED <<users, direction, batched, sentMsg, sent, object>>

(* Mutant: the transactions count before they are confirmed. *)
RecordsAtOnce(c) == /\ pc[c] = "redeem"
                    /\ destTx' = TRUE
                    /\ state' = DestinationInitiated
                    /\ Return(c)
                    /\ UNCHANGED <<chains, msg, origin, hops, vaa>>

RedeemReturns(c) == /\ pc[c] = "landed"
                    /\ destTx' = TRUE
                    /\ state' = DestinationInitiated
                    /\ Return(c)
                    /\ UNCHANGED <<chains, msg, origin, hops, vaa>>

RedeemThrows(c) == /\ pc[c] = "redeem" \/ (Faults /\ pc[c] = "landed")
                   /\ Return(c)
                   /\ UNCHANGED <<chains, object>>
-----------------------------------------------------------------------------
(* Nodes that come to show a transfer, guardians and relayers, and others who redeem what
   leaves Cosmos. *)

Advance(t) == /\ t \in Sent /\ stage[t] < Len(Route)
              /\ direction = "out" => ~ Has(t, "signed")
              /\ stage' = [stage EXCEPT ![t] = stage[t] + 1]
              /\ UNCHANGED <<users, direction, batched, sentMsg, sent, object, calls>>

OthersRedeem(t) == /\ direction = "out"
                   /\ Redeems(t)
                   /\ UNCHANGED <<users, direction, batched, sentMsg, sent, object, calls>>

(* A new object, or one that from() makes of the transaction of a transfer on its way and
   whose fetchAttestation() it calls; to call from() again is to fetch again. *)
Init == /\ users \in SUBSET Callers /\ users # {}
        /\ direction \in Directions
        /\ batched \in BOOLEAN
        /\ \E fee \in Fees, payload \in Payloads :
              sentMsg = GatewayTransferMsg(1, fee, IF payload THEN 1 ELSE 0)
        /\ \E how \in Starts :
              IF how = "details"
              THEN msg = sentMsg /\ sent = 0 /\ origin = 0 /\ state = Created
              ELSE msg = RecoveredMsg(sentMsg) /\ sent = 1 /\ origin = 1 /\ state = SourceInitiated
        /\ stage = [t \in Transfers |-> IF t = Foreign THEN Len(Route) ELSE IF t \in Sent THEN 1 ELSE 0]
        /\ destTx = FALSE /\ hops = {} /\ vaa = 0
        /\ pc = [c \in Callers |-> "idle"]
        /\ about = [c \in Callers |-> 0]

Finds(c) == \/ BridgeThere(c) \/ SourceFound(c) \/ MessageFound(c) \/ VaaFound(c)
            \/ ForwardFound(c) \/ DeliveryFound(c)

Method(c) == \/ StartInitiate(c) \/ TransferReturns(c) \/ TransferThrows(c)
             \/ StartFetch(c) \/ Finds(c) \/ FetchThrows(c)
             \/ StartComplete(c) \/ RedeemLands(c) \/ RedeemReturns(c) \/ RedeemThrows(c)

Next == \/ \E c \in users : Method(c)
        \/ \E t \in Own : Advance(t) \/ OthersRedeem(t)

Spec == Init /\ [][Next]_vars

(* Guardians and relayers do their work, lookups end and the application fetches again when
   one has failed, and a lookup that is made again and again finds what there is. *)
Fairness == /\ WF_vars(\E t \in Own : Advance(t))
            /\ WF_vars(\E c \in users : StartFetch(c) \/ FetchThrows(c))
            /\ SF_vars(\E c \in users : BridgeThere(c))
            /\ SF_vars(\E c \in users : SourceFound(c))
            /\ SF_vars(\E c \in users : MessageFound(c))
            /\ SF_vars(\E c \in users : VaaFound(c))
            /\ SF_vars(\E c \in users : ForwardFound(c))
            /\ SF_vars(\E c \in users : DeliveryFound(c))

FairSpec == Spec /\ Fairness
-----------------------------------------------------------------------------
Sole == \E c \in Callers : users = {c}

Packets == {"sent", "forwarded", "delivered"} \X Transfers

Msgs == [nonce : {1, 2}, fee : Fees \cup {0}, payload : 0 .. 2]

TypeOK == /\ users \subseteq Callers
          /\ direction \in Directions /\ batched \in BOOLEAN
          /\ sentMsg \in Msgs /\ msg \in Msgs
          /\ sent \in 0 .. MaxTransfers
          /\ stage \in [Transfers -> 0 .. Len(Route)]
          /\ state \in TransferState
          /\ origin \in 0 .. MaxTransfers /\ vaa \in 0 .. Foreign
          /\ destTx \in BOOLEAN
          /\ hops \subseteq Packets
          /\ pc \in [Callers -> {"idle", "transfer", "bridge", "source", "message", "vaa",
                                 "forwarded", "delivered", "redeem", "landed"}]
          /\ about \in [Callers -> 0 .. Foreign]

(* "Any transfers we do over ibc" are the object's own, and so is the VAA, however many
   calls fill them in, though other transfers look alike.  Only a relayer that puts the
   packets of several transfers into one transaction gets others in. *)
HopsAreMine == ~ batched => /\ \A h \in hops : h[2] \in Sent
                            /\ vaa \in Sent \cup {0}

(* A transfer becomes attested with its whole way in the object: one transfer's, although
   several may have been sent with the same message. *)
Way(t) == IF direction = "in"  THEN {<<"forwarded", t>>, <<"delivered", t>>}
          ELSE IF direction = "out" THEN {<<"sent", t>>}
          ELSE {<<"sent", t>>, <<"delivered", t>>}

AttestedIsWhole ==
    [][Sole /\ ~ batched /\ state # Attested /\ state' = Attested
          => \E t \in Sent : Way(t) \subseteq hops' /\ (direction # "hop" => vaa' # 0)]_vars

(* The object never says that a transfer into Cosmos is attested before one it has sent is
   delivered, nor one out of it before the guardians have signed. *)
StateIsTrue ==
    ~ batched /\ state >= Attested
        => \E t \in Sent : IF direction = "out" /\ state = Attested
                           THEN Has(t, "signed") ELSE Has(t, "delivered")

(* Driven by one caller, the state of the object follows what happens to its transfers. *)
FactsOf(t) == {f \in {"message", "vaa", "redeemed"} :
                  \/ f = "message" /\ Has(t, "sent")
                  \/ f = "vaa" /\ Has(t, IF direction = "hop" THEN "forwarded" ELSE "signed")
                  \/ f = "redeemed" /\ Has(t, "delivered")}

View == INSTANCE TransferView
        WITH facts <- IF Sole /\ ~ batched THEN UNION {FactsOf(t) : t \in Sent} ELSE {},
             view  <- IF Sole /\ ~ batched THEN state ELSE Created

StateImplementsView == View!Spec

(* What was initiated is attested in the end, though calls fail and lookups overlap. *)
AttestationArrives == state = SourceInitiated ~> state >= Attested

(* A transfer on its way that from() is given is found: the nonce is preserved "since we
   use the payload to find the Wormchain transacton" (gatewayTransfer.ts). *)
InFlightIsFound == origin # 0 ~> state >= Attested
=============================================================================
