---------------------------- MODULE GatewayProofs ----------------------------
(***************************************************************************)
(* Theorems about GatewayTransfer, for any number of callers, transfers,   *)
(* fees and payloads: what the object has collected is its own, and its    *)
(* state never runs ahead of the chains.  With one caller its state only   *)
(* goes forward, and the whole way of a transfer is known when it is       *)
(* attested.                                                               *)
(***************************************************************************)
EXTENDS GatewayTransfer, TLAPS

Busy == {"bridge", "source", "message", "vaa", "forwarded", "delivered", "redeem", "landed"}

(* Nothing happens to a transfer of the object that has not been sent, and the message the
   object looks for has the nonce of its own. *)
WorldInv == /\ \A t \in Own : t \notin Sent => stage[t] = 0
            /\ sentMsg.nonce = 1 /\ msg.nonce = 1
            /\ origin \in 0 .. sent
            /\ state # Created => origin # 0

(* The transfers a call may be about: the object's own, or those that travel with them. *)
Held == IF batched THEN Transfers ELSE Sent

(* A pending lookup is about a transfer of the object, and so is a redeem, which has been
   delivered when it has landed. *)
OwnCall(c) ==
    /\ pc[c] \in Busy => origin # 0
    /\ pc[c] \in Busy \ {"bridge"} => about[c] \in Held
    /\ pc[c] = "landed" => batched \/ Has(about[c], "delivered")

CallInv == \A c \in Callers : OwnCall(c)

IInv == TypeOK /\ WorldInv /\ CallInv /\ HopsAreMine /\ StateIsTrue
-----------------------------------------------------------------------------
LEMMA HasStays == ASSUME UNCHANGED direction, NEW t, NEW s, Has(t, s),
                         stage[t] \in Nat, stage'[t] \in Nat, stage[t] <= stage'[t]
                  PROVE  Has(t, s)'
  BY DEF Has, Route

(* What happens last, and that a transfer is signed before it is delivered. *)
LEMMA HasLast == ASSUME NEW t, stage[t] = Len(Route) PROVE Has(t, "delivered")
<1>1. direction = "in" => Len(Route) = 4 /\ Route[4] = "delivered"
  BY DEF Route
<1>2. direction = "out" => Len(Route) = 4 /\ Route[4] = "delivered"
  BY DEF Route
<1>3. direction \notin {"in", "out"} => Len(Route) = 3 /\ Route[3] = "delivered"
  BY DEF Route
<1> QED
  BY <1>1, <1>2, <1>3 DEF Has

LEMMA InitInv == Init => IInv
<1> SUFFICES ASSUME Init PROVE IInv
  OBVIOUS
<1> USE GatewayAssumption DEF TransferState, Failed, Created, SourceInitiated, Attested,
        DestinationFinalized
<1>1. PICK fee \in Fees, payload \in Payloads :
              sentMsg = GatewayTransferMsg(1, fee, IF payload THEN 1 ELSE 0)
  BY DEF Init
<1>2. PICK how \in Starts :
              IF how = "details"
              THEN msg = sentMsg /\ sent = 0 /\ origin = 0 /\ state = Created
              ELSE msg = RecoveredMsg(sentMsg) /\ sent = 1 /\ origin = 1 /\ state = SourceInitiated
  BY DEF Init
<1>3. /\ users \subseteq Callers /\ direction \in Directions /\ batched \in BOOLEAN
      /\ stage = [t \in Transfers |-> IF t = Foreign THEN Len(Route) ELSE IF t \in Sent THEN 1 ELSE 0]
      /\ destTx = FALSE /\ hops = {} /\ vaa = 0
      /\ pc = [c \in Callers |-> "idle"] /\ about = [c \in Callers |-> 0]
  BY DEF Init
<1>4. /\ sent \in {0, 1} /\ origin \in {0, 1} /\ origin = sent
      /\ state \in {Created, SourceInitiated} /\ (state # Created => origin = 1)
  BY <1>2
<1>5. /\ sentMsg \in Msgs /\ sentMsg.nonce = 1
  <2>1. payload \in BOOLEAN
    OBVIOUS
  <2>2. (IF payload THEN 1 ELSE 0) \in 0 .. 2
    BY <2>1
  <2> QED
    BY <1>1, <2>2 DEF Msgs, GatewayTransferMsg
<1>6. msg \in Msgs /\ msg.nonce = 1
  <2>1. sentMsg.payload \in {0, 1}
    BY <1>1 DEF GatewayTransferMsg
  <2>2. RecoveredMsg(sentMsg) \in Msgs /\ RecoveredMsg(sentMsg).nonce = 1
    BY <1>5, <2>1 DEF RecoveredMsg, GatewayTransferMsg, Msgs
  <2> QED
    BY <1>2, <1>5, <2>2
<1>7. Len(Route) \in {3, 4}
  BY DEF Route
<1>8. stage \in [Transfers -> 0 .. Len(Route)]
  BY <1>3, <1>7
<1>9. /\ sent \in 0 .. MaxTransfers /\ origin \in 0 .. MaxTransfers /\ vaa \in 0 .. Foreign
      /\ about \in [Callers -> 0 .. Foreign]
  BY <1>3, <1>4 DEF Foreign
<1>10. pc \in [Callers -> {"idle", "transfer", "bridge", "source", "message", "vaa",
                           "forwarded", "delivered", "redeem", "landed"}]
  BY <1>3
<1>11. TypeOK
  <2>1. destTx \in BOOLEAN
    BY <1>3
  <2>2. hops \subseteq Packets /\ state \in TransferState
    BY <1>3, <1>4
  <2> QED
    BY <1>3, <1>5, <1>6, <1>8, <1>9, <1>10, <2>1, <2>2 DEF TypeOK
<1>12. WorldInv
  <2>1. \A t \in Own : t \in Transfers /\ t # Foreign
    BY DEF Own, Transfers, Foreign
  <2> QED
    BY <1>3, <1>4, <1>5, <1>6, <2>1 DEF WorldInv
<1>13. CallInv /\ HopsAreMine
  BY <1>3 DEF CallInv, OwnCall, Busy, HopsAreMine
<1>14. StateIsTrue
  BY <1>4 DEF StateIsTrue
<1> QED
  BY <1>11, <1>12, <1>13, <1>14 DEF IInv

(* A step that moves one transfer on, or none. *)
Forward == /\ UNCHANGED <<users, direction, batched, sentMsg>>
           /\ sent \in 0 .. sent'
           /\ stage' \in [Transfers -> 0 .. Len(Route)]
           /\ \A t \in Transfers : stage[t] <= stage'[t]

LEMMA StageNat == ASSUME TypeOK, NEW t \in Transfers PROVE stage[t] \in 0 .. Len(Route) /\ Len(Route) \in Nat
  BY DEF TypeOK, Route

LEMMA HasForward == ASSUME TypeOK, Forward, NEW t \in Transfers, NEW s, Has(t, s) PROVE Has(t, s)'
<1>1. stage[t] \in Nat /\ stage'[t] \in Nat /\ stage[t] <= stage'[t]
  <2>1. Len(Route) \in Nat
    BY DEF Route
  <2> QED
    BY <2>1 DEF TypeOK, Forward
<1> QED
  BY <1>1, HasStays DEF Forward

LEMMA SentTyped == ASSUME TypeOK
                   PROVE  /\ sent \in Nat /\ Sent \subseteq Own /\ Own \subseteq Transfers
                          /\ Foreign \in Transfers /\ Foreign \notin Own /\ 0 \notin Transfers
  BY GatewayAssumption DEF TypeOK, Sent, Own, Transfers, Foreign

LEMMA HeldTyped == ASSUME TypeOK
                   PROVE  /\ Sent \subseteq Held /\ Held \subseteq Transfers
                          /\ Held \subseteq 0 .. Foreign
                          /\ ~ batched => Held = Sent
<1>1. Transfers \subseteq 0 .. Foreign
  BY GatewayAssumption DEF Transfers, Foreign
<1> QED
  BY <1>1, SentTyped DEF Held

(* The chains move, the object does not. *)
LEMMA ChainsStep ==
    ASSUME IInv, Forward, UNCHANGED <<sent, object>>,
           \A t \in Own : t \notin Sent => stage'[t] = stage[t],
           pc' \in [Callers -> Busy \cup {"idle", "transfer"}],
           about' \in [Callers -> 0 .. Foreign],
           \A c \in Callers : (pc'[c] = pc[c] /\ about'[c] = about[c]) \/ OwnCall(c)'
    PROVE  IInv'
<1> USE DEF IInv, object, Forward
<1>1. TypeOK'
  <2>1. UNCHANGED Route
    BY DEF Route
  <2> QED
    BY <2>1 DEF TypeOK, Busy
<1>2. UNCHANGED Sent
  BY DEF Sent
<1>3. WorldInv'
  BY <1>2 DEF WorldInv
<1>4. ASSUME NEW t \in Sent, NEW s, Has(t, s) PROVE Has(t, s)'
  BY <1>4, HasForward, SentTyped
<1>5. CallInv'
  <2> SUFFICES ASSUME NEW c \in Callers, pc'[c] = pc[c] /\ about'[c] = about[c]
               PROVE  OwnCall(c)'
    BY DEF CallInv
  <2>1. OwnCall(c)
    BY DEF CallInv
  <2>2. PICK t : t = about[c]
    OBVIOUS
  <2>3. t \in Sent /\ Has(t, "delivered") => Has(about[c], "delivered")'
    <3>1. Has(t, "delivered")' = Has(about[c], "delivered")'
      BY <2>1, <2>2 DEF Has
    <3> QED
      BY <1>4, <3>1
  <2> QED
    BY <1>2, <2>1, <2>2, <2>3 DEF OwnCall, Busy, Held, Transfers, Foreign
<1>6. HopsAreMine'
  BY <1>2 DEF HopsAreMine
<1>7. StateIsTrue'
  BY <1>2, <1>4 DEF StateIsTrue
<1> QED
  BY <1>1, <1>3, <1>5, <1>6, <1>7

(* The object stays true when the chains stay, or one more transfer is sent. *)
Sends1 == sent' \in {sent, sent + 1} /\ sent' <= MaxTransfers

LEMMA ObjectStays ==
    ASSUME IInv, UNCHANGED <<direction, batched, stage>>, Sends1
    PROVE  /\ UNCHANGED <<hops, vaa>> => HopsAreMine'
           /\ UNCHANGED state => StateIsTrue'
<1>1. Sent \subseteq Sent'
  BY SentTyped DEF IInv, Sent, Sends1
<1>2. \A u, s : Has(u, s)' = Has(u, s)
  BY DEF Has, Route
<1> QED
  BY <1>1, <1>2 DEF IInv, HopsAreMine, StateIsTrue

(* A call of c goes on to p, or returns or throws, and leaves a true object. *)
LEMMA CallStep ==
    ASSUME IInv, NEW c \in Callers, UNCHANGED <<users, direction, batched, sentMsg, stage, msg>>,
           Sends1,
           NEW p \in Busy \cup {"idle", "transfer"}, NEW t \in 0 .. Foreign,
           Await(c, p, t),
           p \in Busy => origin # 0,
           p \in Busy \ {"bridge"} => t \in Held,
           p = "landed" => batched \/ Has(t, "delivered"),
           origin' \in 0 .. sent', origin # 0 => origin' # 0, state' # Created => origin' # 0,
           state' \in TransferState, destTx' \in BOOLEAN, hops' \subseteq Packets,
           vaa' \in 0 .. Foreign, HopsAreMine', StateIsTrue'
    PROVE  IInv'
<1> USE DEF IInv, Await, Sends1
<1>1. sent \in Nat /\ sent' \in Nat /\ Sent \subseteq Sent'
  BY SentTyped DEF Sent
<1>2. TypeOK'
  <2>1. UNCHANGED Route
    BY DEF Route
  <2>2. pc' \in [Callers -> {"idle", "transfer", "bridge", "source", "message", "vaa",
                           "forwarded", "delivered", "redeem", "landed"}]
    BY DEF TypeOK, Busy
  <2>3. about' \in [Callers -> 0 .. Foreign]
    BY DEF TypeOK
  <2>4. sent' \in 0 .. MaxTransfers /\ origin' \in 0 .. MaxTransfers
    BY <1>1, GatewayAssumption
  <2> QED
    BY <2>1, <2>2, <2>3, <2>4 DEF TypeOK
<1>3. WorldInv'
  BY <1>1 DEF WorldInv
<1>4. CallInv'
  <2> SUFFICES ASSUME NEW d \in Callers PROVE OwnCall(d)'
    BY DEF CallInv
  <2>1. UNCHANGED Route
    BY DEF Route
  <2>2. CASE d = c
    <3>1. pc'[d] = p /\ about'[d] = t
      BY <2>2 DEF TypeOK
    <3>2. t \in Held' \/ p \in {"idle", "transfer", "bridge"}
      BY <1>1 DEF Busy, Held, Transfers, Foreign
    <3>3. p = "landed" => batched' \/ Has(about[d], "delivered")'
      BY <2>1, <3>1 DEF Has
    <3> QED
      BY <3>1, <3>2, <3>3 DEF OwnCall, Busy
  <2>3. CASE d # c
    <3>1. pc'[d] = pc[d] /\ about'[d] = about[d] /\ OwnCall(d)
      BY <2>3 DEF TypeOK, CallInv
    <3>2. Has(about[d], "delivered") => Has(about[d], "delivered")'
      BY <2>1, <3>1 DEF Has
    <3> QED
      BY <1>1, <3>1, <3>2 DEF OwnCall, Held, Transfers, Foreign
  <2> QED
    BY <2>2, <2>3
<1> QED
  BY <1>2, <1>3, <1>4

(* A call that leaves the object alone. *)
LEMMA QuietStep ==
    ASSUME IInv, NEW c \in Callers, UNCHANGED <<users, direction, batched, sentMsg, stage, object>>,
           Sends1,
           NEW p \in Busy \cup {"idle", "transfer"}, NEW t \in 0 .. Foreign,
           Await(c, p, t),
           p \in Busy => origin # 0,
           p \in Busy \ {"bridge"} => t \in Held,
           p = "landed" => batched \/ Has(t, "delivered")
    PROVE  IInv'
<1>1. HopsAreMine' /\ StateIsTrue'
  BY ObjectStays DEF object
<1>2. /\ origin' \in 0 .. sent' /\ (origin # 0 => origin' # 0) /\ (state' # Created => origin' # 0)
      /\ UNCHANGED msg
  BY SentTyped DEF IInv, TypeOK, WorldInv, object, Sends1
<1>3. /\ state' \in TransferState /\ hops' \subseteq Packets /\ vaa' \in 0 .. Foreign
  BY DEF IInv, TypeOK, object
<1>4. destTx' \in BOOLEAN
  BY DEF IInv, TypeOK, object
<1> QED
  BY <1>1, <1>2, <1>3, <1>4, CallStep

LEMMA ReturnIsAwait == ASSUME NEW c PROVE Return(c) <=> Await(c, "idle", 0)
  BY DEF Return, Await

(* A redeem that lands, of c or of others: the chains move, and then only the call of c. *)
LEMMA LandsForward == ASSUME IInv, NEW t, Redeems(t),
                             UNCHANGED <<users, direction, batched, sentMsg, sent>>
                      PROVE  /\ Forward
                             /\ \A u \in Own : u \notin Sent => stage'[u] = stage[u]
                             /\ t \in Transfers => Has(t, "delivered")'
<1> USE DEF IInv
<1>1. Len(Route) \in Nat /\ stage \in [Transfers -> 0 .. Len(Route)] /\ sent \in Nat
  BY SentTyped DEF TypeOK, Route
<1>2. stage' = [stage EXCEPT ![t] = Len(Route)] /\ Has(t, "signed")
  BY DEF Redeems
<1>3. \A u \in Own : stage[u] = 0 => u # t
  <2>1. ~ \E k \in 1 .. 0 : TRUE
    OBVIOUS
  <2> QED
    BY <1>2, <2>1 DEF Has
<1>4. \A u \in Own : u \notin Sent => stage'[u] = stage[u]
  BY <1>1, <1>2, <1>3, SentTyped DEF WorldInv
<1>5. Forward
  <2>1. PICK L \in Nat : L = Len(Route)
    BY <1>1
  <2>2. stage \in [Transfers -> 0 .. L] /\ stage' = [stage EXCEPT ![t] = L]
    BY <1>1, <1>2, <2>1
  <2>3. stage' \in [Transfers -> 0 .. L]
    <3>1. L \in 0 .. L
      OBVIOUS
    <3> HIDE <2>1
    <3> QED
      BY <2>2, <3>1
  <2>4. ASSUME NEW u \in Transfers PROVE stage[u] <= stage'[u]
    <3>1. stage[u] \in 0 .. L
      BY <2>2
    <3>2. stage'[u] = stage[u] \/ stage'[u] = L
      BY <2>2
    <3> QED
      BY <3>1, <3>2
  <2>5. sent \in 0 .. sent'
    BY <1>1
  <2> QED
    BY <2>1, <2>3, <2>4, <2>5 DEF Forward
<1>6. ASSUME t \in Transfers PROVE Has(t, "delivered")'
  <2>1. stage'[t] = Len(Route)'
    BY <1>1, <1>2, <1>6 DEF Route
  <2>2. /\ direction' = "in" => Len(Route)' = 4 /\ Route'[4] = "delivered"
        /\ direction' = "out" => Len(Route)' = 4 /\ Route'[4] = "delivered"
        /\ direction' \notin {"in", "out"} => Len(Route)' = 3 /\ Route'[3] = "delivered"
    BY DEF Route
  <2> QED
    BY <2>1, <2>2 DEF Has
<1> QED
  BY <1>4, <1>5, <1>6

LEMMA InitiateSteps ==
    ASSUME IInv, NEW c \in Callers, StartInitiate(c) \/ TransferReturns(c) \/ TransferThrows(c)
    PROVE  IInv'
<1> USE ReturnIsAwait DEF chains
<1>0. /\ sent \in 0 .. MaxTransfers /\ MaxTransfers \in Nat
      /\ 0 \in 0 .. Foreign
  BY GatewayAssumption DEF IInv, TypeOK, Foreign
<1>1. CASE StartInitiate(c)
  BY <1>0, <1>1, QuietStep DEF StartInitiate, Busy, Sends1
<1>2. CASE TransferThrows(c)
  BY <1>0, <1>2, QuietStep DEF TransferThrows, Busy, Sends1, Sends
<1>3. CASE TransferReturns(c)
  <2>1. /\ UNCHANGED <<users, direction, batched, sentMsg, stage, msg, hops, vaa>>
        /\ sent' = sent + 1 /\ Sends1 /\ Await(c, "idle", 0)
        /\ origin' = sent + 1 /\ destTx' = FALSE /\ state' = SourceInitiated
    BY <1>0, <1>3 DEF TransferReturns, Sends, Sends1
  <2>2. HopsAreMine'
    BY <2>1, ObjectStays
  <2>3. StateIsTrue'
    BY <2>1 DEF StateIsTrue, SourceInitiated, Attested
  <2>4. state' \in TransferState /\ hops' \subseteq Packets /\ vaa' \in 0 .. Foreign
    BY <2>1 DEF IInv, TypeOK, TransferState, Failed, SourceInitiated, DestinationFinalized
  <2>5. origin' # 0 /\ origin' \in 0 .. sent'
    BY <1>0, <2>1
  <2>6. destTx' \in BOOLEAN
    BY <2>1
  <2> QED
    BY <1>0, <2>1, <2>2, <2>3, <2>4, <2>5, <2>6, CallStep DEF Busy
<1> QED
  BY <1>1, <1>2, <1>3

LEMMA QuietSteps ==
    ASSUME IInv, NEW c \in Callers,
           StartFetch(c) \/ BridgeThere(c) \/ MessageFound(c) \/ FetchThrows(c) \/ StartComplete(c)
              \/ RedeemThrows(c)
    PROVE  IInv'
<1> USE ReturnIsAwait DEF chains
<1>1. /\ sent \in Nat /\ sent \in 0 .. MaxTransfers /\ MaxTransfers \in Nat
      /\ OwnCall(c) /\ Foreign \in Nat /\ 0 \in 0 .. Foreign /\ about[c] \in 0 .. Foreign
      /\ vaa \in 0 .. Foreign /\ origin \in 0 .. Foreign /\ batched \in BOOLEAN
      /\ \A t \in Transfers : t \in 0 .. Foreign
  BY GatewayAssumption DEF IInv, TypeOK, CallInv, Foreign, Transfers
<1>2. origin # 0 => origin \in Held
  BY HeldTyped DEF Sent, IInv, WorldInv
<1>3. CASE StartFetch(c)
  <2>1. origin # 0
    BY <1>3 DEF StartFetch, MayFetch, IInv, WorldInv, Created, SourceInitiated, Attested
  <2>2. UNCHANGED <<users, direction, batched, sentMsg, stage, object>> /\ Sends1
    BY <1>1, <1>3 DEF StartFetch, Sends1
  <2>3. Await(c, "bridge", 0) \/ Await(c, "message", origin)
    BY <1>3 DEF StartFetch
  <2> QED
    BY <1>1, <1>2, <2>1, <2>2, <2>3, QuietStep DEF Busy
<1>4. CASE BridgeThere(c)
  <2>1. UNCHANGED <<users, direction, batched, sentMsg, stage, object>> /\ Sends1
    BY <1>1, <1>4 DEF BridgeThere, Sends1
  <2>2. Await(c, "idle", 0) \/ Await(c, "source", origin)
    BY <1>4 DEF BridgeThere
  <2>3. origin # 0
    BY <1>1, <1>4 DEF BridgeThere, OwnCall, Busy
  <2> QED
    BY <1>1, <1>2, <2>1, <2>2, <2>3, QuietStep DEF Busy
<1>5. CASE MessageFound(c)
  <2>1. /\ UNCHANGED <<users, direction, batched, sentMsg, stage, object>> /\ Sends1
        /\ pc[c] = "message"
    BY <1>1, <1>5 DEF MessageFound, Sends1
  <2>2. origin # 0 /\ about[c] \in Held
    BY <1>1, <2>1 DEF OwnCall, Busy
  <2>3. PICK t \in InTx(about[c]) : Await(c, "vaa", t)
    BY <1>5 DEF MessageFound, InTx
  <2>4. t \in 0 .. Foreign /\ t \in Held
    BY <1>1, <2>2, SentTyped DEF InTx, Held, IInv
  <2> QED
    BY <2>1, <2>2, <2>3, <2>4, QuietStep DEF Busy
<1>6. CASE FetchThrows(c) \/ RedeemThrows(c)
  BY <1>1, <1>6, QuietStep DEF FetchThrows, RedeemThrows, Sends1, Busy
<1>7. CASE StartComplete(c)
  <2>1. vaa \in Held
    BY <1>1, <1>7, GatewayAssumption
       DEF StartComplete, IInv, HopsAreMine, Held, Transfers, Foreign
  <2>2. origin # 0
    BY <1>1, <1>7 DEF StartComplete, IInv, WorldInv, Created, Attested
  <2> QED
    BY <1>1, <1>7, <2>1, <2>2, QuietStep DEF StartComplete, Sends1, Busy
<1> QED
  BY <1>3, <1>4, <1>5, <1>6, <1>7


(* The lookups that fill the object in. *)
LEMMA FindSteps ==
    ASSUME IInv, NEW c \in Callers,
           SourceFound(c) \/ VaaFound(c) \/ ForwardFound(c) \/ DeliveryFound(c)
    PROVE  IInv'
<1> USE ReturnIsAwait DEF chains
<1>1. /\ sent \in Nat /\ sent \in 0 .. MaxTransfers /\ MaxTransfers \in Nat
      /\ OwnCall(c) /\ vaa \in 0 .. Foreign /\ origin \in 0 .. sent /\ state \in TransferState
      /\ hops \subseteq Packets /\ 0 \in 0 .. Foreign
  BY GatewayAssumption DEF IInv, TypeOK, CallInv, WorldInv, Foreign
<1>2. Held \subseteq Transfers /\ Held \subseteq 0 .. Foreign /\ (~ batched => Held = Sent)
  BY HeldTyped DEF IInv
<1>3. UNCHANGED <<batched, sent>> => UNCHANGED <<Held, Sent>>
  BY DEF Held, Sent
<1>4. ASSUME UNCHANGED <<users, direction, batched, sentMsg, sent, stage, msg, origin, destTx>>,
             NEW p \in {"idle", "message", "forwarded", "delivered"}, NEW t \in 0 .. Foreign,
             Await(c, p, t), t \in Held \/ p = "idle", origin # 0,
             state' \in TransferState, hops' \subseteq Packets, vaa' \in 0 .. Foreign,
             HopsAreMine', StateIsTrue'
      PROVE  IInv'
  <2>1. Sends1 /\ origin' \in 0 .. sent'
    BY <1>1, <1>4 DEF Sends1
  <2>2. destTx' \in BOOLEAN
    BY <1>4 DEF IInv, TypeOK
  <2> QED
    BY <1>1, <1>4, <2>1, <2>2, CallStep DEF Busy
<1>5. pc[c] \in Busy \ {"bridge"} => origin # 0 /\ about[c] \in Held
  BY <1>1 DEF OwnCall, Busy
<1>6. ASSUME NEW a \in Held, NEW t \in InTx(a) PROVE t \in Held /\ t \in Transfers
  BY <1>2, <1>6, SentTyped DEF InTx, Held, IInv
<1>7. ASSUME UNCHANGED <<batched, sent, vaa>>, NEW k \in {"sent", "forwarded", "delivered"},
             NEW t \in Held, NEW H \in SUBSET hops, hops' = H \cup {<<k, t>>}
      PROVE  HopsAreMine' /\ hops' \subseteq Packets
  <2>1. hops' \subseteq Packets
    BY <1>1, <1>2, <1>7 DEF Packets
  <2>2. HopsAreMine'
    BY <1>2, <1>3, <1>7 DEF IInv, HopsAreMine
  <2> QED
    BY <2>1, <2>2
<1>8. CASE SourceFound(c)
  <2>1. /\ pc[c] = "source" /\ hops' = {<<"sent", about[c]>>} /\ Has(about[c], "sent")
        /\ UNCHANGED <<users, direction, batched, sentMsg, sent, stage, msg, origin, destTx, state, vaa>>
    BY <1>8 DEF SourceFound
  <2>2. Await(c, "message", about[c]) \/ Await(c, "forwarded", about[c])
    BY <1>8 DEF SourceFound
  <2>3. origin # 0 /\ about[c] \in Held
    BY <1>5, <2>1 DEF Busy
  <2>4. hops' = {} \cup {<<"sent", about[c]>>} /\ {} \in SUBSET hops
    BY <2>1
  <2>5. HopsAreMine' /\ hops' \subseteq Packets
    BY <1>7, <2>1, <2>3, <2>4
  <2>6. StateIsTrue'
    BY <1>1, <2>1, ObjectStays DEF Sends1
  <2> QED
    BY <1>1, <1>2, <1>4, <2>1, <2>2, <2>3, <2>5, <2>6
<1>9. CASE VaaFound(c)
  <2>1. /\ pc[c] = "vaa" /\ Has(about[c], "signed") /\ vaa' = about[c] /\ NextState
        /\ UNCHANGED <<users, direction, batched, sentMsg, sent, stage, msg, origin, destTx, hops>>
    BY <1>9 DEF VaaFound
  <2>2. Await(c, "idle", 0) \/ Await(c, "forwarded", about[c])
    BY <1>9 DEF VaaFound
  <2>3. origin # 0 /\ about[c] \in Held
    BY <1>5, <2>1 DEF Busy
  <2>4. HopsAreMine'
    BY <1>2, <1>3, <2>1, <2>3 DEF IInv, HopsAreMine
  <2>5. \A u, s : Has(u, s)' = Has(u, s)
    BY <2>1 DEF Has, Route
  <2>6. (state' = Attested /\ direction = "out") \/ state' = state
    BY <2>1 DEF NextState
  <2>7. CASE state' = state
    <3>1. StateIsTrue'
      BY <1>1, <2>1, <2>7, ObjectStays DEF Sends1
    <3> QED
      BY <1>1, <1>2, <1>4, <2>1, <2>2, <2>3, <2>4, <2>7, <3>1
  <2>8. CASE state' = Attested /\ direction = "out"
    <3>1. StateIsTrue'
      BY <1>2, <1>3, <2>1, <2>3, <2>5, <2>8 DEF StateIsTrue
    <3>2. state' \in TransferState
      BY <2>8 DEF TransferState, Attested, Failed, DestinationFinalized
    <3> QED
      BY <1>1, <1>2, <1>4, <2>1, <2>2, <2>3, <2>4, <3>1, <3>2
  <2> QED
    BY <2>6, <2>7, <2>8
<1>10. CASE ForwardFound(c)
  <2>1. /\ pc[c] = "forwarded"
        /\ UNCHANGED <<users, direction, batched, sentMsg, sent, stage, msg, origin, destTx, state, vaa>>
    BY <1>10 DEF ForwardFound
  <2>2. PICK u \in (IF FromGateway THEN {about[c]} ELSE {t \in Transfers : Matches(t)}) :
             Has(u, "forwarded") /\ \E t \in InTx(u) : KeepsHop(t) /\ Await(c, "delivered", t)
    BY <1>10 DEF ForwardFound
  <2>3. PICK t \in InTx(u) : KeepsHop(t) /\ Await(c, "delivered", t)
    BY <2>2
  <2>4. origin # 0 /\ about[c] \in Held
    BY <1>5, <2>1 DEF Busy
  <2>5. u \in Held
    <3>1. CASE FromGateway
      BY <2>2, <2>4, <3>1
    <3>2. CASE ~ FromGateway
      <4>1. u \in Transfers /\ MsgOf(u) = msg /\ msg.nonce = 1
        BY <2>2, <3>2 DEF Matches, IInv, WorldInv
      <4>2. sentMsg \in Msgs
        BY DEF IInv, TypeOK
      <4>3. u # Foreign
        BY <4>1, <4>2 DEF MsgOf, Msgs
      <4>4. u \in Own
        BY <4>1, <4>3, GatewayAssumption DEF Own, Transfers, Foreign
      <4>5. stage[u] # 0
        BY <2>2 DEF Has
      <4>6. u \in Sent
        BY <4>4, <4>5 DEF IInv, WorldInv
      <4> QED
        BY <4>1, <4>6 DEF Held
    <3> QED
      BY <3>1, <3>2
  <2>6. t \in Held /\ t \in 0 .. Foreign
    BY <1>2, <1>6, <2>3, <2>5
  <2>7. hops' = hops \/ hops' = hops \cup {<<"forwarded", t>>}
    BY <2>3 DEF KeepsHop
  <2>8. HopsAreMine' /\ hops' \subseteq Packets
    <3>1. CASE hops' = hops
      BY <1>1, <2>1, <3>1, ObjectStays DEF Sends1
    <3>2. CASE hops' = hops \cup {<<"forwarded", t>>}
      <4>1. hops \in SUBSET hops
        OBVIOUS
      <4> QED
        BY <1>7, <2>1, <2>6, <3>2, <4>1
    <3> QED
      BY <2>7, <3>1, <3>2
  <2>9. StateIsTrue'
    BY <1>1, <2>1, ObjectStays DEF Sends1
  <2> QED
    BY <1>1, <1>4, <2>1, <2>3, <2>4, <2>6, <2>8, <2>9
<1>11. CASE DeliveryFound(c)
  <2>1. /\ pc[c] = "delivered" /\ Has(about[c], "delivered") /\ state' = Attested
        /\ Await(c, "idle", 0)
        /\ UNCHANGED <<users, direction, batched, sentMsg, sent, stage, msg, origin, destTx, vaa>>
    BY <1>11 DEF DeliveryFound, Delivered
  <2>2. PICK t \in InTx(about[c]) : hops' = hops \cup {<<"delivered", t>>}
    BY <1>11 DEF DeliveryFound
  <2>3. origin # 0 /\ about[c] \in Held
    BY <1>5, <2>1 DEF Busy
  <2>4. t \in Held
    BY <1>6, <2>2, <2>3
  <2>5. hops \in SUBSET hops
    OBVIOUS
  <2>6. HopsAreMine' /\ hops' \subseteq Packets
    BY <1>7, <2>1, <2>2, <2>4, <2>5
  <2>7. Has(about[c], "delivered") /\ direction = "out" => Has(about[c], "signed")
    <3> SUFFICES ASSUME direction = "out", Has(about[c], "delivered")
                 PROVE  Has(about[c], "signed")
      OBVIOUS
    <3>1. Route = <<"sent", "forwarded", "signed", "delivered">>
      BY DEF Route
    <3>2. PICK k \in 1 .. stage[about[c]] : Route[k] = "delivered"
      BY DEF Has
    <3>3. stage[about[c]] \in 0 .. 4
      BY <1>2, <2>3, <3>1, StageNat DEF IInv
    <3>4. k = 4
      BY <3>1, <3>2, <3>3
    <3> QED
      BY <3>1, <3>2, <3>3, <3>4 DEF Has
  <2>8. \A u, s : Has(u, s)' = Has(u, s)
    BY <2>1 DEF Has, Route
  <2>9. StateIsTrue'
    BY <1>2, <1>3, <2>1, <2>3, <2>7, <2>8 DEF StateIsTrue
  <2>10. state' \in TransferState
    BY <2>1 DEF TransferState, Attested, Failed, DestinationFinalized
  <2> QED
    BY <1>1, <1>4, <2>1, <2>3, <2>6, <2>9, <2>10
<1> QED
  BY <1>8, <1>9, <1>10, <1>11

LEMMA RedeemSteps ==
    ASSUME IInv, NEW c \in Callers, RedeemLands(c) \/ RedeemReturns(c)
    PROVE  IInv'
<1> USE ReturnIsAwait DEF chains
<1>1. /\ OwnCall(c) /\ sent \in Nat /\ sent \in 0 .. MaxTransfers /\ origin \in 0 .. sent
      /\ 0 \in 0 .. Foreign
  BY GatewayAssumption DEF IInv, TypeOK, CallInv, WorldInv, Foreign
<1>2. Held \subseteq Transfers /\ Held \subseteq 0 .. Foreign /\ (~ batched => Held = Sent)
  BY HeldTyped DEF IInv
<1>3. CASE RedeemReturns(c)
  <2>1. /\ pc[c] = "landed" /\ state' = DestinationInitiated /\ destTx' = TRUE /\ Await(c, "idle", 0)
        /\ UNCHANGED <<users, direction, batched, sentMsg, sent, stage, msg, origin, hops, vaa>>
    BY <1>3 DEF RedeemReturns
  <2>2. about[c] \in Held /\ (batched \/ Has(about[c], "delivered"))
    BY <1>1, <2>1 DEF OwnCall, Busy
  <2>3. \A u, s : Has(u, s)' = Has(u, s)
    BY <2>1 DEF Has, Route
  <2>4. StateIsTrue'
    BY <1>2, <2>1, <2>2, <2>3 DEF StateIsTrue, Sent, Attested, DestinationInitiated
  <2>5. HopsAreMine' /\ Sends1
    BY <1>1, <2>1, ObjectStays DEF Sends1
  <2>6. origin' # 0 /\ origin' \in 0 .. sent'
    BY <1>1, <2>1 DEF OwnCall, Busy
  <2>7. destTx' \in BOOLEAN
    BY <2>1
  <2>8. state' \in TransferState /\ hops' \subseteq Packets /\ vaa' \in 0 .. Foreign
    BY <2>1 DEF IInv, TypeOK, TransferState, Failed, DestinationInitiated, DestinationFinalized
  <2> QED
    BY <1>1, <2>1, <2>4, <2>5, <2>6, <2>7, <2>8, CallStep DEF Busy
<1>4. CASE RedeemLands(c)
  <2>1. /\ pc[c] = "redeem" /\ Redeems(about[c]) /\ Await(c, "landed", about[c])
        /\ UNCHANGED <<users, direction, batched, sentMsg, sent, object>>
    BY <1>4 DEF RedeemLands
  <2>2. PICK t : t = about[c]
    OBVIOUS
  <2>3. origin # 0 /\ t \in Held /\ t \in Transfers
    BY <1>1, <1>2, <2>1, <2>2 DEF OwnCall, Busy
  <2>4. /\ Forward /\ Has(t, "delivered")'
        /\ \A u \in Own : u \notin Sent => stage'[u] = stage[u]
    BY <2>1, <2>2, <2>3, LandsForward
  <2>5. /\ pc' \in [Callers -> Busy \cup {"idle", "transfer"}]
        /\ about' \in [Callers -> 0 .. Foreign]
    BY <1>2, <2>1, <2>2, <2>3 DEF Await, IInv, TypeOK, Busy
  <2>6. pc'[c] = "landed" /\ about'[c] = t
    BY <2>1, <2>2 DEF Await, IInv, TypeOK
  <2>7. Has(about[c], "delivered")'
    BY <2>4, <2>6 DEF Has
  <2>8. UNCHANGED <<origin, Held>>
    BY <2>1 DEF Held, Sent, object
  <2>9. OwnCall(c)'
    BY <2>3, <2>6, <2>7, <2>8 DEF OwnCall
  <2>10. ASSUME NEW d \in Callers PROVE (pc'[d] = pc[d] /\ about'[d] = about[d]) \/ OwnCall(d)'
    <3>1. CASE d = c
      BY <2>9, <3>1
    <3>2. CASE d # c
      BY <2>1, <3>2 DEF Await, IInv, TypeOK
    <3> QED
      BY <3>1, <3>2
  <2> QED
    BY <2>1, <2>4, <2>5, <2>10, ChainsStep
<1> QED
  BY <1>3, <1>4

LEMMA WorldSteps == ASSUME IInv, NEW t \in Own, Advance(t) \/ OthersRedeem(t)
                    PROVE  IInv'
<1>1. /\ pc \in [Callers -> Busy \cup {"idle", "transfer"}] /\ about \in [Callers -> 0 .. Foreign]
      /\ Len(Route) \in Nat /\ stage \in [Transfers -> 0 .. Len(Route)] /\ sent \in Nat
      /\ Own \subseteq Transfers
  BY SentTyped DEF IInv, TypeOK, Busy, Route
<1>2. UNCHANGED <<users, direction, batched, sentMsg, sent, object, calls>>
  BY DEF Advance, OthersRedeem
<1>3. Forward /\ \A u \in Own : u \notin Sent => stage'[u] = stage[u]
  <2>1. CASE Advance(t)
    <3>1. t \in Sent /\ stage[t] < Len(Route) /\ stage' = [stage EXCEPT ![t] = stage[t] + 1]
      BY <2>1 DEF Advance
    <3> QED
      BY <1>1, <1>2, <3>1 DEF Forward
  <2>2. CASE OthersRedeem(t)
    BY <1>2, <2>2, LandsForward DEF OthersRedeem
  <2> QED
    BY <2>1, <2>2
<1>4. pc' = pc /\ about' = about
  BY <1>2 DEF calls
<1> QED
  BY <1>1, <1>2, <1>3, <1>4, ChainsStep

LEMMA StepInv == IInv /\ [Next]_vars => IInv'
<1> SUFFICES ASSUME IInv, [Next]_vars PROVE IInv'
  OBVIOUS
<1>1. ASSUME NEW c \in users, Method(c) PROVE IInv'
  <2>1. c \in Callers
    BY DEF IInv, TypeOK
  <2> QED
    BY <1>1, <2>1, InitiateSteps, QuietSteps, FindSteps, RedeemSteps DEF Method, Finds
<1>2. ASSUME NEW t \in Own, Advance(t) \/ OthersRedeem(t) PROVE IInv'
  BY <1>2, WorldSteps
<1>3. CASE UNCHANGED vars
  <2>1. UNCHANGED <<users, direction, batched, sentMsg, sent, stage, object, calls>>
    BY <1>3 DEF vars, chains
  <2>2. Forward
    BY <2>1, SentTyped DEF Forward, IInv, TypeOK, Route
  <2>3. /\ pc' \in [Callers -> Busy \cup {"idle", "transfer"}] /\ about' \in [Callers -> 0 .. Foreign]
        /\ pc' = pc /\ about' = about
    BY <2>1 DEF IInv, TypeOK, Busy, calls
  <2> QED
    BY <2>1, <2>2, <2>3, ChainsStep
<1> QED
  BY <1>1, <1>2, <1>3 DEF Next

(* The invariant of the object, whoever uses it, and the transfers it has sent. *)
THEOREM GatewayInvariant == Spec => []IInv
  BY InitInv, StepInv, PTL DEF Spec

(* Whatever number of calls fill them in, the hops and the VAA of the object are its own,
   unless a relayer batches packets: for any fees and payloads, and any number of transfers
   it has sent. *)
THEOREM GatewayHopsAreMine == Spec => []HopsAreMine
<1>1. IInv => HopsAreMine
  BY DEF IInv
<1> QED
  BY <1>1, GatewayInvariant, PTL

(* The state of the object never runs ahead of the chains. *)
THEOREM GatewayStateIsTrue == Spec => []StateIsTrue
<1>1. IInv => StateIsTrue
  BY DEF IInv
<1> QED
  BY <1>1, GatewayInvariant, PTL
-----------------------------------------------------------------------------
(* One caller *)

Alone(c) == users = {c}

(* What has been collected of the way of the transfer a lookup is about. *)
WayInv(c) ==
    /\ direction = "in" => /\ pc[c] \notin {"bridge", "source"}
                           /\ pc[c] \in {"forwarded", "delivered"} => vaa # 0
                           /\ pc[c] = "delivered" => <<"forwarded", about[c]>> \in hops
    /\ direction = "out" => /\ pc[c] \notin {"forwarded", "delivered"}
                            /\ pc[c] \in {"message", "vaa"} => <<"sent", about[c]>> \in hops
    /\ direction = "hop" => /\ pc[c] \notin {"message", "vaa"}
                            /\ pc[c] \in {"forwarded", "delivered"} => <<"sent", about[c]>> \in hops

(* The state a pending call has found, and the one it leaves. *)
StageInv(c) ==
    /\ state \in {Created, SourceInitiated, Attested, DestinationInitiated}
    /\ pc[c] = "transfer" => state = Created
    /\ pc[c] \in Busy \ {"redeem", "landed"} => state \in {SourceInitiated, Attested}
    /\ pc[c] \in {"redeem", "landed"} => direction = "out" /\ state \in {Attested, DestinationInitiated}

OneInv(c) == StageInv(c) /\ (batched \/ WayInv(c))

AloneInv == IInv /\ \A c \in Callers : Alone(c) => OneInv(c)

LEMMA UsersStay == [Next]_vars => users' = users /\ direction' = direction /\ batched' = batched
  BY DEF Next, Method, Finds, vars, chains, StartInitiate, TransferReturns, TransferThrows,
         StartFetch, BridgeThere, SourceFound, MessageFound, VaaFound, ForwardFound, DeliveryFound,
         FetchThrows, StartComplete, RedeemLands, RedeemReturns, RedeemThrows, Advance, OthersRedeem

LEMMA OneInit == ASSUME NEW c \in Callers, Alone(c), Init PROVE OneInv(c)
  BY DEF Init, OneInv, StageInv, WayInv, Busy, Created, SourceInitiated

LEMMA OneStep ==
    ASSUME IInv, NEW c \in Callers, Alone(c), OneInv(c), [Next]_vars
    PROVE  OneInv(c)'
<1> USE DEF Created, SourceInitiated, SourceFinalized, Attested, DestinationInitiated, Await, Return,
        chains, object, calls
<1>1. /\ pc \in [Callers -> Busy \cup {"idle", "transfer"}] /\ about \in [Callers -> 0 .. Foreign]
      /\ OwnCall(c) /\ direction \in {"in", "out", "hop"}
  BY GatewayAssumption DEF IInv, TypeOK, Busy, CallInv
<1>2. UNCHANGED <<direction, batched>>
  BY UsersStay
<1>3. batched \/ \A t : InTx(t) = {t}
  BY DEF InTx
<1> USE <1>1, <1>2 DEF OneInv, StageInv, WayInv, Busy
<1>4. CASE StartInitiate(c) \/ TransferReturns(c) \/ TransferThrows(c)
  BY <1>4 DEF StartInitiate, TransferReturns, TransferThrows, Idle
<1>5. CASE StartFetch(c)
  BY <1>5 DEF StartFetch, Idle, MayFetch, FromGateway
<1>6. CASE BridgeThere(c)
  BY <1>6 DEF BridgeThere
<1>7. CASE SourceFound(c)
  BY <1>7 DEF SourceFound
<1>8. CASE MessageFound(c)
  BY <1>3, <1>8 DEF MessageFound
<1>9. CASE VaaFound(c)
  <2>1. (batched \/ about[c] \in Sent) /\ 0 \notin Sent
    BY <1>9, HeldTyped DEF VaaFound, OwnCall, Held, Sent, IInv
  <2> QED
    BY <1>9, <2>1 DEF VaaFound, NextState
<1>10. CASE ForwardFound(c)
  BY <1>3, <1>10 DEF ForwardFound, KeepsHop, FromGateway
<1>11. CASE DeliveryFound(c)
  BY <1>11 DEF DeliveryFound
<1>12. CASE FetchThrows(c) \/ RedeemThrows(c)
  BY <1>12 DEF FetchThrows, RedeemThrows
<1>13. CASE StartComplete(c)
  BY <1>13 DEF StartComplete, Idle
<1>14. CASE RedeemLands(c)
  BY <1>14 DEF RedeemLands
<1>15. CASE RedeemReturns(c)
  BY <1>15 DEF RedeemReturns
<1>16. ASSUME NEW t \in Own, Advance(t) \/ OthersRedeem(t) PROVE OneInv(c)'
  BY <1>16 DEF Advance, OthersRedeem
<1>17. CASE UNCHANGED vars
  BY <1>17 DEF vars
<1>18. ASSUME NEW d \in users PROVE d = c
  BY DEF Alone
<1> QED
  BY <1>4, <1>5, <1>6, <1>7, <1>8, <1>9, <1>10, <1>11, <1>12, <1>13, <1>14, <1>15, <1>16, <1>17,
     <1>18 DEF Next, Method, Finds

LEMMA AloneInit == Init => AloneInv
  BY InitInv, OneInit DEF AloneInv

LEMMA AloneStep == AloneInv /\ [Next]_vars => AloneInv'
<1> SUFFICES ASSUME AloneInv, [Next]_vars PROVE AloneInv'
  OBVIOUS
<1>1. IInv'
  BY StepInv DEF AloneInv
<1>2. ASSUME NEW c \in Callers, Alone(c)' PROVE OneInv(c)'
  <2>1. Alone(c)
    BY <1>2, UsersStay DEF Alone
  <2> QED
    BY <2>1, OneStep DEF AloneInv
<1> QED
  BY <1>1, <1>2 DEF AloneInv

LEMMA AloneAlways == Spec => []AloneInv
  BY AloneInit, AloneStep, PTL DEF Spec
-----------------------------------------------------------------------------
(* What a transfer has when it becomes attested. *)

Whole == \E t \in Sent : /\ Way(t) \subseteq hops'
                         /\ direction # "hop" => vaa' # 0

(* Only two steps attest it. *)
LEMMA Attests ==
    ASSUME NEW c \in Callers, Alone(c), OneInv(c), [Next]_vars, state # Attested, state' = Attested
    PROVE  VaaFound(c) \/ DeliveryFound(c)
<1> USE DEF Created, SourceInitiated, Attested, DestinationInitiated, chains, object
<1>1. ASSUME NEW d \in users PROVE d = c
  BY DEF Alone
<1>2. ASSUME NEW t \in Own, Advance(t) \/ OthersRedeem(t) PROVE FALSE
  BY <1>2 DEF Advance, OthersRedeem
<1>3. CASE UNCHANGED vars
  BY <1>3 DEF vars
<1>4. CASE Method(c)
  BY <1>4 DEF Method, Finds, StartInitiate, TransferReturns, TransferThrows, StartFetch,
     BridgeThere, SourceFound, MessageFound, ForwardFound, FetchThrows, StartComplete,
     RedeemLands, RedeemReturns, RedeemThrows
<1> QED
  BY <1>1, <1>2, <1>3, <1>4 DEF Next

LEMMA WholeStep ==
    ASSUME AloneInv, [Next]_vars, Sole, ~ batched, state # Attested, state' = Attested
    PROVE  Whole
<1>1. PICK c \in Callers : Alone(c)
  BY DEF Sole, Alone
<1>2. IInv /\ OneInv(c) /\ OwnCall(c) /\ WayInv(c) /\ direction \in {"in", "out", "hop"}
  BY <1>1, GatewayAssumption DEF AloneInv, OneInv, IInv, CallInv, TypeOK
<1>3. pc[c] \in {"vaa", "delivered"} => about[c] \in Sent /\ about[c] # 0
  BY <1>2, HeldTyped DEF OwnCall, Busy, Sent, IInv
<1>4. CASE VaaFound(c)
  <2>1. pc[c] = "vaa" /\ direction = "out" /\ hops' = hops /\ vaa' = about[c]
    BY <1>4 DEF VaaFound, NextState
  <2>2. <<"sent", about[c]>> \in hops'
    BY <1>2, <2>1 DEF WayInv
  <2>3. Way(about[c]) = {<<"sent", about[c]>>}
    BY <2>1 DEF Way
  <2> QED
    BY <1>3, <2>1, <2>2, <2>3 DEF Whole
<1>5. CASE DeliveryFound(c)
  <2>1. pc[c] = "delivered" /\ hops' = hops \cup {<<"delivered", about[c]>>} /\ vaa' = vaa
    BY <1>5 DEF DeliveryFound, InTx
  <2>2. CASE direction = "in"
    <3>1. Way(about[c]) = {<<"forwarded", about[c]>>, <<"delivered", about[c]>>}
      BY <2>2 DEF Way
    <3>2. <<"forwarded", about[c]>> \in hops /\ vaa # 0
      BY <1>2, <2>1, <2>2 DEF WayInv
    <3> QED
      BY <1>3, <2>1, <3>1, <3>2 DEF Whole
  <2>3. CASE direction = "hop"
    <3>1. Way(about[c]) = {<<"sent", about[c]>>, <<"delivered", about[c]>>}
      BY <2>3 DEF Way
    <3>2. <<"sent", about[c]>> \in hops
      BY <1>2, <2>1, <2>3 DEF WayInv
    <3> QED
      BY <1>3, <2>1, <2>3, <3>1, <3>2 DEF Whole
  <2>4. direction # "out"
    BY <1>2, <2>1 DEF WayInv
  <2> QED
    BY <1>2, <2>2, <2>3, <2>4
<1> QED
  BY <1>1, <1>2, <1>4, <1>5, Attests

(* With one caller, a transfer becomes attested with its whole way in the object, for any
   number of transfers sent with the same message. *)
THEOREM GatewayAttestedIsWhole == Spec => AttestedIsWhole
<1>1. AloneInv /\ [Next]_vars =>
        [Sole /\ ~ batched /\ state # Attested /\ state' = Attested
           => \E t \in Sent : Way(t) \subseteq hops' /\ (direction # "hop" => vaa' # 0)]_vars
  BY WholeStep DEF Whole
<1> QED
  BY <1>1, AloneAlways, PTL DEF Spec, AttestedIsWhole
-----------------------------------------------------------------------------
(* The state as a view of what has happened, with one caller. *)

USE DEF Failed, Created, SourceInitiated, SourceFinalized, InReview, Attested,
        DestinationInitiated, DestinationFinalized, TransferState,
        View!Failed, View!Created, View!SourceInitiated, View!SourceFinalized, View!InReview,
        View!Attested, View!DestinationInitiated, View!DestinationFinalized, View!TransferState,
        View!Follows

Happened == UNION {FactsOf(t) : t \in Sent}

Facts == {"message", "vaa", "redeemed"}

(* How far a transfer is when a fact is true of it. *)
Level(f) == IF f = "message" THEN 1
            ELSE IF f = "vaa" THEN (IF direction = "out" THEN 3 ELSE 2)
            ELSE IF direction = "hop" THEN 3 ELSE 4


Name(f) == IF f = "message" THEN "sent"
           ELSE IF f = "vaa" THEN (IF direction = "hop" THEN "forwarded" ELSE "signed")
           ELSE "delivered"

LEMMA FactNames == ASSUME NEW t, NEW f \in Facts PROVE f \in FactsOf(t) <=> Has(t, Name(f))
  BY DEF FactsOf, Name, Facts

LEMMA FactLevel ==
    ASSUME direction \in {"in", "out", "hop"}, NEW n \in 0 .. Len(Route), NEW f \in Facts
    PROVE  (\E k \in 1 .. n : Route[k] = Name(f)) <=> n >= Level(f)
<1>1. CASE direction = "in"
  <2>1. Route = <<"sent", "signed", "forwarded", "delivered">> /\ n \in 0 .. 4
    BY <1>1 DEF Route
  <2>2. /\ Route[1] = "sent" /\ Route[2] = "signed" /\ Route[3] = "forwarded"
        /\ Route[4] = "delivered"
    BY <2>1
  <2>3. f = "message" => ((\E k \in 1 .. n : Route[k] = "sent") <=> n >= 1)
    BY <2>1, <2>2
  <2>4. f = "vaa" => ((\E k \in 1 .. n : Route[k] = "signed") <=> n >= 2)
    BY <2>1, <2>2
  <2>5. f = "redeemed" => ((\E k \in 1 .. n : Route[k] = "delivered") <=> n >= 4)
    BY <2>1, <2>2
  <2> QED
    BY <1>1, <2>3, <2>4, <2>5 DEF Facts, Name, Level
<1>2. CASE direction = "out"
  <2>1. Route = <<"sent", "forwarded", "signed", "delivered">> /\ n \in 0 .. 4
    BY <1>2 DEF Route
  <2>2. /\ Route[1] = "sent" /\ Route[2] = "forwarded" /\ Route[3] = "signed"
        /\ Route[4] = "delivered"
    BY <2>1
  <2>3. f = "message" => ((\E k \in 1 .. n : Route[k] = "sent") <=> n >= 1)
    BY <2>1, <2>2
  <2>4. f = "vaa" => ((\E k \in 1 .. n : Route[k] = "signed") <=> n >= 3)
    BY <2>1, <2>2
  <2>5. f = "redeemed" => ((\E k \in 1 .. n : Route[k] = "delivered") <=> n >= 4)
    BY <2>1, <2>2
  <2> QED
    BY <1>2, <2>3, <2>4, <2>5 DEF Facts, Name, Level
<1>3. CASE direction = "hop"
  <2>1. Route = <<"sent", "forwarded", "delivered">> /\ n \in 0 .. 3
    BY <1>3 DEF Route
  <2>2. Route[1] = "sent" /\ Route[2] = "forwarded" /\ Route[3] = "delivered"
    BY <2>1
  <2>3. f = "message" => ((\E k \in 1 .. n : Route[k] = "sent") <=> n >= 1)
    BY <2>1, <2>2
  <2>4. f = "vaa" => ((\E k \in 1 .. n : Route[k] = "forwarded") <=> n >= 2)
    BY <2>1, <2>2
  <2>5. f = "redeemed" => ((\E k \in 1 .. n : Route[k] = "delivered") <=> n >= 3)
    BY <2>1, <2>2
  <2> QED
    BY <1>3, <2>3, <2>4, <2>5 DEF Facts, Name, Level
<1> QED
  BY <1>1, <1>2, <1>3

LEMMA HappenedLevel ==
    ASSUME TypeOK, NEW f \in Facts
    PROVE  f \in Happened <=> \E t \in Sent : stage[t] >= Level(f)
<1>1. direction \in {"in", "out", "hop"} /\ Sent \subseteq Transfers
  BY SentTyped, GatewayAssumption DEF TypeOK
<1>2. ASSUME NEW t \in Sent PROVE f \in FactsOf(t) <=> stage[t] >= Level(f)
  <2>1. PICK n \in 0 .. Len(Route) : n = stage[t]
    BY <1>1, StageNat
  <2>2. Has(t, Name(f)) <=> \E k \in 1 .. n : Route[k] = Name(f)
    BY <2>1 DEF Has
  <2> QED
    BY <1>1, <2>1, <2>2, FactLevel, FactNames
<1>3. f \in Happened <=> \E t \in Sent : f \in FactsOf(t)
  BY DEF Happened
<1> QED
  BY <1>2, <1>3

LEMMA HappenedFacts == Happened \subseteq Facts
  BY DEF Happened, FactsOf, Facts

Leveled == \A f \in Facts : f \in Happened <=> \E t \in Sent : stage[t] >= Level(f)

LEMMA AlwaysLeveled == TypeOK => Leveled
  BY HappenedLevel DEF Leveled

LEMMA LeveledNext == TypeOK' => Leveled'
  BY AlwaysLeveled, PTL

LEMMA FactsNext == Happened' \subseteq Facts
  BY DEF Happened, FactsOf, Facts

(* A transfer that was just sent is not as far as any fact. *)
LEMMA Same ==
    ASSUME IInv, IInv', UNCHANGED <<direction, stage>>, Sends1
    PROVE  Happened' = Happened
<1>1. Leveled /\ Leveled' /\ Happened \subseteq Facts /\ Happened' \subseteq Facts
  BY AlwaysLeveled, LeveledNext, HappenedFacts, FactsNext DEF IInv
<1>2. sent \in Nat /\ Sent \subseteq Sent' /\ Sent' \subseteq Own
  BY SentTyped, GatewayAssumption DEF IInv, Sent, Sends1, Own
<1>3. ASSUME NEW t \in Sent', t \notin Sent PROVE stage[t] = 0
  BY <1>2, <1>3 DEF IInv, WorldInv
<1>4. ASSUME NEW f \in Facts PROVE f \in Happened' <=> f \in Happened
  <2>1. Level(f)' = Level(f) /\ Level(f) \in {1, 2, 3, 4}
    BY DEF Level
  <2> QED
    BY <1>1, <1>2, <1>3, <2>1 DEF Leveled
<1> QED
  BY <1>1, <1>4

(* A transfer that moves on lets at most one thing happen, after what it needs. *)
LEMMA Grows ==
    ASSUME IInv, IInv', UNCHANGED <<direction, sent>>, NEW t \in Sent,
           stage' = [stage EXCEPT ![t] = stage[t] + 1]
    PROVE  \/ Happened' = Happened
           \/ \E f \in Facts : /\ f \notin Happened
                               /\ Happened' = Happened \cup {f}
                               /\ f = "vaa" => "message" \in Happened
                               /\ f = "redeemed" => "vaa" \in Happened
<1>1. Leveled /\ Leveled' /\ Happened \subseteq Facts /\ Happened' \subseteq Facts
  BY AlwaysLeveled, LeveledNext, HappenedFacts, FactsNext DEF IInv
<1>2. UNCHANGED Sent /\ Sent \subseteq Transfers
  BY SentTyped DEF IInv, Sent
<1>3. PICK n \in Nat : n = stage[t]
  <2>1. stage[t] \in 0 .. Len(Route) /\ Len(Route) \in Nat
    BY <1>2, StageNat DEF IInv
  <2> QED
    BY <2>1
<1>4. stage'[t] = n + 1 /\ \A u \in Sent : u # t => stage'[u] = stage[u]
  BY <1>2, <1>3 DEF IInv, TypeOK
<1>5. \A f \in Facts : Level(f)' = Level(f) /\ Level(f) \in {1, 2, 3, 4}
  BY DEF Level
<1>6. \A f \in Facts : f \in Happened' <=> f \in Happened \/ n + 1 >= Level(f)
  BY <1>1, <1>2, <1>3, <1>4, <1>5 DEF Leveled
<1>7. \A f \in Facts : n >= Level(f) => f \in Happened
  BY <1>1, <1>3 DEF Leveled
<1>8. \A f \in Facts : f \in Happened' /\ f \notin Happened => Level(f) = n + 1
  BY <1>3, <1>5, <1>6, <1>7
<1>9. Level("message") < Level("vaa") /\ Level("vaa") < Level("redeemed")
  BY DEF Level
<1>10. CASE \A f \in Facts : f \in Happened' => f \in Happened
  BY <1>1, <1>6, <1>10
<1>11. ASSUME NEW f \in Facts, f \in Happened', f \notin Happened
       PROVE  /\ Happened' = Happened \cup {f}
              /\ f = "vaa" => "message" \in Happened
              /\ f = "redeemed" => "vaa" \in Happened
  <2>1. Level(f) = n + 1
    BY <1>8, <1>11
  <2>2. \A g \in Facts : g \in Happened' /\ g \notin Happened => g = f
    BY <1>5, <1>8, <1>9, <2>1 DEF Facts
  <2>3. Happened' = Happened \cup {f}
    BY <1>1, <1>6, <1>11, <2>2
  <2>4. "message" \in Facts /\ "vaa" \in Facts
    BY DEF Facts
  <2>5. f = "vaa" => "message" \in Happened
    BY <1>3, <1>5, <1>7, <1>9, <2>1, <2>4
  <2>6. f = "redeemed" => "vaa" \in Happened
    BY <1>3, <1>5, <1>7, <1>9, <2>1, <2>4
  <2> QED
    BY <2>3, <2>5, <2>6
<1> QED
  BY <1>10, <1>11

(* What the state says has happened. *)
LEMMA StateJustified ==
    ASSUME IInv, NEW c \in Callers, OneInv(c), ~ batched
    PROVE  /\ state = Attested => "vaa" \in Happened
           /\ state = DestinationInitiated => "redeemed" \in Happened
<1>1. Leveled /\ direction \in {"in", "out", "hop"} /\ Sent \subseteq Transfers
  BY AlwaysLeveled, SentTyped, GatewayAssumption DEF IInv, TypeOK
<1> SUFFICES ASSUME state \in {Attested, DestinationInitiated}
             PROVE  /\ state = Attested => "vaa" \in Happened
                    /\ state = DestinationInitiated => "redeemed" \in Happened
  OBVIOUS
<1>2. PICK t \in Sent : IF direction = "out" /\ state = Attested
                        THEN Has(t, "signed") ELSE Has(t, "delivered")
  BY DEF IInv, StateIsTrue
<1>3. PICK n \in 0 .. Len(Route) : n = stage[t]
  BY <1>1, StageNat DEF IInv
<1>4. Len(Route) \in Nat
  BY DEF Route
<1>5. \A f \in Facts : Has(t, Name(f)) <=> n >= Level(f)
  BY <1>1, <1>3, FactLevel DEF Has
<1>6. "vaa" \in Facts /\ "redeemed" \in Facts /\ Level("vaa") < Level("redeemed")
      /\ Level("vaa") \in Nat /\ Level("redeemed") \in Nat
  BY DEF Facts, Level
<1>7. CASE direction = "out" /\ state = Attested
  <2>1. Name("vaa") = "signed"
    BY <1>7 DEF Name
  <2>2. "vaa" \in Happened
    BY <1>1, <1>2, <1>3, <1>5, <1>6, <1>7, <2>1 DEF Leveled
  <2> QED
    BY <1>7, <2>2
<1>8. CASE ~ (direction = "out" /\ state = Attested)
  <2>1. Name("redeemed") = "delivered"
    BY DEF Name
  <2>2. n >= Level("redeemed")
    BY <1>2, <1>5, <1>6, <1>8, <2>1
  <2>3. "redeemed" \in Happened
    BY <1>1, <1>3, <1>6, <2>2 DEF Leveled
  <2>4. "vaa" \in Happened
    BY <1>1, <1>3, <1>4, <1>6, <2>2 DEF Leveled
  <2> QED
    BY <2>3, <2>4
<1> QED
  BY <1>7, <1>8

Justified == /\ state = Attested => "vaa" \in Happened
             /\ state = DestinationInitiated => "redeemed" \in Happened

Seen == Sole /\ ~ batched

LEMMA AlwaysJustified == AloneInv /\ Seen => Justified
  BY StateJustified DEF AloneInv, Sole, Alone, Seen, Justified

LEMMA JustifiedNext == AloneInv' /\ Seen' => Justified'
  BY AlwaysJustified, PTL

(* Steps of the object: the facts stay, and what is shown is true and further on. *)
LEMMA ObjectView ==
    ASSUME AloneInv, AloneInv', Seen, Seen', NEW c \in Callers, Alone(c),
           UNCHANGED <<direction, stage>>, Sends1,
           state' = state \/ (state' > state /\ state' \in {SourceInitiated, Attested, DestinationInitiated})
    PROVE  [View!Next]_<<Happened, state>>
<1>1. Happened' = Happened
  BY Same DEF AloneInv
<1>2. Justified'
  BY JustifiedNext
<1>3. state \in {Created, SourceInitiated, Attested, DestinationInitiated}
  BY DEF AloneInv, OneInv, StageInv
<1>4. CASE state' = state
  BY <1>1, <1>4
<1>5. CASE state' > state /\ state' \in {SourceInitiated, Attested, DestinationInitiated}
  <2>0. /\ state' = Attested => "vaa" \in Happened
        /\ state' = DestinationInitiated => "redeemed" \in Happened
    BY <1>1, <1>2 DEF Justified
  <2>1. View!Justified(state')
    BY <1>5, <2>0 DEF View!Justified, Seen, Happened
  <2>2. View!Shows(state')
    BY <1>1, <1>3, <1>5, <2>1 DEF View!Shows, Seen, Happened
  <2> QED
    BY <1>5, <2>2 DEF View!Next
<1> QED
  BY <1>4, <1>5

(* Steps of the chains. *)
LEMMA ChainsView ==
    ASSUME AloneInv, AloneInv', Seen, Seen', UNCHANGED <<direction, sent, state>>, NEW t \in Sent,
           stage' = [stage EXCEPT ![t] = stage[t] + 1]
    PROVE  [View!Next]_<<Happened, state>>
<1>1. CASE Happened' = Happened
  BY <1>1
<1>2. ASSUME NEW f \in Facts, f \notin Happened, Happened' = Happened \cup {f},
             f = "vaa" => "message" \in Happened, f = "redeemed" => "vaa" \in Happened
      PROVE  [View!Next]_<<Happened, state>>
  <2>1. f \in View!Facts /\ View!Requires(f) \subseteq Happened
    BY <1>2 DEF Facts, View!Facts, View!Requires
  <2>2. View!Happens(f)
    BY <1>2, <2>1 DEF View!Happens, Seen, Happened
  <2> QED
    BY <2>1, <2>2 DEF View!Next
<1>3. IInv /\ IInv'
  BY DEF AloneInv
<1> QED
  BY <1>1, <1>2, <1>3, Grows

(* A redeem takes a transfer one step on: only what leaves Cosmos is redeemed. *)
LEMMA RedeemMoves ==
    ASSUME IInv, direction = "out", NEW t \in Sent, Redeems(t)
    PROVE  stage' = [stage EXCEPT ![t] = stage[t] + 1]
<1>1. Route = <<"sent", "forwarded", "signed", "delivered">>
  BY DEF Route
<1>2. t \in Transfers /\ stage \in [Transfers -> 0 .. 4]
  BY <1>1, SentTyped DEF IInv, TypeOK
<1>3. PICK k \in 1 .. stage[t] : Route[k] = "signed"
  BY DEF Redeems, Has
<1>4. k = 3 /\ stage[t] \in 3 .. 4
  BY <1>1, <1>2, <1>3
<1>5. stage[t] # 4
  BY <1>1, <1>2 DEF Redeems, Has
<1>6. stage[t] + 1 = Len(Route)
  BY <1>1, <1>4, <1>5
<1> QED
  BY <1>6 DEF Redeems

LEMMA OneView ==
    ASSUME AloneInv, Seen, NEW c \in Callers, Alone(c), [Next]_vars
    PROVE  [View!Next]_<<Happened, state>>
<1>1. AloneInv'
  BY AloneStep
<1>2. Seen' /\ UNCHANGED direction
  BY UsersStay DEF Seen, Sole
<1>3. /\ IInv /\ OneInv(c) /\ OwnCall(c) /\ StageInv(c)
      /\ sent \in Nat /\ sent \in 0 .. MaxTransfers /\ MaxTransfers \in Nat
  BY GatewayAssumption DEF AloneInv, OneInv, IInv, CallInv, TypeOK
<1>4. ASSUME UNCHANGED stage, Sends1,
             state' = state \/ (state' > state /\ state' \in {SourceInitiated, Attested, DestinationInitiated})
      PROVE  [View!Next]_<<Happened, state>>
  BY <1>1, <1>2, <1>4, ObjectView
<1>5. ASSUME UNCHANGED <<sent, state>>, NEW t \in Sent, stage' = [stage EXCEPT ![t] = stage[t] + 1]
      PROVE  [View!Next]_<<Happened, state>>
  BY <1>1, <1>2, <1>5, ChainsView
<1> USE DEF chains, object
<1>6. CASE TransferReturns(c)
  BY <1>3, <1>4, <1>6 DEF TransferReturns, Sends, Sends1, StageInv
<1>7. CASE TransferThrows(c)
  BY <1>3, <1>4, <1>7 DEF TransferThrows, Sends, Sends1
<1>8. CASE VaaFound(c)
  <2>1. state \in {SourceInitiated, Attested} /\ state' \in {state, Attested} /\ UNCHANGED <<stage, sent>>
    BY <1>3, <1>8 DEF VaaFound, NextState, StageInv, Busy
  <2> QED
    BY <1>3, <1>4, <2>1 DEF Sends1
<1>9. CASE DeliveryFound(c)
  <2>1. state \in {SourceInitiated, Attested} /\ state' = Attested /\ UNCHANGED <<stage, sent>>
    BY <1>3, <1>9 DEF DeliveryFound, StageInv, Busy
  <2> QED
    BY <1>3, <1>4, <2>1 DEF Sends1
<1>10. CASE RedeemReturns(c)
  <2>1. /\ state \in {Attested, DestinationInitiated} /\ state' = DestinationInitiated
        /\ UNCHANGED <<stage, sent>>
    BY <1>3, <1>10 DEF RedeemReturns, StageInv
  <2> QED
    BY <1>3, <1>4, <2>1 DEF Sends1
<1>11. CASE RedeemLands(c)
  <2>1. direction = "out" /\ Redeems(about[c]) /\ UNCHANGED <<sent, state>> /\ about[c] \in Held
    BY <1>3, <1>11 DEF RedeemLands, StageInv, OwnCall, Busy
  <2>2. PICK t \in Sent : t = about[c]
    BY <1>3, <2>1, HeldTyped DEF Seen, IInv
  <2> QED
    BY <1>3, <1>5, <2>1, <2>2, RedeemMoves
<1>12. CASE \/ StartInitiate(c) \/ StartFetch(c) \/ BridgeThere(c) \/ SourceFound(c)
            \/ MessageFound(c) \/ ForwardFound(c) \/ FetchThrows(c) \/ StartComplete(c)
            \/ RedeemThrows(c)
  <2>1. UNCHANGED <<stage, sent, state>>
    BY <1>12 DEF StartInitiate, StartFetch, BridgeThere, SourceFound, MessageFound, ForwardFound,
       FetchThrows, StartComplete, RedeemThrows
  <2> QED
    BY <1>3, <1>4, <2>1 DEF Sends1
<1>13. ASSUME NEW t \in Own, Advance(t) PROVE [View!Next]_<<Happened, state>>
  BY <1>5, <1>13 DEF Advance
<1>14. ASSUME NEW t \in Own, OthersRedeem(t) PROVE [View!Next]_<<Happened, state>>
  <2>1. stage[t] # 0
    BY <1>14 DEF OthersRedeem, Redeems, Has
  <2>2. t \in Sent
    BY <1>3, <1>14, <2>1 DEF IInv, WorldInv
  <2> QED
    BY <1>3, <1>5, <1>14, <2>2, RedeemMoves DEF OthersRedeem
<1>15. CASE UNCHANGED vars
  BY <1>3, <1>4, <1>15 DEF vars, Sends1
<1>16. ASSUME NEW d \in users PROVE d = c
  BY DEF Alone
<1> QED
  BY <1>6, <1>7, <1>8, <1>9, <1>10, <1>11, <1>12, <1>13, <1>14, <1>15, <1>16
     DEF Next, Method, Finds

LEMMA ViewInit == Init => View!Init
<1> SUFFICES ASSUME Init PROVE View!Init
  OBVIOUS
<1>1. state \in {Created, SourceInitiated}
  BY DEF Init
<1>2. View!Justified(state) /\ View!Justified(Created)
  BY <1>1 DEF View!Justified
<1>3. Happened \in SUBSET View!Facts /\ {} \in SUBSET View!Facts
  BY DEF Happened, FactsOf, View!Facts
<1> QED
  BY <1>1, <1>2, <1>3 DEF View!Init, Happened

LEMMA ViewStep == AloneInv /\ [Next]_vars => [View!Next]_(View!viewVars)
<1> SUFFICES ASSUME AloneInv, [Next]_vars PROVE [View!Next]_(View!viewVars)
  OBVIOUS
<1>1. Seen' = Seen
  BY UsersStay DEF Seen, Sole
<1>2. CASE Seen
  <2>1. PICK c \in Callers : Alone(c)
    BY <1>2 DEF Seen, Sole, Alone
  <2> QED
    BY <1>1, <1>2, <2>1, OneView DEF View!viewVars, Seen, Happened
<1>3. CASE ~ Seen
  BY <1>1, <1>3 DEF View!viewVars, Seen
<1> QED
  BY <1>2, <1>3

(* With one caller, and no batching relayer, the state of the object only goes forward and
   is never ahead of what has happened to the transfers it has sent. *)
THEOREM GatewayImplementsView == Spec => StateImplementsView
  BY AloneAlways, ViewInit, ViewStep, PTL DEF Spec, StateImplementsView, View!Spec
=============================================================================
