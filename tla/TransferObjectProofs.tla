------------------------ MODULE TransferObjectProofs ------------------------
(***************************************************************************)
(* Theorems about TransferObject: what its state may say, for any number   *)
(* of concurrent callers, and that a single caller sees it only go         *)
(* forward.                                                                *)
(***************************************************************************)
EXTENDS TransferObject, TLAPS

(* The world: nothing happens to a transfer before what it needs. *)
WorldInv == /\ messages \subseteq 1 .. sent
            /\ signed \subseteq messages
            /\ redeemed \subseteq signed

(* A pending call is about a transfer that is as far as the call needs it to be. *)
CallInv == \A c \in Callers :
    /\ pc[c] = "vaa" => about[c] \in messages
    /\ pc[c] \in {"check", "redeem", "redeemed"} => about[c] \in signed
    /\ pc[c] = "redeemed" => about[c] \in redeemed

(* So is what the object holds. *)
HeldInv == /\ origin \in 0 .. sent
           /\ id # 0 => id \in messages

IInv == TypeOK /\ WorldInv /\ CallInv /\ HeldInv /\ StateIsTrue
-----------------------------------------------------------------------------
(* With one caller, the object knows where it is: what it holds is about one transfer,
   and there is enough of it for the state, unless a call is about to write the state. *)

OwnInv ==
    /\ state \in {Created, SourceInitiated, Attested, DestinationInitiated, DestinationFinalized}
    /\ state = Created <=> origin = 0 /\ id = 0
    /\ id # 0 /\ origin # 0 => id = origin
    /\ vaa # 0 <=> state >= Attested
    /\ vaa # 0 => vaa = id
    /\ destTx <=> state = DestinationInitiated
    /\ state >= DestinationInitiated => Mine \in redeemed

(* What the only call can be doing in each state. *)
OwnCall(c) ==
    /\ pc[c] = "transfer" => state = Created
    /\ pc[c] = "message"  => state = SourceInitiated /\ id = 0 /\ about[c] = origin
    /\ pc[c] = "vaa"      => state = SourceInitiated /\ id # 0 /\ about[c] = id
    /\ pc[c] = "check"    => state = Attested /\ about[c] = id
    /\ pc[c] = "redeem"   => state >= Attested /\ about[c] = id
    /\ pc[c] = "redeemed" => state = Attested /\ about[c] = id

OneInv(c) == IInv /\ OwnInv /\ OwnCall(c)

AloneInv == IInv /\ \A c \in Callers : Alone(c) => OneInv(c)
-----------------------------------------------------------------------------
LEMMA InitInv == Init => IInv
<1> SUFFICES ASSUME Init PROVE IInv
  OBVIOUS
<1> USE ObjectAssumption DEF TransferState, Failed, Created, SourceFinalized, Attested,
        DestinationInitiated, DestinationFinalized
<1>1. /\ sent \in 0 .. 1 /\ sent \in 0 .. MaxTransfers
      /\ messages = 1 .. sent /\ signed = messages /\ redeemed \subseteq signed
      /\ origin \in 0 .. sent /\ id \in 0 .. sent /\ vaa = id
      /\ destTx = FALSE
      /\ state \in {Created, Attested, DestinationFinalized}
      /\ state # Created => 1 \in signed
      /\ state = DestinationFinalized => 1 \in redeemed
  <2>1. PICK how \in Starts :
              IF how = "details"
              THEN /\ sent = 0 /\ messages = {} /\ signed = {} /\ redeemed = {}
                   /\ state = Created /\ origin = 0 /\ id = 0 /\ vaa = 0
              ELSE /\ sent = 1 /\ messages = {1} /\ signed = {1} /\ redeemed \in {{}, {1}}
                   /\ state \in {Attested, DestinationFinalized}
                   /\ state = DestinationFinalized => redeemed = {1}
                   /\ origin = IF how = "transaction" THEN 1 ELSE 0
                   /\ id = 1 /\ vaa = 1
    BY DEF Init
  <2>2. CASE how = "details"
    <3>1. 1 .. 0 = {}
      OBVIOUS
    <3> QED
      BY <2>1, <2>2, <3>1 DEF Init
  <2>3. CASE how # "details"
    <3>1. 1 .. 1 = {1} /\ 1 \in 0 .. MaxTransfers
      OBVIOUS
    <3>2. /\ sent = 1 /\ messages = {1} /\ signed = {1} /\ redeemed \in {{}, {1}}
          /\ origin \in {0, 1} /\ id = 1 /\ vaa = 1
      BY <2>1, <2>3
    <3>3. /\ state \in {Attested, DestinationFinalized}
          /\ state = DestinationFinalized => 1 \in redeemed
      BY <2>1, <2>3
    <3>4. destTx = FALSE
      BY DEF Init
    <3> QED
      BY <3>1, <3>2, <3>3, <3>4
  <2> QED
    BY <2>2, <2>3
<1>2. pc = [c \in Callers |-> "idle"] /\ about = [c \in Callers |-> 0]
  BY DEF Init
<1>3. TypeOK
  <2>1. messages \subseteq Transfers
    BY <1>1 DEF Transfers
  <2>2. about \in [Callers -> 0 .. MaxTransfers]
    BY <1>2
  <2>3. pc \in [Callers -> {"idle", "transfer", "message", "vaa", "check", "redeem", "redeemed"}]
    BY <1>2
  <2>4. destTx \in BOOLEAN
    BY <1>1
  <2>5. /\ signed \subseteq Transfers /\ redeemed \subseteq Transfers
        /\ state \in TransferState
    BY <1>1, <2>1
  <2>6. origin \in 0 .. MaxTransfers /\ id \in 0 .. MaxTransfers /\ vaa \in 0 .. MaxTransfers
    BY <1>1
  <2> QED
    BY <1>1, <2>1, <2>2, <2>3, <2>4, <2>5, <2>6 DEF TypeOK, Init
<1>3a. CallInv
  BY <1>2 DEF CallInv
<1>4. WorldInv /\ HeldInv /\ StateIsTrue
  BY SMTT(30), <1>1 DEF WorldInv, HeldInv, StateIsTrue
<1> QED
  BY <1>3, <1>3a, <1>4 DEF IInv

LEMMA StepInv == IInv /\ [Next]_vars => IInv'
<1> SUFFICES ASSUME IInv, [Next]_vars PROVE IInv'
  OBVIOUS
<1> USE ObjectAssumption DEF IInv, TypeOK, WorldInv, CallInv, HeldInv, StateIsTrue, Transfers,
        TransferState, Failed, Created, SourceInitiated, SourceFinalized, Attested,
        DestinationInitiated, DestinationFinalized, world, object, Await, Return, Idle
<1>1. ASSUME NEW c \in Callers, StartInitiate(c) PROVE IInv'
  BY <1>1 DEF StartInitiate
<1>2. ASSUME NEW c \in Callers, TransferReturns(c) PROVE IInv'
  <2>1. destTx' \in BOOLEAN
    BY <1>2 DEF TransferReturns
  <2>2. TypeOK'
    BY <1>2, <2>1 DEF TransferReturns, Sends
  <2>3. WorldInv' /\ CallInv' /\ HeldInv' /\ StateIsTrue'
    BY <1>2 DEF TransferReturns, Sends
  <2> QED
    BY <2>2, <2>3
<1>3. ASSUME NEW c \in Callers, TransferThrows(c) PROVE IInv'
  BY <1>3 DEF TransferThrows, Sends
<1>4. ASSUME NEW c \in Callers, StartFetch(c) PROVE IInv'
  BY <1>4 DEF StartFetch, MayFetch
<1>5. ASSUME NEW c \in Callers, MessageFound(c) PROVE IInv'
  BY <1>5 DEF MessageFound
<1>6. ASSUME NEW c \in Callers, VaaFound(c) PROVE IInv'
  BY <1>6 DEF VaaFound
<1>7. ASSUME NEW c \in Callers, FetchThrows(c) PROVE IInv'
  BY <1>7 DEF FetchThrows
<1>8. ASSUME NEW c \in Callers, CompletionChecked(c) PROVE IInv'
  BY <1>8 DEF CompletionChecked, Finalized
<1>9. ASSUME NEW c \in Callers, StartComplete(c) PROVE IInv'
  BY <1>9 DEF StartComplete
<1>10. ASSUME NEW c \in Callers, RedeemLands(c) PROVE IInv'
  BY <1>10 DEF RedeemLands, Redeems
<1>11. ASSUME NEW c \in Callers, RedeemReturns(c) PROVE IInv'
  BY <1>11 DEF RedeemReturns
<1>12. ASSUME NEW c \in Callers, RedeemThrows(c) PROVE IInv'
  BY <1>12 DEF RedeemThrows
<1>13. ASSUME NEW t \in Transfers, MessageVisible(t) PROVE IInv'
  BY <1>13 DEF MessageVisible
<1>14. ASSUME NEW t \in Transfers, GuardiansSign(t) PROVE IInv'
  BY <1>14 DEF GuardiansSign
<1>15. ASSUME NEW t \in Transfers, OthersRedeem(t) PROVE IInv'
  BY <1>15 DEF OthersRedeem, Redeems
<1>16. CASE UNCHANGED vars
  BY <1>16 DEF vars
<1> QED
  BY <1>1, <1>2, <1>3, <1>4, <1>5, <1>6, <1>7, <1>8, <1>9, <1>10, <1>11, <1>12, <1>13,
     <1>14, <1>15, <1>16 DEF Next, Method, World

(* The invariant of the object, whoever uses it and however many at once. *)
THEOREM ObjectInvariant == Spec => []IInv
  BY InitInv, StepInv, PTL DEF Spec

(* The variables keep their types. *)
THEOREM ObjectTypeOK == Spec => []TypeOK
<1>1. IInv => TypeOK
  BY DEF IInv
<1> QED
  BY <1>1, ObjectInvariant, PTL

(* However many calls of initiateTransfer(), fetchAttestation() and completeTransfer() are
   pending and in whatever order they go on, the state never runs ahead of the chains. *)
THEOREM ObjectStateIsTrue == Spec => []StateIsTrue
<1>1. IInv => StateIsTrue
  BY DEF IInv
<1> QED
  BY <1>1, ObjectInvariant, PTL
-----------------------------------------------------------------------------
(* One caller *)

LEMMA OneInit == ASSUME NEW c \in Callers, Alone(c), Init PROVE OneInv(c)
<1> USE ObjectAssumption DEF Failed, Created, SourceInitiated, Attested,
        DestinationInitiated, DestinationFinalized
<1>1. IInv
  BY InitInv
<1>2. OwnCall(c)
  BY DEF Init, OwnCall
<1>3. destTx = FALSE
  BY DEF Init
<1>4. PICK how \in Starts :
              IF how = "details"
              THEN /\ sent = 0 /\ messages = {} /\ signed = {} /\ redeemed = {}
                   /\ state = Created /\ origin = 0 /\ id = 0 /\ vaa = 0
              ELSE /\ sent = 1 /\ messages = {1} /\ signed = {1} /\ redeemed \in {{}, {1}}
                   /\ state \in {Attested, DestinationFinalized}
                   /\ state = DestinationFinalized => redeemed = {1}
                   /\ origin = IF how = "transaction" THEN 1 ELSE 0
                   /\ id = 1 /\ vaa = 1
  BY DEF Init
<1>5. OwnInv
  <2>1. CASE how = "details"
    BY <1>3, <1>4, <2>1 DEF OwnInv, Mine
  <2>2. CASE how # "details"
    BY <1>3, <1>4, <2>2 DEF OwnInv, Mine
  <2> QED
    BY <2>1, <2>2
<1> QED
  BY <1>1, <1>2, <1>5 DEF OneInv

LEMMA OneStep == ASSUME NEW c \in Callers, Alone(c), OneInv(c), [Next]_vars PROVE OneInv(c)'
<1>1. IInv'
  BY StepInv DEF OneInv
<1> USE ObjectAssumption DEF OneInv, OwnInv, OwnCall, Mine, IInv, TypeOK, WorldInv, CallInv, HeldInv,
        Transfers, TransferState, Failed, Created, SourceInitiated, SourceFinalized, Attested,
        DestinationInitiated, DestinationFinalized, world, object, Await, Return, Idle
<1>2. CASE StartInitiate(c)
  BY <1>1, <1>2 DEF StartInitiate
<1>3. CASE TransferReturns(c)
  BY <1>1, <1>3 DEF TransferReturns, Sends
<1>4. CASE TransferThrows(c)
  BY <1>1, <1>4 DEF TransferThrows, Sends
<1>5. CASE StartFetch(c)
  BY <1>1, <1>5 DEF StartFetch, MayFetch
<1>6. CASE MessageFound(c)
  BY <1>1, <1>6 DEF MessageFound
<1>7. CASE VaaFound(c)
  BY <1>1, <1>7 DEF VaaFound
<1>8. CASE FetchThrows(c)
  BY <1>1, <1>8 DEF FetchThrows
<1>9. CASE CompletionChecked(c)
  BY <1>1, <1>9 DEF CompletionChecked, Finalized
<1>10. CASE StartComplete(c)
  BY <1>1, <1>10 DEF StartComplete
<1>11. CASE RedeemLands(c)
  BY <1>1, <1>11 DEF RedeemLands, Redeems
<1>12. CASE RedeemReturns(c)
  BY <1>1, <1>12 DEF RedeemReturns
<1>13. CASE RedeemThrows(c)
  BY <1>1, <1>13 DEF RedeemThrows
<1>14. ASSUME NEW t \in Transfers, MessageVisible(t) PROVE OneInv(c)'
  BY <1>1, <1>14 DEF MessageVisible
<1>15. ASSUME NEW t \in Transfers, GuardiansSign(t) PROVE OneInv(c)'
  BY <1>1, <1>15 DEF GuardiansSign
<1>16. ASSUME NEW t \in Transfers, OthersRedeem(t) PROVE OneInv(c)'
  BY <1>1, <1>16 DEF OthersRedeem, Redeems
<1>17. CASE UNCHANGED vars
  BY <1>1, <1>17 DEF vars
<1>18. ASSUME NEW d \in users PROVE d = c
  BY DEF Alone
<1> QED
  BY <1>2, <1>3, <1>4, <1>5, <1>6, <1>7, <1>8, <1>9, <1>10, <1>11, <1>12, <1>13,
     <1>14, <1>15, <1>16, <1>17, <1>18 DEF Next, Method, World

LEMMA UsersStay == [Next]_vars => users' = users
  BY DEF Next, Method, World, vars, world, StartInitiate, TransferReturns, TransferThrows,
         StartFetch, MessageFound, VaaFound, FetchThrows, CompletionChecked, StartComplete,
         RedeemLands, RedeemReturns, RedeemThrows, MessageVisible, GuardiansSign, OthersRedeem

(* The values behind the names, here and in the two views. *)
USE DEF Failed, Created, SourceInitiated, SourceFinalized, Attested, DestinationInitiated, DestinationFinalized, TransferState, InReview,
        StateView!Failed, StateView!Created, StateView!SourceInitiated, StateView!SourceFinalized, StateView!Attested, StateView!DestinationInitiated, StateView!DestinationFinalized, StateView!TransferState, StateView!InReview, StateView!Follows,
        ReceiptView!Failed, ReceiptView!Created, ReceiptView!SourceInitiated, ReceiptView!SourceFinalized, ReceiptView!Attested, ReceiptView!DestinationInitiated, ReceiptView!DestinationFinalized, ReceiptView!TransferState, ReceiptView!InReview, ReceiptView!Follows

(* What a step may do to the facts about the transfer and to what is shown of it: nothing,
   show more, or let one more thing happen. *)
LEMMA Shown == ASSUME Sole, Sole', Happened' = Happened,
                      state' \in TransferState, state' = state \/ StateView!Shows(state'),
                      ReceiptState' \in TransferState,
                      ReceiptState' = ReceiptState \/ ReceiptView!Shows(ReceiptState')
               PROVE  /\ [StateView!Next]_<<Happened, state>>
                      /\ [ReceiptView!Next]_<<Happened, ReceiptState>>
  BY DEF StateView!Next, ReceiptView!Next

LEMMA Happening == ASSUME Sole, Sole', UNCHANGED state, UNCHANGED ReceiptState,
                          NEW f \in {"message", "vaa", "redeemed"}, f \notin Happened,
                          Happened' = Happened \cup {f},
                          f = "vaa" => "message" \in Happened,
                          f = "redeemed" => "vaa" \in Happened
                   PROVE  /\ [StateView!Next]_<<Happened, state>>
                          /\ [ReceiptView!Next]_<<Happened, ReceiptState>>
<1>1. f \in StateView!Facts /\ f \in ReceiptView!Facts
  BY DEF StateView!Facts, ReceiptView!Facts
<1>2. StateView!Requires(f) \subseteq Happened /\ ReceiptView!Requires(f) \subseteq Happened
  BY DEF StateView!Requires, ReceiptView!Requires
<1>3. StateView!Happens(f) /\ ReceiptView!Happens(f)
  BY <1>2 DEF StateView!Happens, ReceiptView!Happens
<1> QED
  BY <1>1, <1>3 DEF StateView!Next, ReceiptView!Next

LEMMA OneView == ASSUME NEW c \in Callers, Alone(c), OneInv(c), [Next]_vars
                 PROVE  /\ [StateView!Next]_<<Happened, state>>
                        /\ [ReceiptView!Next]_<<Happened, ReceiptState>>
<1> DEFINE Goal == /\ [StateView!Next]_<<Happened, state>>
                   /\ [ReceiptView!Next]_<<Happened, ReceiptState>>
<1> HIDE DEF Goal
<1>0. Sole /\ Sole'
  BY UsersStay DEF Sole, Alone
<1> USE <1>0
<1>1. IInv /\ IInv' /\ OwnInv /\ OwnCall(c) /\ OneInv(c)'
  BY StepInv, OneStep DEF OneInv
<1>2. CASE Happened' = Happened /\ UNCHANGED <<state, ReceiptState>>
  BY <1>2 DEF Goal
<1>3. CASE UNCHANGED <<messages, signed, redeemed, object>>
  BY <1>2, <1>3 DEF Happened, Mine, ReceiptState, object
<1>4. CASE TransferReturns(c)
  <2>1. /\ state = Created /\ origin = 0 /\ id = 0 /\ destTx = FALSE /\ vaa = 0
        /\ UNCHANGED <<messages, signed, redeemed, id, destTx, vaa>>
        /\ state' = SourceInitiated /\ origin' = sent + 1 /\ sent \in Nat
    BY <1>1, <1>4, ObjectAssumption DEF TransferReturns, Sends, OwnCall, OwnInv, IInv, TypeOK
  <2>2. Happened = {} /\ Happened' = {}
    BY <1>1, <2>1 DEF Happened, Mine, IInv, WorldInv
  <2>3. ReceiptState = Created /\ ReceiptState' = SourceInitiated
    BY <2>1 DEF ReceiptState
  <2>4. StateView!Shows(state') /\ ReceiptView!Shows(ReceiptState')
    BY <2>1, <2>2, <2>3 DEF StateView!Shows, ReceiptView!Shows, StateView!Justified,
       ReceiptView!Justified, Follows
  <2> QED
    BY <2>1, <2>2, <2>3, <2>4, Shown DEF Goal
<1>5. CASE MessageFound(c)
  <2>1. /\ state = SourceInitiated /\ id = 0 /\ destTx = FALSE
        /\ origin # 0 /\ origin \in messages
        /\ UNCHANGED <<world, state, origin, destTx>> /\ id' = origin /\ vaa' = 0
    BY <1>1, <1>5 DEF MessageFound, OwnCall, OwnInv
  <2>2. Happened' = Happened /\ "message" \in Happened
    BY <2>1 DEF Happened, Mine, world
  <2>3. ReceiptState = SourceInitiated /\ ReceiptState' = SourceFinalized
    BY <2>1 DEF ReceiptState
  <2>4. ReceiptView!Shows(ReceiptState')
    BY <2>2, <2>3 DEF ReceiptView!Shows, ReceiptView!Justified, Follows
  <2> QED
    BY <2>1, <2>2, <2>3, <2>4, Shown DEF Goal
<1>6. CASE VaaFound(c)
  <2>1. /\ state = SourceInitiated /\ id # 0 /\ destTx = FALSE /\ vaa = 0 /\ id \in signed
        /\ UNCHANGED <<world, origin, destTx, id>> /\ vaa' = id /\ state' = Attested
    BY <1>1, <1>6 DEF VaaFound, OwnCall, OwnInv
  <2>2. Happened' = Happened /\ "vaa" \in Happened
    BY <2>1 DEF Happened, Mine, world
  <2>3. ReceiptState = SourceFinalized /\ ReceiptState' = Attested
    BY <2>1 DEF ReceiptState
  <2>4. StateView!Shows(state') /\ ReceiptView!Shows(ReceiptState')
    BY <2>1, <2>2, <2>3 DEF StateView!Shows, ReceiptView!Shows, StateView!Justified,
       ReceiptView!Justified, Follows
  <2> QED
    BY <2>1, <2>2, <2>3, <2>4, Shown DEF Goal
<1>7. CASE CompletionChecked(c)
  <2>1. /\ state = Attested /\ about[c] = id /\ id # 0
        /\ UNCHANGED <<world, origin, destTx, id, vaa>>
    BY <1>1, <1>7 DEF CompletionChecked, OwnCall, OwnInv
  <2>2. state' = state \/ (state' = DestinationFinalized /\ id \in redeemed)
    BY <1>7, <2>1 DEF CompletionChecked, Finalized
  <2>3. UNCHANGED <<Happened, ReceiptState>> /\ (state' # state => "redeemed" \in Happened)
    BY <2>1, <2>2 DEF Happened, Mine, world, ReceiptState
  <2>4. state' = state \/ StateView!Shows(state')
    BY <2>1, <2>2, <2>3 DEF StateView!Shows, StateView!Justified, Follows
  <2>5. ReceiptState' \in TransferState
    BY DEF ReceiptState
  <2> QED
    BY <2>1, <2>2, <2>3, <2>4, <2>5, Shown DEF Goal
<1>8. CASE RedeemLands(c)
  <2>1. /\ about[c] = id /\ id # 0 /\ id \notin redeemed /\ redeemed' = redeemed \cup {id}
        /\ id \in signed /\ UNCHANGED <<users, sent, messages, signed, object>>
    BY <1>1, <1>8 DEF RedeemLands, Redeems, OwnCall, OwnInv, IInv, CallInv, HeldInv, Attested
  <2>2. UNCHANGED <<state, ReceiptState>>
    BY <2>1 DEF object, ReceiptState
  <2>3. /\ "redeemed" \notin Happened /\ "vaa" \in Happened
        /\ Happened' = Happened \cup {"redeemed"}
    BY <2>1 DEF Happened, Mine, object
  <2> QED
    BY <2>2, <2>3, Happening DEF Goal
<1>9. CASE RedeemReturns(c)
  <2>1. /\ state = Attested /\ id # 0 /\ vaa # 0 /\ destTx = FALSE /\ id \in redeemed
        /\ UNCHANGED <<world, origin, id, vaa>> /\ destTx' = TRUE
        /\ state' = DestinationInitiated
    BY <1>1, <1>9 DEF RedeemReturns, OwnCall, OwnInv, IInv, CallInv
  <2>2. Happened' = Happened /\ "redeemed" \in Happened
    BY <2>1 DEF Happened, Mine, world
  <2>3. ReceiptState = Attested /\ ReceiptState' = DestinationFinalized
    BY <2>1 DEF ReceiptState
  <2>4. StateView!Shows(state') /\ ReceiptView!Shows(ReceiptState')
    BY <2>1, <2>2, <2>3 DEF StateView!Shows, ReceiptView!Shows, StateView!Justified,
       ReceiptView!Justified, Follows
  <2> QED
    BY <2>1, <2>2, <2>3, <2>4, Shown DEF Goal
<1>10. ASSUME NEW t \in Transfers, World(t) PROVE Goal
  <2>1. UNCHANGED <<state, ReceiptState, Mine>>
    BY <1>10 DEF World, MessageVisible, GuardiansSign, OthersRedeem, object, ReceiptState, Mine
  <2>2. CASE MessageVisible(t)
    BY <1>2, <2>1, <2>2, Happening DEF Goal, MessageVisible, Happened
  <2>3. CASE GuardiansSign(t)
    BY <1>2, <2>1, <2>3, Happening DEF Goal, GuardiansSign, Happened
  <2>4. CASE OthersRedeem(t)
    BY <1>2, <2>1, <2>4, Happening DEF Goal, OthersRedeem, Redeems, Happened
  <2> QED
    BY <1>10, <2>2, <2>3, <2>4 DEF World
<1>11. CASE Method(c)
  <2>1. CASE StartFetch(c)
    <3>1. UNCHANGED <<messages, signed, redeemed, object>>
      BY <1>1, <2>1 DEF StartFetch, MayFetch, OwnInv, world, object
    <3> QED
      BY <1>3, <3>1
  <2>2. CASE \/ StartInitiate(c) \/ TransferThrows(c) \/ FetchThrows(c)
             \/ StartComplete(c) \/ RedeemThrows(c)
    <3>1. UNCHANGED <<messages, signed, redeemed, object>>
      BY <2>2 DEF StartInitiate, TransferThrows, FetchThrows, StartComplete, RedeemThrows,
         world, object
    <3> QED
      BY <1>3, <3>1
  <2> QED
    BY <1>4, <1>5, <1>6, <1>7, <1>8, <1>9, <1>11, <2>1, <2>2 DEF Method
<1>12. CASE UNCHANGED vars
  BY <1>3, <1>12 DEF vars, object
<1>13. ASSUME NEW d \in users, Method(d) PROVE Method(c)
  <2>1. d = c
    BY DEF Alone
  <2> QED
    BY <1>13, <2>1
<1>14. CASE Next
  <2>1. CASE \E d \in users : Method(d)
    BY <1>11, <1>13, <2>1
  <2>2. CASE \E t \in Transfers : World(t)
    BY <1>10, <2>2 DEF Goal
  <2> QED
    BY <1>14, <2>1, <2>2 DEF Next
<1> QED
  BY <1>12, <1>14

LEMMA OneViewInit == ASSUME NEW c \in Callers, Alone(c), Init
                     PROVE  StateView!Init /\ ReceiptView!Init
<1>0. Sole
  BY DEF Sole
<1> USE <1>0
<1>1. OneInv(c)
  BY OneInit
<1>2. Happened \in SUBSET StateView!Facts /\ Happened \in SUBSET ReceiptView!Facts
  BY DEF Happened, StateView!Facts, ReceiptView!Facts
<1>3. /\ state \in {Created, Attested, DestinationFinalized}
      /\ state = Created => id = 0 /\ origin = 0
      /\ state # Created => id # 0 /\ vaa # 0 /\ id \in signed
      /\ state = DestinationFinalized => id \in redeemed
      /\ destTx = FALSE
  BY <1>1 DEF Init, OneInv, OwnInv, Mine
<1>4. StateView!Justified(state)
  BY <1>3 DEF StateView!Justified, Happened, Mine
<1>5. ReceiptState = IF state = Created THEN Created ELSE Attested
  BY <1>3 DEF ReceiptState
<1>6. ReceiptView!Justified(ReceiptState)
  BY <1>3, <1>5 DEF ReceiptView!Justified, Happened, Mine
<1> QED
  BY <1>2, <1>3, <1>4, <1>5, <1>6 DEF StateView!Init, ReceiptView!Init

LEMMA AloneInit == Init => AloneInv
  BY InitInv, OneInit DEF AloneInv

LEMMA AloneStep == AloneInv /\ [Next]_vars => AloneInv'
<1> SUFFICES ASSUME AloneInv, [Next]_vars PROVE AloneInv'
  OBVIOUS
<1>1. IInv'
  BY StepInv DEF AloneInv
<1>2. ASSUME NEW c \in Callers, Alone(c)' PROVE OneInv(c)'
  <2>1. Alone(c)
    BY <1>2, UsersStay DEF Alone
  <2> QED
    BY <2>1, OneStep DEF AloneInv
<1> QED
  BY <1>1, <1>2 DEF AloneInv

LEMMA AloneAlways == Spec => []AloneInv
  BY AloneInit, AloneStep, PTL DEF Spec

(* The views are those of a single caller, or nothing is shown. *)
LEMMA ViewsInit == Init => StateView!Init /\ ReceiptView!Init
<1> SUFFICES ASSUME Init PROVE StateView!Init /\ ReceiptView!Init
  OBVIOUS
<1>1. CASE Sole
  <2>1. PICK c \in Callers : Alone(c)
    BY <1>1 DEF Sole
  <2> QED
    BY <1>1, <2>1, OneViewInit
<1>2. CASE ~ Sole
  <2>1. {} \in SUBSET StateView!Facts /\ {} \in SUBSET ReceiptView!Facts
    OBVIOUS
  <2> QED
    BY <1>2, <2>1 DEF StateView!Init, ReceiptView!Init, StateView!Justified, ReceiptView!Justified
<1> QED
  BY <1>1, <1>2

LEMMA ViewsStep == AloneInv /\ [Next]_vars => /\ [StateView!Next]_(StateView!viewVars)
                                              /\ [ReceiptView!Next]_(ReceiptView!viewVars)
<1> SUFFICES ASSUME AloneInv, [Next]_vars
             PROVE  /\ [StateView!Next]_(StateView!viewVars)
                    /\ [ReceiptView!Next]_(ReceiptView!viewVars)
  OBVIOUS
<1>1. Sole' = Sole
  BY UsersStay DEF Sole, Alone
<1>2. CASE Sole
  <2>1. PICK c \in Callers : Alone(c)
    BY <1>2 DEF Sole
  <2> QED
    BY <1>1, <1>2, <2>1, OneView DEF AloneInv, StateView!viewVars, ReceiptView!viewVars
<1>3. CASE ~ Sole
  BY <1>1, <1>3 DEF StateView!viewVars, ReceiptView!viewVars
<1> QED
  BY <1>2, <1>3

(* A single caller that calls the methods in any order, and again when they throw, sees
   getTransferState() and getReceipt() only go forward and never ahead of the chains. *)
THEOREM ObjectImplementsView == Spec => StateImplementsView /\ ReceiptImplementsView
  BY AloneAlways, ViewsInit, ViewsStep, PTL
     DEF Spec, StateImplementsView, ReceiptImplementsView, StateView!Spec, ReceiptView!Spec

(* With a single caller, an attested object always has the VAA that completeTransfer()
   redeems. *)
THEOREM ObjectAttestedCanComplete == Spec => []AttestedCanComplete
<1>1. AloneInv => AttestedCanComplete
  BY DEF AloneInv, OneInv, OwnInv, AttestedCanComplete, Sole
<1> QED
  BY <1>1, AloneAlways, PTL
=============================================================================
