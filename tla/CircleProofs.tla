---------------------------- MODULE CircleProofs ----------------------------
(***************************************************************************)
(* Theorems about CircleTransfer: an attested object can be redeemed and   *)
(* what it says has happened, for any number of callers, calls and         *)
(* lookups that go on behind their back; and the receipts of the object,   *)
(* with one caller, and those of track() only go forward.                  *)
(***************************************************************************)
EXTENDS CircleTransfer, TLAPS

(* The world: nothing happens to a transfer before what it needs. *)
WorldInv == /\ messages \subseteq 1 .. sent
            /\ signed \subseteq messages
            /\ redeemed \subseteq signed

(* A pending call, or a lookup nobody waits for, is about a transfer that is as far as it
   needs it to be. *)
CallInv ==
    /\ \A c \in Callers :
          /\ pc[c] = "attestation" => about[c] \in messages
          /\ pc[c] \in {"check", "redeem", "redeemed"} => about[c] \in signed /\ sig # 0
          /\ pc[c] = "redeemed" => about[c] \in redeemed
    /\ \A l \in detached : l[1] = "attestation" => l[2] \in messages

HeldInv == origin \in 0 .. sent /\ msg = sig

IInv == TypeOK /\ WorldInv /\ CallInv /\ HeldInv /\ AttestedIsRedeemable /\ StateIsTrue

(* The receipt that track() was called with, or has yielded. *)
TrackInv == /\ TrackView!Justified(shown)
            /\ tpc = "parse" => shown = SourceFinalized /\ tracked \in signed
            /\ tpc \in {"message", "attestation", "complete"} => tpc = Entry(shown)
            /\ tpc = "off" => shown \in {Created, DestinationFinalized}
-----------------------------------------------------------------------------
(* With one caller all that is held, looked up or awaited is about one transfer. *)

OwnInv == /\ state = Created <=> Mine = 0
          /\ msg # 0 /\ origin # 0 => msg = origin
          /\ destTx => msg # 0 /\ msg \in redeemed
          /\ \A l \in detached : l[2] = origin /\ origin # 0

OwnCall(c) ==
    /\ pc[c] = "transfer" => state = Created /\ origin = 0 /\ msg = 0
    /\ pc[c] \in {"message", "attestation"} => about[c] = origin /\ origin # 0
    /\ pc[c] \in {"check", "redeem", "redeemed"} => msg # 0 /\ about[c] = msg

Alone(c) == users = {c}

OneInv(c) == IInv /\ OwnInv /\ OwnCall(c)

AloneInv == IInv /\ \A c \in Callers : Alone(c) => OneInv(c)
-----------------------------------------------------------------------------
LEMMA InitInv == Init => IInv
<1> SUFFICES ASSUME Init PROVE IInv
  OBVIOUS
<1> USE CircleAssumption DEF TransferState, Failed, Created, Attested, DestinationFinalized
<1>1. PICK how \in Starts :
              IF how = "details"
              THEN /\ automatic \in BOOLEAN
                   /\ sent = 0 /\ messages = {} /\ signed = {} /\ redeemed = {}
                   /\ state = Created /\ origin = 0 /\ msg = 0 /\ sig = 0
              ELSE /\ automatic = FALSE
                   /\ sent = 1 /\ messages = {1} /\ signed = {1} /\ redeemed \in {{}, {1}}
                   /\ state \in {Attested, DestinationFinalized}
                   /\ state = DestinationFinalized => redeemed = {1}
                   /\ origin = IF how = "transaction" THEN 1 ELSE 0
                   /\ msg = 1 /\ sig = 1
  BY DEF Init
<1>2. /\ destTx = FALSE /\ detached = {} /\ users \subseteq Callers
      /\ pc = [c \in Callers |-> "idle"] /\ about = [c \in Callers |-> 0]
      /\ tracked \in Transfers /\ shown = Created /\ tpc = "off"
  BY DEF Init
<1>3. automatic \in BOOLEAN
  <2>1. CASE how = "details"
    BY <1>1, <2>1
  <2>2. CASE how # "details"
    BY <1>1, <2>2
  <2> QED
    BY <2>1, <2>2
<1>4. /\ sent \in {0, 1} /\ messages \subseteq 1 .. sent
      /\ signed = messages /\ redeemed \subseteq signed
      /\ origin \in 0 .. sent /\ msg \in 0 .. sent /\ sig = msg
      /\ msg # 0 => msg \in signed
      /\ state \in {Created, Attested, DestinationFinalized}
      /\ state # Created => msg # 0
      /\ state = DestinationFinalized => redeemed # {}
  <2>1. CASE how = "details"
    BY <1>1, <2>1
  <2>2. CASE how # "details"
    <3>1. /\ sent = 1 /\ messages = {1} /\ signed = {1} /\ redeemed \in {{}, {1}}
          /\ origin \in {0, 1} /\ msg = 1 /\ sig = 1
      BY <1>1, <2>2
    <3>2. /\ state \in {Attested, DestinationFinalized}
          /\ state = DestinationFinalized => redeemed = {1}
      BY <1>1, <2>2
    <3>3. 1 .. 1 = {1} /\ 0 .. 1 = {0, 1}
      OBVIOUS
    <3> QED
      BY <3>1, <3>2, <3>3
  <2> QED
    BY <2>1, <2>2
<1>5. TypeOK
  <2>1. /\ sent \in 0 .. MaxTransfers /\ 1 .. sent \subseteq Transfers
        /\ 0 .. sent \subseteq 0 .. MaxTransfers
    BY <1>4 DEF Transfers
  <2>2. pc \in [Callers -> {"idle", "transfer", "message", "attestation", "check",
                            "redeem", "redeemed"}]
    BY <1>2
  <2>3. about \in [Callers -> 0 .. MaxTransfers]
    BY <1>2
  <2>4. destTx \in BOOLEAN /\ detached \subseteq Lookups
    BY <1>2
  <2>5. state \in TransferState /\ shown \in TransferState
    BY <1>2, <1>4
  <2>6. messages \subseteq Transfers /\ signed \subseteq Transfers /\ redeemed \subseteq Transfers
    BY <1>4, <2>1
  <2>7. /\ origin \in 0 .. MaxTransfers /\ msg \in 0 .. MaxTransfers
        /\ sig \in 0 .. MaxTransfers
    BY <1>4, <2>1
  <2> QED
    BY <1>2, <1>3, <2>1, <2>2, <2>3, <2>4, <2>5, <2>6, <2>7 DEF TypeOK
<1>6. WorldInv /\ CallInv
  BY <1>2, <1>4 DEF WorldInv, CallInv
<1>7. HeldInv /\ AttestedIsRedeemable
  BY <1>4 DEF HeldInv, AttestedIsRedeemable
<1>8. StateIsTrue
  BY <1>2, <1>4 DEF StateIsTrue
<1> QED
  BY <1>5, <1>6, <1>7, <1>8 DEF IInv

LEMMA StepInv == IInv /\ [Next]_vars => IInv'
<1> SUFFICES ASSUME IInv, [Next]_vars PROVE IInv'
  OBVIOUS
<1> USE CircleAssumption DEF IInv, TypeOK, Lookups, WorldInv, CallInv, HeldInv, AttestedIsRedeemable, StateIsTrue,
        Transfers, TransferState, Failed, Created, SourceInitiated, SourceFinalized, Attested,
        DestinationInitiated, DestinationFinalized, chains, object, calls, tracker,
        Await, Return, Idle, MayFetch
<1>1. ASSUME NEW c \in Callers, StartInitiate(c) PROVE IInv'
  BY <1>1 DEF StartInitiate
<1>2. ASSUME NEW c \in Callers, TransferReturns(c) PROVE IInv'
  <2>1. destTx' \in BOOLEAN /\ automatic' \in BOOLEAN
    BY <1>2 DEF TransferReturns
  <2>2. TypeOK'
    BY <1>2, <2>1 DEF TransferReturns, Sends
  <2>3. WorldInv' /\ CallInv' /\ HeldInv'
    BY <1>2 DEF TransferReturns, Sends
  <2>4. AttestedIsRedeemable' /\ StateIsTrue'
    BY <1>2 DEF TransferReturns
  <2> QED
    BY <2>2, <2>3, <2>4
<1>3. ASSUME NEW c \in Callers, TransferThrows(c) PROVE IInv'
  BY <1>3 DEF TransferThrows, Sends
<1>4. ASSUME NEW c \in Callers, StartCheck(c) PROVE IInv'
  BY <1>4 DEF StartCheck
<1>5. ASSUME NEW c \in Callers, StartFetch(c) PROVE IInv'
  BY <1>5 DEF StartFetch
<1>6. ASSUME NEW c \in Callers, FetchAutomatic(c) PROVE IInv'
  <2>1. <<"message", origin>> \in Lookups
    BY <1>6 DEF FetchAutomatic
  <2> QED
    BY <1>6, <2>1 DEF FetchAutomatic, LooksUp
<1>7. ASSUME NEW c \in Callers, MessageFound(c) PROVE IInv'
  BY <1>7 DEF MessageFound
<1>8. ASSUME NEW c \in Callers, AttestationFound(c) PROVE IInv'
  BY <1>8 DEF AttestationFound, Assigns
<1>9. ASSUME NEW c \in Callers, FetchThrows(c) PROVE IInv'
  BY <1>9 DEF FetchThrows
<1>10. ASSUME NEW c \in Callers, NEW completed \in BOOLEAN, CompletionChecked(c, completed)
       PROVE  IInv'
  <2>1. state' = state \/ (state' = DestinationFinalized /\ about[c] \in redeemed)
    BY <1>10 DEF CompletionChecked, Finalized
  <2>2. /\ pc[c] = "check" /\ Return(c)
        /\ UNCHANGED <<chains, origin, destTx, msg, sig, detached, tracker>>
    BY <1>10 DEF CompletionChecked
  <2>3. state' \in TransferState /\ pc' \in [Callers -> {"idle", "transfer", "message",
            "attestation", "check", "redeem", "redeemed"}] /\ about' \in [Callers -> 0 .. MaxTransfers]
    BY <2>1, <2>2
  <2>4. TypeOK'
    BY <2>2, <2>3
  <2>5. CallInv' /\ WorldInv' /\ HeldInv'
    BY <2>2
  <2>6. AttestedIsRedeemable'
    BY <2>1, <2>2
  <2>7. StateIsTrue'
    BY <2>1, <2>2
  <2> QED
    BY <2>4, <2>5, <2>6, <2>7
<1>11. ASSUME NEW c \in Callers, StartComplete(c) PROVE IInv'
  BY <1>11 DEF StartComplete
<1>12. ASSUME NEW c \in Callers, RedeemLands(c) PROVE IInv'
  BY <1>12 DEF RedeemLands, Redeems
<1>13. ASSUME NEW c \in Callers, RedeemReturns(c) PROVE IInv'
  BY <1>13 DEF RedeemReturns
<1>14. ASSUME NEW c \in Callers, RedeemThrows(c) PROVE IInv'
  BY <1>14 DEF RedeemThrows
<1>15. ASSUME NEW t \in Transfers, DetachedMessage(t) PROVE IInv'
  BY <1>15 DEF DetachedMessage
<1>16. ASSUME NEW t \in Transfers, DetachedAttestation(t) PROVE IInv'
  BY <1>16 DEF DetachedAttestation, Assigns
<1>17. ASSUME NEW l, DetachedFails(l) PROVE IInv'
  BY <1>17 DEF DetachedFails
<1>18. ASSUME NEW t \in Transfers, MessageVisible(t) PROVE IInv'
  BY <1>18 DEF MessageVisible
<1>19. ASSUME NEW t \in Transfers, CircleAttests(t) PROVE IInv'
  BY <1>19 DEF CircleAttests
<1>20. ASSUME NEW t \in Transfers, OthersRedeem(t) PROVE IInv'
  BY <1>20 DEF OthersRedeem, Redeems
<1>21. CASE Track
  <2>1. /\ UNCHANGED <<chains, object, detached, calls, tracked>>
        /\ shown' \in TransferState
        /\ tpc' \in {"off", "message", "attestation", "parse", "complete"}
    BY <1>21 DEF Track, StartTrack, TrackMessage, TrackAttestation, TrackParse, TrackAgain,
       TrackComplete, Tracker, TrackFrom, Entry, ReceiptState
  <2> QED
    BY <2>1
<1>22. CASE UNCHANGED vars
  BY <1>22 DEF vars
<1> QED
  BY <1>1, <1>2, <1>3, <1>4, <1>5, <1>6, <1>7, <1>8, <1>9, <1>10, <1>11, <1>12, <1>13, <1>14,
     <1>15, <1>16, <1>17, <1>18, <1>19, <1>20, <1>21, <1>22
     DEF Next, Calls, Fetches, Returns, Lookup, World

(* The invariant of the object, whoever uses it and however many at once. *)
THEOREM CircleInvariant == Spec => []IInv
  BY InitInv, StepInv, PTL DEF Spec

(* However many calls and lookups of former calls run at the same time, an attested object
   has a message and its own signatures. *)
THEOREM CircleAttestedIsRedeemable == Spec => []AttestedIsRedeemable
<1>1. IInv => AttestedIsRedeemable
  BY DEF IInv
<1> QED
  BY <1>1, CircleInvariant, PTL

(* The state never runs ahead of Circle or of the destination chain. *)
THEOREM CircleStateIsTrue == Spec => []StateIsTrue
<1>1. IInv => StateIsTrue
  BY DEF IInv
<1> QED
  BY <1>1, CircleInvariant, PTL
-----------------------------------------------------------------------------
(* One caller *)

LEMMA OneInit == ASSUME NEW c \in Callers, Alone(c), Init PROVE OneInv(c)
<1> USE CircleAssumption DEF Failed, Created, SourceInitiated, Attested,
        DestinationInitiated, DestinationFinalized
<1>1. IInv
  BY InitInv
<1>2. OwnCall(c)
  BY DEF Init, OwnCall
<1>3. destTx = FALSE /\ detached = {}
  BY DEF Init
<1>4. /\ state = Created => origin = 0 /\ msg = 0
      /\ state # Created => msg = 1 /\ origin \in {0, 1}
  BY DEF Init
<1>5. OwnInv
  BY SMTT(30), <1>3, <1>4 DEF OwnInv, Mine
<1> QED
  BY <1>1, <1>2, <1>5 DEF OneInv

LEMMA OneStep == ASSUME NEW c \in Callers, Alone(c), OneInv(c), [Next]_vars PROVE OneInv(c)'
<1>1. IInv'
  BY StepInv DEF OneInv
<1> USE CircleAssumption DEF OneInv, OwnInv, OwnCall, Mine, IInv, TypeOK, Lookups, WorldInv, CallInv,
        HeldInv, AttestedIsRedeemable, Transfers, TransferState, Failed, Created, SourceInitiated,
        SourceFinalized, Attested, DestinationInitiated, DestinationFinalized, chains, object,
        calls, tracker, Await, Return, Idle, MayFetch
<1>2. CASE StartInitiate(c)
  BY <1>1, <1>2 DEF StartInitiate
<1>3. CASE TransferReturns(c)
  BY <1>1, <1>3 DEF TransferReturns, Sends
<1>4. CASE TransferThrows(c)
  BY <1>1, <1>4 DEF TransferThrows, Sends
<1>5. CASE StartCheck(c)
  BY <1>1, <1>5 DEF StartCheck
<1>6. CASE StartFetch(c)
  BY <1>1, <1>6 DEF StartFetch
<1>7. CASE FetchAutomatic(c)
  BY <1>1, <1>7 DEF FetchAutomatic, LooksUp
<1>8. CASE MessageFound(c)
  BY <1>1, <1>8 DEF MessageFound
<1>9. CASE AttestationFound(c)
  BY <1>1, <1>9 DEF AttestationFound, Assigns
<1>10. CASE FetchThrows(c)
  BY <1>1, <1>10 DEF FetchThrows
<1>11. ASSUME NEW completed \in BOOLEAN, CompletionChecked(c, completed) PROVE OneInv(c)'
  <2>1. state' \in {state, DestinationFinalized} /\ msg # 0
    BY <1>11 DEF CompletionChecked, Finalized
  <2>2. /\ pc[c] = "check" /\ Return(c)
        /\ UNCHANGED <<chains, origin, destTx, msg, sig, detached, tracker>>
    BY <1>11 DEF CompletionChecked
  <2>3. OwnInv'
    BY <2>1, <2>2
  <2>4. OwnCall(c)'
    BY <2>2
  <2> QED
    BY <1>1, <2>3, <2>4
<1>12. CASE StartComplete(c)
  BY <1>1, <1>12 DEF StartComplete
<1>13. CASE RedeemLands(c)
  BY <1>1, <1>13 DEF RedeemLands, Redeems
<1>14. CASE RedeemReturns(c)
  BY <1>1, <1>14 DEF RedeemReturns
<1>15. CASE RedeemThrows(c)
  BY <1>1, <1>15 DEF RedeemThrows
<1>16. ASSUME NEW t \in Transfers, DetachedMessage(t) PROVE OneInv(c)'
  BY <1>1, <1>16 DEF DetachedMessage
<1>17. ASSUME NEW t \in Transfers, DetachedAttestation(t) PROVE OneInv(c)'
  BY <1>1, <1>17 DEF DetachedAttestation, Assigns
<1>18. ASSUME NEW l, DetachedFails(l) PROVE OneInv(c)'
  BY <1>1, <1>18 DEF DetachedFails
<1>19. ASSUME NEW t \in Transfers, World(t) PROVE OneInv(c)'
  <2>1. UNCHANGED <<object, detached, calls>> /\ redeemed \subseteq redeemed'
    BY <1>19 DEF World, MessageVisible, CircleAttests, OthersRedeem, Redeems
  <2> QED
    BY <1>1, <2>1
<1>20. CASE Track
  <2>1. UNCHANGED <<chains, object, detached, calls>>
    BY <1>20 DEF Track, StartTrack, TrackMessage, TrackAttestation, TrackParse, TrackAgain,
       TrackComplete, Tracker
  <2> QED
    BY <1>1, <2>1
<1>21. CASE UNCHANGED vars
  BY <1>1, <1>21 DEF vars
<1>22. ASSUME NEW d \in users PROVE d = c
  BY DEF Alone
<1> QED
  BY <1>2, <1>3, <1>4, <1>5, <1>6, <1>7, <1>8, <1>9, <1>10, <1>11, <1>12, <1>13, <1>14,
     <1>15, <1>16, <1>17, <1>18, <1>19, <1>20, <1>21, <1>22
     DEF Next, Calls, Fetches, Returns, Lookup

LEMMA UsersStay == [Next]_vars => users' = users
  BY DEF Next, Calls, Fetches, Returns, Lookup, World, Track, vars, chains, StartInitiate,
         TransferReturns, TransferThrows, StartCheck, StartFetch, FetchAutomatic, MessageFound,
         AttestationFound, FetchThrows, CompletionChecked, StartComplete, RedeemLands,
         RedeemReturns, RedeemThrows, DetachedMessage, DetachedAttestation, DetachedFails,
         MessageVisible, CircleAttests, OthersRedeem, StartTrack, TrackMessage,
         TrackAttestation, TrackParse, TrackAgain, TrackComplete, Tracker

LEMMA AloneInit == Init => AloneInv
  BY InitInv, OneInit DEF AloneInv

LEMMA AloneStep == AloneInv /\ [Next]_vars => AloneInv'
<1> SUFFICES ASSUME AloneInv, [Next]_vars PROVE AloneInv'
  OBVIOUS
<1>1. IInv'
  BY StepInv DEF AloneInv
<1>2. ASSUME NEW c \in Callers, Alone(c)' PROVE OneInv(c)'
  <2>1. Alone(c)
    BY <1>2, UsersStay DEF Alone
  <2> QED
    BY <2>1, OneStep DEF AloneInv
<1> QED
  BY <1>1, <1>2 DEF AloneInv

LEMMA AloneAlways == Spec => []AloneInv
  BY AloneInit, AloneStep, PTL DEF Spec
-----------------------------------------------------------------------------
(* The values behind the names, here and in the two views. *)
USE DEF Failed, Created, SourceInitiated, SourceFinalized, InReview, Attested,
        DestinationInitiated, DestinationFinalized, TransferState,
        ReceiptView!Failed, ReceiptView!Created, ReceiptView!SourceInitiated, ReceiptView!SourceFinalized, ReceiptView!InReview, ReceiptView!Attested, ReceiptView!DestinationInitiated, ReceiptView!DestinationFinalized, ReceiptView!TransferState, ReceiptView!Follows,
        TrackView!Failed, TrackView!Created, TrackView!SourceInitiated, TrackView!SourceFinalized, TrackView!InReview, TrackView!Attested, TrackView!DestinationInitiated, TrackView!DestinationFinalized, TrackView!TransferState, TrackView!Follows

(* One thing happens to one transfer at a time, and nothing else changes that is shown. *)
March(t) ==
    \/ t \notin messages /\ messages' = messages \cup {t} /\ UNCHANGED <<signed, redeemed>>
    \/ t \in messages \ signed /\ signed' = signed \cup {t} /\ UNCHANGED <<messages, redeemed>>
    \/ t \in signed \ redeemed /\ redeemed' = redeemed \cup {t} /\ UNCHANGED <<messages, signed>>

LEMMA Marches == ASSUME IInv, [Next]_vars
                 PROVE  \/ UNCHANGED <<messages, signed, redeemed>>
                        \/ UNCHANGED <<object, tracker>> /\ \E t \in Transfers : March(t)
<1> DEFINE Goal == \/ UNCHANGED <<messages, signed, redeemed>>
                   \/ UNCHANGED <<object, tracker>> /\ \E t \in Transfers : March(t)
<1> SUFFICES Goal
  OBVIOUS
<1> HIDE DEF Goal
<1>1. ASSUME NEW t \in Transfers, World(t) PROVE Goal
  BY <1>1 DEF Goal, World, MessageVisible, CircleAttests, OthersRedeem, Redeems, March
<1>2. ASSUME NEW c \in Callers, RedeemLands(c) PROVE Goal
  <2>1. /\ UNCHANGED <<messages, signed, object, tracker>>
        /\ about[c] \in signed \ redeemed /\ redeemed' = redeemed \cup {about[c]}
    BY <1>2 DEF RedeemLands, Redeems, IInv, CallInv
  <2>2. about[c] \in Transfers
    BY <2>1 DEF IInv, TypeOK
  <2> QED
    BY <2>1, <2>2 DEF Goal, March
<1>3. ASSUME NEW c \in Callers, Calls(c) PROVE Goal
  BY <1>3 DEF Goal, Calls, Fetches, StartInitiate, StartCheck, StartFetch, FetchAutomatic,
     StartComplete, chains
<1>4. ASSUME NEW c \in Callers, Returns(c) PROVE Goal
  BY <1>2, <1>4 DEF Goal, Returns, TransferReturns, TransferThrows, MessageFound,
     AttestationFound, FetchThrows, CompletionChecked, RedeemReturns, RedeemThrows, chains
<1>5. ASSUME NEW t \in Transfers, Lookup(t) PROVE Goal
  BY <1>5 DEF Goal, Lookup, DetachedMessage, DetachedAttestation, DetachedFails, chains
<1>6. CASE Track
  BY <1>6 DEF Goal, Track, StartTrack, TrackMessage, TrackAttestation, TrackParse, TrackAgain,
     TrackComplete, Tracker, chains
<1>7. CASE UNCHANGED vars
  BY <1>7 DEF Goal, vars, chains
<1>8. users \subseteq Callers
  BY DEF IInv, TypeOK
<1> QED
  BY <1>1, <1>3, <1>4, <1>5, <1>6, <1>7, <1>8 DEF Next
-----------------------------------------------------------------------------
(* The receipts of track(). *)

LEMMA TrackInit == Init => TrackInv /\ TrackView!Init
<1> SUFFICES ASSUME Init PROVE TrackInv /\ TrackView!Init
  OBVIOUS
<1>1. shown = Created /\ tpc = "off"
  BY DEF Init
<1>2. TrackView!Justified(shown)
  BY <1>1 DEF TrackView!Justified
<1>3. FactsOf(tracked) \in SUBSET TrackView!Facts
  BY DEF FactsOf, TrackView!Facts
<1> QED
  BY <1>1, <1>2, <1>3 DEF TrackInv, TrackView!Init

(* What is shown was not made up, and track() goes on where its receipt belongs. *)
LEMMA TrackMoves == ASSUME AloneInv, TrackInv, Track
                    PROVE  /\ UNCHANGED <<messages, signed, redeemed, tracked>>
                           /\ shown' = shown \/ TrackView!Shows(shown')
                           /\ shown' \in TransferState
                           /\ TrackInv'
<1> USE DEF TrackFrom, Entry, Tracker, chains
<1> DEFINE Goal == /\ UNCHANGED <<messages, signed, redeemed, tracked>>
                   /\ shown' = shown \/ TrackView!Shows(shown')
                   /\ shown' \in TransferState
                   /\ TrackInv'
<1> SUFFICES Goal
  OBVIOUS
<1> HIDE DEF Goal
<1>1. ASSUME UNCHANGED <<messages, signed, redeemed, tracked>>,
             shown' \in {Created, SourceInitiated, SourceFinalized, Attested, DestinationInitiated,
                        DestinationFinalized},
             tpc' = Entry(shown'),
             TrackView!Justified(shown'),
             shown' = shown \/ Follows(shown, shown')
      PROVE  Goal
  <2>1. UNCHANGED FactsOf(tracked)
    BY <1>1 DEF FactsOf
  <2>2. TrackView!Justified(shown)'
    BY <1>1, <2>1 DEF TrackView!Justified
  <2>3. TrackInv'
    BY <1>1, <2>2 DEF TrackInv
  <2>4. shown' = shown \/ TrackView!Shows(shown')
    BY <1>1, <2>1 DEF TrackView!Shows, Follows
  <2> QED
    BY <1>1, <2>3, <2>4 DEF Goal
<1>2. shown \in TransferState /\ IInv
  BY DEF AloneInv, IInv, TypeOK
<1>3. CASE StartTrack
  <2>1. PICK c \in Callers : Alone(c)
    BY <1>3 DEF StartTrack, Sole, Alone
  <2>2. /\ OwnInv /\ shown = Created /\ Mine = tracked /\ tracked # 0
        /\ UNCHANGED <<messages, signed, redeemed, tracked>> /\ tpc' = Entry(shown')
        /\ \/ shown' = ReceiptState
           \/ tracked \in messages /\ shown' = SourceFinalized
    BY <1>2, <1>3, <2>1 DEF StartTrack, AloneInv, OneInv, IInv, TypeOK, Transfers, Mine
  <2>3. CASE shown' = SourceFinalized /\ tracked \in messages
    <3>1. TrackView!Justified(shown')
      BY <2>3 DEF TrackView!Justified, FactsOf
    <3> QED
      BY <1>1, <2>2, <2>3, <3>1 DEF Follows
  <2>4. CASE shown' = ReceiptState
    <3>1. msg # 0 => msg \in signed /\ tracked = msg
      BY <1>2, <2>2 DEF IInv, HeldInv, AttestedIsRedeemable, Mine
    <3>2. destTx => msg \in redeemed /\ msg # 0
      BY <2>2 DEF OwnInv
    <3>3. TrackView!Justified(shown')
      BY <2>4, <3>1, <3>2 DEF TrackView!Justified, FactsOf, ReceiptState
    <3> QED
      BY <1>1, <2>2, <2>4, <3>3 DEF Follows, ReceiptState
  <2> QED
    BY <2>2, <2>3, <2>4
<1>4. CASE TrackMessage
  <2>1. /\ shown = SourceInitiated /\ shown' = SourceFinalized /\ tracked \in messages
        /\ UNCHANGED <<messages, signed, redeemed, tracked>> /\ tpc' = Entry(shown')
    BY <1>4 DEF TrackMessage, TrackInv
  <2> QED
    BY <1>1, <2>1 DEF Follows, TrackView!Justified, FactsOf
<1>5. CASE TrackAttestation
  <2>1. /\ UNCHANGED <<messages, signed, redeemed, tracked, shown>>
        /\ tpc' = "parse" /\ tracked \in signed /\ shown = SourceFinalized
    BY <1>5 DEF TrackAttestation, TrackInv
  <2>2. UNCHANGED FactsOf(tracked)
    BY <2>1 DEF FactsOf
  <2>3. TrackInv'
    BY <2>1, <2>2 DEF TrackInv, TrackView!Justified
  <2> QED
    BY <1>2, <2>1, <2>3 DEF Goal
<1>6. CASE TrackParse
  <2>1. /\ shown = SourceFinalized /\ shown' = Attested /\ tracked \in signed
        /\ UNCHANGED <<messages, signed, redeemed, tracked>> /\ tpc' = Entry(shown')
    BY <1>6 DEF TrackParse, TrackInv
  <2> QED
    BY <1>1, <2>1 DEF Follows, TrackView!Justified, FactsOf
<1>7. CASE TrackAgain
  <2>1. /\ tpc # "off" /\ shown' = shown /\ TrackView!Justified(shown)
        /\ shown \in {SourceInitiated, SourceFinalized, Attested, DestinationInitiated}
        /\ UNCHANGED <<messages, signed, redeemed, tracked>> /\ tpc' = Entry(shown')
    BY <1>7, <1>2 DEF TrackAgain, TrackInv
  <2> QED
    BY <1>1, <2>1
<1>8. CASE TrackComplete
  <2>1. /\ shown \in {Attested, DestinationInitiated} /\ shown' = DestinationFinalized
        /\ tracked \in redeemed
        /\ UNCHANGED <<messages, signed, redeemed, tracked>> /\ tpc' = Entry(shown')
    BY <1>8 DEF TrackComplete, AsksDestination
  <2> QED
    BY <1>1, <2>1 DEF Follows, TrackView!Justified, FactsOf
<1> QED
  BY <1>3, <1>4, <1>5, <1>6, <1>7, <1>8 DEF Track

(* What a march does to the facts about one transfer. *)
LEMMA MarchFacts ==
    ASSUME IInv, NEW t \in Transfers, March(t), NEW m
    PROVE  \/ UNCHANGED FactsOf(m)
           \/ \E f \in {"message", "vaa", "redeemed"} :
                 /\ f \notin FactsOf(m)
                 /\ FactsOf(m)' = FactsOf(m) \cup {f}
                 /\ f = "vaa" => "message" \in FactsOf(m)
                 /\ f = "redeemed" => "vaa" \in FactsOf(m)
<1>1. CASE t # m
  BY <1>1 DEF March, FactsOf
<1>2. CASE t = m
  BY <1>2 DEF March, FactsOf
<1> QED
  BY <1>1, <1>2

LEMMA TrackerStays == ASSUME [Next]_vars PROVE Track \/ UNCHANGED tracker
  BY DEF Next, Calls, Fetches, Returns, Lookup, World, vars, StartInitiate,
         TransferReturns, TransferThrows, StartCheck, StartFetch, FetchAutomatic, MessageFound,
         AttestationFound, FetchThrows, CompletionChecked, StartComplete, RedeemLands,
         RedeemReturns, RedeemThrows, DetachedMessage, DetachedAttestation, DetachedFails,
         MessageVisible, CircleAttests, OthersRedeem

(* What has been shown stays justified while more happens to the transfer. *)
LEMMA TrackStays ==
    ASSUME TrackInv, UNCHANGED tracker, signed \subseteq signed',
           FactsOf(tracked) \subseteq FactsOf(tracked)'
    PROVE  TrackInv'
<1>1. UNCHANGED <<tracked, shown, tpc>>
  BY DEF tracker
<1>2. TrackView!Justified(shown)'
  BY <1>1 DEF TrackInv, TrackView!Justified
<1>3. tpc = "parse" => shown = SourceFinalized /\ tracked \in signed'
  BY DEF TrackInv
<1> QED
  BY <1>1, <1>2, <1>3 DEF TrackInv, Entry

LEMMA TrackStep ==
    ASSUME AloneInv, TrackInv, [Next]_vars
    PROVE  TrackInv' /\ [TrackView!Next]_(TrackView!viewVars)
<1> USE DEF TrackView!viewVars
<1>1. IInv
  BY DEF AloneInv
<1>2. CASE Track
  <2>1. /\ UNCHANGED <<messages, signed, redeemed, tracked>>
        /\ shown' = shown \/ TrackView!Shows(shown')
        /\ shown' \in TransferState
        /\ TrackInv'
    BY <1>2, TrackMoves
  <2>2. UNCHANGED FactsOf(tracked)
    BY <2>1 DEF FactsOf
  <2> QED
    BY <2>1, <2>2 DEF TrackView!Next
<1>3. CASE UNCHANGED <<messages, signed, redeemed>> /\ UNCHANGED tracker
  <2>1. UNCHANGED <<FactsOf(tracked), shown>>
    BY <1>3 DEF FactsOf, tracker
  <2>2. TrackInv'
    BY <1>3, <2>1, TrackStays
  <2> QED
    BY <2>1, <2>2
<1>4. ASSUME UNCHANGED tracker, NEW t \in Transfers, March(t)
      PROVE  TrackInv' /\ [TrackView!Next]_(TrackView!viewVars)
  <2>1. PICK m : m = tracked
    OBVIOUS
  <2>2. UNCHANGED <<tracked, shown>>
    BY <1>4 DEF tracker
  <2>3. FactsOf(tracked) = FactsOf(m) /\ FactsOf(tracked)' = FactsOf(m)'
    BY <2>1, <2>2
  <2>4. signed \subseteq signed' /\ FactsOf(m) \subseteq FactsOf(m)'
    BY <1>4 DEF March, FactsOf
  <2>5. TrackInv'
    BY <1>4, <2>3, <2>4, TrackStays
  <2>6. CASE UNCHANGED FactsOf(m)
    BY <2>2, <2>3, <2>5, <2>6
  <2>7. ASSUME NEW f \in {"message", "vaa", "redeemed"},
               f \notin FactsOf(m), FactsOf(m)' = FactsOf(m) \cup {f},
               f = "vaa" => "message" \in FactsOf(m), f = "redeemed" => "vaa" \in FactsOf(m)
        PROVE  [TrackView!Next]_(TrackView!viewVars)
    <3>1. f \in TrackView!Facts /\ TrackView!Requires(f) \subseteq FactsOf(tracked)
      BY <2>3, <2>7 DEF TrackView!Facts, TrackView!Requires
    <3>2. TrackView!Happens(f)
      BY <2>2, <2>3, <2>7, <3>1 DEF TrackView!Happens
    <3> QED
      BY <3>1, <3>2 DEF TrackView!Next
  <2>8. \/ UNCHANGED FactsOf(m)
        \/ \E f \in {"message", "vaa", "redeemed"} :
                 /\ f \notin FactsOf(m)
                 /\ FactsOf(m)' = FactsOf(m) \cup {f}
                 /\ f = "vaa" => "message" \in FactsOf(m)
                 /\ f = "redeemed" => "vaa" \in FactsOf(m)
    BY <1>1, <1>4, MarchFacts
  <2> QED
    BY <2>5, <2>6, <2>7, <2>8
<1>5. CASE Track \/ UNCHANGED <<messages, signed, redeemed>>
  BY <1>2, <1>3, <1>5, TrackerStays
<1>6. CASE UNCHANGED <<object, tracker>> /\ \E t \in Transfers : March(t)
  BY <1>4, <1>6
<1> QED
  BY <1>1, <1>5, <1>6, Marches

(* The receipts that track() yields to an application that calls it again and again, with
   the receipt it was shown last, only go forward and show only what has happened. *)
THEOREM CircleTrackImplementsView == Spec => TrackImplementsView
<1>1. Init => TrackInv /\ TrackView!Init
  BY TrackInit
<1>2. AloneInv /\ TrackInv /\ [Next]_vars => TrackInv' /\ [TrackView!Next]_(TrackView!viewVars)
  BY TrackStep
<1> QED
  BY <1>1, <1>2, AloneAlways, PTL DEF Spec, TrackImplementsView, TrackView!Spec
-----------------------------------------------------------------------------
(* The receipt of the object, with one caller. *)

Shown == UNCHANGED <<origin, destTx, msg>>

(* Only four steps change what a receipt is made of. *)
LEMMA ObjectMoves ==
    ASSUME NEW c \in Callers, Alone(c), [Next]_vars
    PROVE  \/ Shown \/ TransferReturns(c) \/ AttestationFound(c) \/ RedeemReturns(c)
           \/ \E t \in Transfers : DetachedAttestation(t)
<1> USE DEF Shown, object
<1>1. ASSUME NEW t \in Transfers, World(t) PROVE Shown
  BY <1>1 DEF World, MessageVisible, CircleAttests, OthersRedeem
<1>2. ASSUME NEW t \in Transfers, Lookup(t) PROVE Shown \/ DetachedAttestation(t)
  BY <1>2 DEF Lookup, DetachedMessage, DetachedFails
<1>3. CASE Track
  BY <1>3 DEF Track, StartTrack, TrackMessage, TrackAttestation, TrackParse, TrackAgain,
     TrackComplete, Tracker
<1>4. CASE Calls(c)
  BY <1>4 DEF Calls, Fetches, StartInitiate, StartCheck, StartFetch, FetchAutomatic, StartComplete
<1>5. CASE Returns(c)
  BY <1>5 DEF Returns, TransferThrows, MessageFound, FetchThrows, CompletionChecked,
     RedeemLands, RedeemThrows
<1>6. ASSUME NEW d \in users PROVE d = c
  BY DEF Alone
<1>7. CASE UNCHANGED vars
  BY <1>7 DEF vars
<1> QED
  BY <1>1, <1>2, <1>3, <1>4, <1>5, <1>6, <1>7 DEF Next

LEMMA OneView ==
    ASSUME NEW c \in Callers, Alone(c), OneInv(c), [Next]_vars
    PROVE  [ReceiptView!Next]_<<FactsOf(Mine), ReceiptState>>
<1> DEFINE Goal == [ReceiptView!Next]_<<FactsOf(Mine), ReceiptState>>
<1> SUFFICES Goal
  OBVIOUS
<1>0. Sole /\ Sole'
  BY UsersStay DEF Sole, Alone
<1>1. IInv /\ OwnInv /\ OwnCall(c)
  BY DEF OneInv
<1> USE <1>0
<1>2. ASSUME UNCHANGED FactsOf(Mine), ReceiptState' \in TransferState,
             ReceiptView!Justified(ReceiptState'), Follows(ReceiptState, ReceiptState')
      PROVE  Goal
  BY <1>2 DEF ReceiptView!Next, ReceiptView!Shows, Follows
<1> HIDE DEF Goal
<1>3. CASE UNCHANGED <<messages, signed, redeemed>> /\ Shown
  <2>1. UNCHANGED <<FactsOf(Mine), ReceiptState>>
    BY <1>3 DEF Shown, FactsOf, Mine, ReceiptState
  <2> QED
    BY <2>1 DEF Goal
<1>4. CASE TransferReturns(c)
  <2>1. /\ origin = 0 /\ msg = 0 /\ destTx = FALSE /\ origin' = sent + 1 /\ sent \in Nat
        /\ UNCHANGED <<messages, signed, redeemed, msg>> /\ destTx' = FALSE
    BY <1>1, <1>4, CircleAssumption DEF TransferReturns, Sends, OwnCall, OwnInv, IInv, TypeOK
  <2>2. 0 \notin messages /\ 0 \notin signed /\ 0 \notin redeemed
    BY <1>1 DEF IInv, TypeOK, Transfers
  <2>3. sent + 1 \notin messages /\ sent + 1 \notin signed /\ sent + 1 \notin redeemed
    BY <1>1, <2>1 DEF IInv, WorldInv
  <2>4. Mine = 0 /\ Mine' = sent + 1
    BY <2>1 DEF Mine
  <2>5. FactsOf(Mine) = {} /\ FactsOf(Mine)' = {}
    BY <2>1, <2>2, <2>3, <2>4 DEF FactsOf
  <2>6. ReceiptState = Created /\ ReceiptState' = SourceInitiated
    BY <2>1 DEF ReceiptState
  <2> QED
    BY <1>2, <2>5, <2>6 DEF ReceiptView!Justified, Follows
<1>5. ASSUME origin # 0, origin \in signed, msg' = origin,
             UNCHANGED <<messages, signed, redeemed, origin, destTx>>
      PROVE  Goal
  <2>1. Mine = origin /\ Mine' = origin
    BY <1>1, <1>5 DEF Mine, OwnInv
  <2>2. UNCHANGED FactsOf(Mine) /\ "vaa" \in FactsOf(Mine)
    BY <1>5, <2>1 DEF FactsOf
  <2>3. CASE msg # 0
    <3>1. UNCHANGED ReceiptState
      BY <1>5, <2>3 DEF ReceiptState
    <3> QED
      BY <2>2, <3>1 DEF Goal
  <2>4. CASE msg = 0
    <3>1. destTx = FALSE
      BY <1>1, <2>4 DEF OwnInv, IInv, TypeOK
    <3>2. ReceiptState = SourceInitiated /\ ReceiptState' = Attested
      BY <1>5, <2>4, <3>1 DEF ReceiptState
    <3> QED
      BY <1>2, <2>2, <3>2 DEF ReceiptView!Justified, Follows
  <2> QED
    BY <2>3, <2>4
<1>6. CASE AttestationFound(c)
  BY <1>1, <1>5, <1>6 DEF AttestationFound, Assigns, OwnCall, chains
<1>7. ASSUME NEW t \in Transfers, DetachedAttestation(t) PROVE Goal
  <2>1. t = origin /\ origin # 0
    BY <1>1, <1>7 DEF DetachedAttestation, OwnInv
  <2> QED
    BY <1>5, <1>7, <2>1 DEF DetachedAttestation, Assigns, chains
<1>8. CASE RedeemReturns(c)
  <2>1. /\ msg # 0 /\ msg \in redeemed /\ destTx' = TRUE
        /\ UNCHANGED <<messages, signed, redeemed, origin, msg>>
    BY <1>1, <1>8 DEF RedeemReturns, OwnCall, IInv, CallInv, chains
  <2>2. UNCHANGED FactsOf(Mine) /\ "redeemed" \in FactsOf(Mine)
    BY <2>1 DEF FactsOf, Mine
  <2>3. ReceiptState \in {Attested, DestinationInitiated} /\ ReceiptState' = DestinationInitiated
    BY <2>1 DEF ReceiptState
  <2> QED
    BY <1>2, <2>2, <2>3 DEF ReceiptView!Justified, Follows
<1>9. ASSUME UNCHANGED object, NEW t \in Transfers, March(t) PROVE Goal
  <2>1. PICK m : m = Mine
    OBVIOUS
  <2>2. UNCHANGED <<Mine, ReceiptState>>
    BY <1>9 DEF object, Mine, ReceiptState
  <2>3. FactsOf(Mine) = FactsOf(m) /\ FactsOf(Mine)' = FactsOf(m)'
    BY <2>1, <2>2 DEF FactsOf
  <2>4. CASE UNCHANGED FactsOf(m)
    BY <2>2, <2>3, <2>4 DEF Goal
  <2>5. ASSUME NEW f \in {"message", "vaa", "redeemed"},
               f \notin FactsOf(m), FactsOf(m)' = FactsOf(m) \cup {f},
               f = "vaa" => "message" \in FactsOf(m), f = "redeemed" => "vaa" \in FactsOf(m)
        PROVE  Goal
    <3>1. f \in ReceiptView!Facts /\ ReceiptView!Requires(f) \subseteq FactsOf(Mine)
      BY <2>3, <2>5 DEF ReceiptView!Facts, ReceiptView!Requires
    <3>2. ReceiptView!Happens(f)
      BY <2>2, <2>3, <2>5, <3>1 DEF ReceiptView!Happens
    <3> QED
      BY <3>1, <3>2 DEF Goal, ReceiptView!Next
  <2>6. \/ UNCHANGED FactsOf(m)
        \/ \E f \in {"message", "vaa", "redeemed"} :
                 /\ f \notin FactsOf(m)
                 /\ FactsOf(m)' = FactsOf(m) \cup {f}
                 /\ f = "vaa" => "message" \in FactsOf(m)
                 /\ f = "redeemed" => "vaa" \in FactsOf(m)
    BY <1>1, <1>9, MarchFacts
  <2> QED
    BY <2>4, <2>5, <2>6
<1>10. CASE UNCHANGED <<messages, signed, redeemed>>
  BY <1>3, <1>4, <1>6, <1>7, <1>8, <1>10, ObjectMoves
<1>11. CASE UNCHANGED <<object, tracker>> /\ \E t \in Transfers : March(t)
  BY <1>9, <1>11
<1> QED
  BY <1>1, <1>10, <1>11, Marches

LEMMA OneViewInit == ASSUME NEW c \in Callers, Alone(c), Init PROVE ReceiptView!Init
<1>0. Sole
  BY DEF Sole, Alone
<1>1. OneInv(c)
  BY OneInit
<1>2. FactsOf(Mine) \in SUBSET ReceiptView!Facts
  BY DEF FactsOf, ReceiptView!Facts
<1>3. /\ destTx = FALSE
      /\ msg # 0 => msg \in signed
      /\ origin # 0 => msg # 0
  BY <1>1 DEF Init, OneInv, IInv, HeldInv, AttestedIsRedeemable
<1>4. ReceiptState = IF msg # 0 THEN Attested ELSE Created
  BY <1>3 DEF ReceiptState
<1>5. ReceiptView!Justified(ReceiptState)
  BY <1>0, <1>3, <1>4 DEF ReceiptView!Justified, FactsOf, Mine
<1> QED
  BY <1>0, <1>2, <1>4, <1>5 DEF ReceiptView!Init

LEMMA ViewInit == Init => ReceiptView!Init
<1> SUFFICES ASSUME Init PROVE ReceiptView!Init
  OBVIOUS
<1>1. CASE Sole
  <2>1. PICK c \in Callers : Alone(c)
    BY <1>1 DEF Sole, Alone
  <2> QED
    BY <2>1, OneViewInit
<1>2. CASE ~ Sole
  BY <1>2 DEF ReceiptView!Init, ReceiptView!Justified
<1> QED
  BY <1>1, <1>2

LEMMA ViewStep == AloneInv /\ [Next]_vars => [ReceiptView!Next]_(ReceiptView!viewVars)
<1> SUFFICES ASSUME AloneInv, [Next]_vars PROVE [ReceiptView!Next]_(ReceiptView!viewVars)
  OBVIOUS
<1>1. Sole' = Sole
  BY UsersStay DEF Sole
<1>2. CASE Sole
  <2>1. PICK c \in Callers : Alone(c)
    BY <1>2 DEF Sole, Alone
  <2> QED
    BY <1>1, <1>2, <2>1, OneView DEF AloneInv, ReceiptView!viewVars
<1>3. CASE ~ Sole
  BY <1>1, <1>3 DEF ReceiptView!viewVars
<1> QED
  BY <1>2, <1>3

(* A single caller that calls the methods in any order sees getReceipt() only go forward
   and never ahead of the chains, although fetchAttestation() takes the state back and
   lookups of failed calls still write. *)
THEOREM CircleReceiptImplementsView == Spec => ReceiptImplementsView
  BY AloneAlways, ViewInit, ViewStep, PTL DEF Spec, ReceiptImplementsView, ReceiptView!Spec
=============================================================================
