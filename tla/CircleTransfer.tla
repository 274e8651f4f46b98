--------------------------- MODULE CircleTransfer ---------------------------
(***************************************************************************)
(* A CircleTransfer object (connect/src/protocols/cctp/cctpTransfer.ts)    *)
(* and an application that follows one transfer with CircleTransfer.track. *)
(* The object resembles a TokenTransfer, with three differences that       *)
(* matter: fetchAttestation() may be called in any state from              *)
(* SourceInitiated on, an automatic transfer runs two lookups at a time,   *)
(* of which the first fails while the second goes on behind the caller's   *)
(* back, and completeTransfer() leaves the state alone.                    *)
(***************************************************************************)
EXTENDS TransferStates

CONSTANTS Callers,      \* those who may use the object at the same time
          Starts,       \* how it was made: "details", "message", "transaction"
          Faults,       \* a submission may land and still throw
          MaxTransfers  \* bound: transfers on the source chain

ASSUME CircleAssumption ==
    /\ Starts \subseteq {"details", "message", "transaction"}
    /\ Faults \in BOOLEAN
    /\ MaxTransfers \in Nat \ {0}

VARIABLES users,      \* those who do
          automatic,  \* transfer.automatic: a relayer redeems it
          sent,       \* the transfers on the source chain, 1 .. sent
          messages,   \* those whose message the source node returns
          signed,     \* those that Circle has attested
          redeemed,   \* those the destination chain has processed
          state,      \* _state
          origin,     \* the transfer whose transactions are in txids, 0 if none
          destTx,     \* txids has a transaction of the destination chain
          msg,        \* attestations[0]: the transfer of its message, 0 if there is none
          sig,        \* and that of its signatures
          detached,   \* lookups whose caller has got an error already
          pc,         \* where each caller awaits
          about,      \* the transfer its pending call is about, 0 if none
          tracked,    \* the transfer track() follows
          shown,      \* the state of the receipt it yielded last
          tpc         \* where it awaits

chains  == <<users, automatic, sent, messages, signed, redeemed>>
object  == <<state, origin, destTx, msg, sig>>
calls   == <<pc, about>>
tracker == <<tracked, shown, tpc>>
vars    == <<chains, object, detached, calls, tracker>>

Transfers == 1 .. MaxTransfers

Idle(c) == pc[c] = "idle"

(* Returning and throwing are the same to the object. *)
Return(c) == /\ pc' = [pc EXCEPT ![c] = "idle"]
             /\ about' = [about EXCEPT ![c] = 0]

Await(c, p, t) == /\ pc' = [pc EXCEPT ![c] = p]
                  /\ about' = [about EXCEPT ![c] = t]
-----------------------------------------------------------------------------
(* initiateTransfer() *)

StartInitiate(c) == /\ Idle(c) /\ state = Created
                    /\ Await(c, "transfer", 0)
                    /\ UNCHANGED <<chains, object, detached, tracker>>

Sends == sent < MaxTransfers /\ sent' = sent + 1

TransferReturns(c) == /\ pc[c] = "transfer"
                      /\ Sends
                      /\ origin' = sent + 1 /\ destTx' = FALSE
                      /\ state' = SourceInitiated
                      /\ Return(c)
                      /\ UNCHANGED <<users, automatic, messages, signed, redeemed,
                                     msg, sig, detached, tracker>>

TransferThrows(c) == /\ pc[c] = "transfer"
                     /\ (Faults /\ Sends) \/ UNCHANGED sent
                     /\ Return(c)
                     /\ UNCHANGED <<users, automatic, messages, signed, redeemed,
                                    object, detached, tracker>>
-----------------------------------------------------------------------------
(* fetchAttestation(): no state is too late for it. *)

(* Mutant: an attested transfer is not asked about again. *)
FetchesOnce == state \in SourceInitiated .. SourceFinalized

MayFetch == state >= SourceInitiated

(* The attestations are there: the state is written before the destination is asked. *)
StartCheck(c) ==
    /\ Idle(c) /\ MayFetch
    /\ msg # 0 /\ sig # 0
    /\ state' = Attested
    /\ Await(c, "check", sig)
    /\ UNCHANGED <<chains, origin, destTx, msg, sig, detached, tracker>>

StartFetch(c) ==
    /\ Idle(c) /\ MayFetch
    /\ ~ automatic /\ msg = 0 /\ origin # 0
    /\ Await(c, "message", origin)
    /\ UNCHANGED <<chains, object, detached, tracker>>

(* Mutant: an automatic transfer has no lookup but the one that fails. *)
NoLookup(t) == UNCHANGED detached

LooksUp(t) == detached' = detached \cup {<<"message", t>>}

(* Both lookups start; that of the VAA throws at once, as there is no id for it, and the
   caller gets its error.  The other goes on. *)
FetchAutomatic(c) ==
    /\ Idle(c) /\ MayFetch
    /\ automatic /\ msg = 0 /\ origin # 0
    /\ LooksUp(origin)
    /\ UNCHANGED <<chains, object, calls, tracker>>

MessageFound(c) == /\ pc[c] = "message" /\ about[c] \in messages
                   /\ Await(c, "attestation", about[c])
                   /\ UNCHANGED <<chains, object, detached, tracker>>

(* Mutant: the signatures are put into the list another call has left. *)
PutsSignature(t) == /\ msg' = IF msg = 0 THEN t ELSE msg
                    /\ sig' = t

(* Each lookup has a list of its own, which replaces that of the object. *)
Assigns(t) == msg' = t /\ sig' = t

AttestationFound(c) == /\ pc[c] = "attestation" /\ about[c] \in signed
                       /\ Assigns(about[c])
                       /\ state' = Attested
                       /\ Await(c, "check", about[c])
                       /\ UNCHANGED <<chains, origin, destTx, detached, tracker>>

(* No message or attestation in time, or a service fails. *)
FetchThrows(c) == /\ pc[c] \in {"message", "attestation", "check"}
                  /\ Return(c)
                  /\ UNCHANGED <<chains, object, detached, tracker>>

(* Mutant: any answer of the destination chain is taken for a completion. *)
FinalizedAnyway(completed) == state' = DestinationFinalized

Finalized(completed) == state' = IF completed THEN DestinationFinalized ELSE state

(* The destination chain answers for the time of the call or a later one. *)
CompletionChecked(c, completed) ==
    /\ pc[c] = "check"
    /\ completed => about[c] \in redeemed
    /\ Finalized(completed)
    /\ Return(c)
    /\ UNCHANGED <<chains, origin, destTx, msg, sig, detached, tracker>>

(* The lookups nobody waits for. *)
DetachedMessage(t) ==
    /\ <<"message", t>> \in detached /\ t \in messages
    /\ detached' = (detached \ {<<"message", t>>}) \cup {<<"attestation", t>>}
    /\ UNCHANGED <<chains, object, calls, tracker>>

DetachedAttestation(t) ==
    /\ <<"attestation", t>> \in detached /\ t \in signed
    /\ detached' = detached \ {<<"attestation", t>>}
    /\ Assigns(t)
    /\ UNCHANGED <<chains, state, origin, destTx, calls, tracker>>

DetachedFails(l) == /\ l \in detached
                    /\ detached' = detached \ {l}
                    /\ UNCHANGED <<chains, object, calls, tracker>>
-----------------------------------------------------------------------------
(* completeTransfer(): there is no way to complete an automatic transfer. *)

StartComplete(c) == /\ Idle(c) /\ state >= Attested /\ ~ automatic
                    /\ msg # 0 /\ sig # 0
                    /\ Await(c, "redeem", sig)
                    /\ UNCHANGED <<chains, object, detached, tracker>>

(* The destination chain accepts a message once. *)
Redeems(t) == t \notin redeemed /\ redeemed' = redeemed \cup {t}

RedeemLands(c) == /\ pc[c] = "redeem"
                  /\ Redeems(about[c])
                  /\ Await(c, "redeemed", about[c])
                  /\ UNCHANGED <<users, automatic, sent, messages, signed, object,
                                 detached, tracker>>

(* Mutant: the transactions are recorded before they are confirmed. *)
RecordsAtOnce(c) == /\ pc[c] = "redeem"
                    /\ destTx' = TRUE
                    /\ Return(c)
                    /\ UNCHANGED <<chains, state, origin, msg, sig, detached, tracker>>

RedeemReturns(c) == /\ pc[c] = "redeemed"
                    /\ destTx' = TRUE
                    /\ Return(c)
                    /\ UNCHANGED <<chains, state, origin, msg, sig, detached, tracker>>

RedeemThrows(c) == /\ pc[c] = "redeem" \/ (Faults /\ pc[c] = "redeemed")
                   /\ Return(c)
                   /\ UNCHANGED <<chains, object, detached, tracker>>
-----------------------------------------------------------------------------
(* getReceipt(): the last of its conditions that holds. *)
ReceiptState == IF destTx THEN DestinationInitiated
                ELSE IF msg # 0 THEN Attested
                ELSE IF origin # 0 THEN SourceInitiated ELSE Created

(* The transfer the object is about. *)
Mine == IF msg # 0 THEN msg ELSE origin

Sole == \E c \in Callers : users = {c}

(* Where track() goes with the receipt it is given. *)
Entry(s) == IF s = SourceInitiated THEN "message"
            ELSE IF s = SourceFinalized THEN "attestation"
            ELSE IF s \in {Attested, DestinationInitiated} THEN "complete" ELSE "off"

TrackFrom(s) == shown' = s /\ tpc' = Entry(s) /\ UNCHANGED tracked

Tracker(p) == tpc = p /\ UNCHANGED <<chains, object, detached, calls>>

(* With the receipt of the object, or with that of a route's initiate(), which has
   waited for the message. *)
StartTrack == /\ Tracker("off") /\ shown = Created
              /\ Sole /\ Mine = tracked
              /\ \/ TrackFrom(ReceiptState)
                 \/ origin # 0 /\ msg = 0 /\ origin \in messages /\ TrackFrom(SourceFinalized)

TrackMessage == Tracker("message") /\ tracked \in messages /\ TrackFrom(SourceFinalized)

(* Mutant: the receipt is attested without asking Circle. *)
YieldsAttested == Tracker("attestation") /\ TrackFrom(Attested)

(* The source chain is asked after Circle, even when Circle had no answer. *)
TrackAttestation == /\ Tracker("attestation") /\ tracked \in signed
                    /\ tpc' = "parse"
                    /\ UNCHANGED <<tracked, shown>>

TrackParse == Tracker("parse") /\ TrackFrom(Attested)

(* Circle has no attestation yet, or a call fails: the application calls again with the
   receipt it was shown last. *)
TrackAgain == /\ tpc \in {"message", "attestation", "parse", "complete"}
              /\ Tracker(tpc)
              /\ TrackFrom(shown)

(* Mutant: a destination transaction is taken for the end. *)
AttestedOnly == shown = Attested

AsksDestination == shown \in {Attested, DestinationInitiated}

TrackComplete == /\ Tracker("complete") /\ AsksDestination
                 /\ tracked \in redeemed
                 /\ TrackFrom(DestinationFinalized)
-----------------------------------------------------------------------------
(* The chains and Circle; others, and the relayer, may redeem. *)

MessageVisible(t) == /\ t \in 1 .. sent \ messages
                     /\ messages' = messages \cup {t}
                     /\ UNCHANGED <<users, automatic, sent, signed, redeemed,
                                    object, detached, calls, tracker>>

CircleAttests(t) == /\ t \in messages \ signed
                    /\ signed' = signed \cup {t}
                    /\ UNCHANGED <<users, automatic, sent, messages, redeemed,
                                   object, detached, calls, tracker>>

OthersRedeem(t) == /\ t \in signed
                   /\ Redeems(t)
                   /\ UNCHANGED <<users, automatic, sent, messages, signed,
                                  object, detached, calls, tracker>>

(* A new object, or one from() found by its message or transaction, after the
   fetchAttestation() it ends with; from() finds no automatic transfer. *)
Init == /\ users \in SUBSET Callers /\ users # {}
        /\ \E how \in Starts :
              IF how = "details"
              THEN /\ automatic \in BOOLEAN
                   /\ sent = 0 /\ messages = {} /\ signed = {} /\ redeemed = {}
                   /\ state = Created /\ origin = 0 /\ msg = 0 /\ sig = 0
              ELSE /\ automatic = FALSE
                   /\ sent = 1 /\ messages = {1} /\ signed = {1} /\ redeemed \in {{}, {1}}
                   /\ state \in {Attested, DestinationFinalized}
                   /\ state = DestinationFinalized => redeemed = {1}
                   /\ origin = IF how = "transaction" THEN 1 ELSE 0
                   /\ msg = 1 /\ sig = 1
        /\ destTx = FALSE
        /\ detached = {}
        /\ pc = [c \in Callers |-> "idle"]
        /\ about = [c \in Callers |-> 0]
        /\ tracked \in Transfers /\ shown = Created /\ tpc = "off"

Fetches(c) == StartCheck(c) \/ StartFetch(c) \/ FetchAutomatic(c)

Calls(c) == StartInitiate(c) \/ Fetches(c) \/ StartComplete(c)

Returns(c) == \/ TransferReturns(c) \/ TransferThrows(c)
              \/ MessageFound(c) \/ AttestationFound(c) \/ FetchThrows(c)
              \/ (\E completed \in BOOLEAN : CompletionChecked(c, completed))
              \/ RedeemLands(c) \/ RedeemReturns(c) \/ RedeemThrows(c)

Lookup(t) == \/ DetachedMessage(t) \/ DetachedAttestation(t)
             \/ (\E w \in {"message", "attestation"} : DetachedFails(<<w, t>>))

Track == \/ StartTrack \/ TrackMessage \/ TrackAttestation \/ TrackParse \/ TrackAgain
         \/ TrackComplete

World(t) == MessageVisible(t) \/ CircleAttests(t) \/ OthersRedeem(t)

Next == \/ \E c \in users : Calls(c) \/ Returns(c)
        \/ \E t \in Transfers : Lookup(t) \/ World(t)
        \/ Track

Spec == Init /\ [][Next]_vars

(* The application keeps fetching and tracking, its calls return, the chains and Circle
   do their work, and who is asked again and again answers some time. *)
Fairness == /\ WF_vars(\E t \in Transfers : MessageVisible(t) \/ CircleAttests(t))
            /\ SF_vars(\E t \in Transfers : DetachedMessage(t))
            /\ SF_vars(\E t \in Transfers : DetachedAttestation(t))
            /\ SF_vars(\E c \in users : Fetches(c))
            /\ WF_vars(\E c \in users : Returns(c))
            /\ SF_vars(\E c \in users : CompletionChecked(c, TRUE))
            /\ SF_vars(TrackMessage \/ TrackParse \/ TrackComplete)
            /\ SF_vars(TrackAttestation)

FairSpec == Spec /\ Fairness
-----------------------------------------------------------------------------
Lookups == {"message", "attestation"} \X Transfers

TypeOK == /\ users \subseteq Callers
          /\ automatic \in BOOLEAN
          /\ sent \in 0 .. MaxTransfers
          /\ messages \subseteq Transfers /\ signed \subseteq Transfers
          /\ redeemed \subseteq Transfers
          /\ state \in TransferState
          /\ origin \in 0 .. MaxTransfers /\ msg \in 0 .. MaxTransfers /\ sig \in 0 .. MaxTransfers
          /\ destTx \in BOOLEAN
          /\ detached \subseteq Lookups
          /\ pc \in [Callers -> {"idle", "transfer", "message", "attestation", "check",
                                 "redeem", "redeemed"}]
          /\ about \in [Callers -> 0 .. MaxTransfers]
          /\ tracked \in Transfers /\ shown \in TransferState
          /\ tpc \in {"off", "message", "attestation", "parse", "complete"}

(* However many calls and detached lookups there are, an attested object has a message
   and the signatures of that very message, so that completeTransfer() has what the
   destination chain accepts, and both are signed by Circle. *)
AttestedIsRedeemable == /\ state >= Attested => sig # 0
                        /\ sig # 0 => msg = sig /\ sig \in signed

(* What the object says of some transfer has happened to some transfer. *)
StateIsTrue == /\ state >= Attested => signed # {}
               /\ state = DestinationFinalized \/ destTx => redeemed # {}

FactsOf(t) == {f \in {"message", "vaa", "redeemed"} :
                  \/ f = "message" /\ t \in messages
                  \/ f = "vaa" /\ t \in signed
                  \/ f = "redeemed" /\ t \in redeemed}

(* Driven by one caller, the receipt of the object never goes back and never shows what
   has not happened, although the state of the object itself goes back from
   DestinationFinalized to Attested. *)
ReceiptView == INSTANCE TransferView
               WITH facts <- IF Sole THEN FactsOf(Mine) ELSE {},
                    view  <- IF Sole THEN ReceiptState ELSE Created

ReceiptImplementsView == ReceiptView!Spec

(* So do the receipts that track() yields, from one call to the next. *)
TrackView == INSTANCE TransferView WITH facts <- FactsOf(tracked), view <- shown

TrackImplementsView == TrackView!Spec

(* A tracked transfer that is redeemed is shown as final to an application that asks again. *)
RedeemedIsShown == tpc # "off" /\ tracked \in redeemed ~> shown = DestinationFinalized

(* Although each fetchAttestation() of a new automatic transfer fails at once, the lookups
   it leaves behind bring the transfer to its attestation. *)
AutomaticIsAttested == automatic /\ state = SourceInitiated ~> state >= Attested

(* fetchAttestation() takes a final transfer back to Attested, but it finds out again that
   it is final. *)
CompletionIsSeen == Sole /\ sig # 0 /\ sig \in redeemed ~> state = DestinationFinalized
=============================================================================
