-------------------------- MODULE ProtocolClients --------------------------
(***************************************************************************)
(* The operations of the protocol clients (platforms/*/protocols): each is *)
(* an async generator that reads the chain, yields a transaction, and goes *)
(* on when signSendWait() has had that transaction confirmed.  What it     *)
(* reads may be stale when its transaction executes, a run may end between *)
(* two transactions, and the next run of the operation starts from what    *)
(* the former one has left on the chain.                                   *)
(*                                                                         *)
(* An operation is a sequence of steps, each of which reads the chain once *)
(* and yields groups of transactions to be signed and sent together.       *)
(***************************************************************************)
EXTENDS Naturals, Sequences, FiniteSets

CONSTANTS Plans,   \* the operations considered
          Faults,  \* reads fail, confirmations are lost, runs are interrupted
          MaxRuns  \* bound: runs of the operation by each party

(* The receiver of a transfer and somebody else, who both run the operation; a sender has
   two runs of it going. *)
Parties  == {1, 2}
Receiver == 1

Operations ==
    {"EvmTransfer", "EvmExecutorTransfer", "EvmCircleTransfer", "EvmAutomaticCircleTransfer",
     "EvmPorticoTransfer", "EvmTbtcTransfer", "EvmSubmitAttestation", "EvmCreateAttestation",
     "EvmRedeem", "EvmCircleRedeem", "EvmExecutorRedeem", "EvmPorticoRedeem", "EvmTbtcRedeem",
     "SolanaTransfer", "SolanaExecutorTransfer", "SolanaCircleTransfer", "SolanaTbtcTransfer",
     "SolanaCreateAttestation", "SolanaSubmitAttestation", "SolanaRedeem",
     "SolanaRedeemAndUnwrap", "SolanaCircleRedeem", "SolanaExecutorRedeem", "SolanaTbtcRedeem",
     "SuiTransfer", "SuiCircleTransfer", "SuiExecutorTransfer", "SuiCreateAttestation",
     "SuiSubmitAttestation", "SuiRedeem", "SuiCircleRedeem", "SuiExecutorRedeem",
     "AptosTransfer", "AptosCircleTransfer", "AptosCreateAttestation",
     "AptosSubmitAttestation", "AptosRedeem", "AptosCircleRedeem",
     "CosmwasmTransfer", "CosmwasmIbcTransfer", "CosmwasmCreateAttestation",
     "CosmwasmSubmitAttestation", "CosmwasmRedeem",
     "AlgorandTransfer", "AlgorandCreateAttestation", "AlgorandRedeem"}

ASSUME ClientsAssumption == /\ Plans \subseteq Operations
                            /\ Faults \in BOOLEAN
                            /\ MaxRuns \in [Parties -> Nat]

VARIABLES plan,       \* the operation
          facts,      \* what is on the chain
          allowance,  \* what the bridge may take of the sender's tokens
          version,    \* of the sender's coins, or of the sequence of the program
          pc,         \* what each party's run is doing
          run,        \* its number
          step,       \* the steps it has taken
          queue,      \* groups of transactions it has yet to send
          inflight,   \* those it waits for
          loose,      \* those sent by runs that did not wait for them
          moved,      \* the runs that have moved the tokens
          clean,      \* the runs that nobody has disturbed
          before      \* the allowance they found

chain   == <<facts, allowance, version>>
session == <<pc, run, step, queue, inflight>>
vars    == <<plan, chain, session, loose, moved, clean, before>>

Amount(s) == s
Fee == 1

Fact(name) == <<name, 0, 0>>
Ata(s) == <<"ata", s, 0>>
Signature(i, s, n) == <<i, s, n>>
Setup(s, n) == <<"setup", s, n>>

Claimed == Fact("claimed")
Posted  == Fact("posted")
Wrapped == Fact("wrapped")
OptedIn == Fact("optedIn")
Balance == Fact("balance")

(* The VAA has a payload, is for a token of this chain, and comes from the address that
   receives it. *)
Payload      == Fact("payload")
Home         == Fact("home")
FromReceiver == Fact("fromReceiver")

(* The token is ALGO itself; the account that keeps the tokens of the bridge is there. *)
Algo    == Fact("algo")
Custody == Fact("asset")
-----------------------------------------------------------------------------
(* Transactions: what must be there, or not, when one executes, and what it changes. *)

Call == [needs |-> {}, absent |-> {}, adds |-> {}, removes |-> {},
         approves |-> 0, spends |-> 0, pinned |-> 0, moves |-> FALSE]

Create(x) == [Call EXCEPT !.absent = {x}, !.adds = {x}]

Move == [Call EXCEPT !.moves = TRUE]

(* A VAA or a message of Circle is accepted once. *)
Claim == [Move EXCEPT !.absent = {Claimed}, !.adds = {Claimed}]

(* What the client throws instead of, or the chain never executes. *)
Refused == [Call EXCEPT !.needs = {Fact("never")}]

One(tx) == << {tx} >>

When(condition, groups) == IF condition THEN groups ELSE << >>
-----------------------------------------------------------------------------
(* EVM: c is the chain as the step reads it. *)

(* Mutant: the allowance that is there is left alone. *)
ApproveWhenZero(amount, c) ==
    When(c.allowance = 0, One([Call EXCEPT !.approves = amount]))

(* Mutant: the client asks for more than it is about to spend. *)
ApproveMore(amount, c) ==
    When(c.allowance < amount, One([Call EXCEPT !.approves = amount + 1]))

Approve(amount, c) == When(c.allowance < amount, One([Call EXCEPT !.approves = amount]))

Spend(amount) == [Move EXCEPT !.spends = amount]

EvmTransfer(s, c) == << Approve(Amount(s), c), One(Spend(Amount(s))) >>

(* The helper contract takes what is bridged and then the fee. *)
EvmExecutorTransfer(s, c) ==
    << Approve(Amount(s) + Fee, c), One(Spend(Amount(s) + Fee)) >>

EvmCircleTransfer(s, c) == << Approve(Amount(s), c), One(Spend(Amount(s))) >>

EvmAutomaticCircleTransfer(s, c) == << Approve(Amount(s), c), One(Spend(Amount(s))) >>

EvmPorticoTransfer(s, c) == << Approve(Amount(s), c), One(Spend(Amount(s))) >>

EvmTbtcTransfer(s, c) == << Approve(Amount(s), c), One(Spend(Amount(s))) >>

(* A first attestation and a later one take different calls; a read that fails is taken
   for "not wrapped". *)
EvmSubmitAttestation(c) ==
    << One(IF Wrapped \in c.facts
           THEN [Claim EXCEPT !.needs = {Wrapped}]
           ELSE [Claim EXCEPT !.absent = {Wrapped, Claimed}, !.adds = {Wrapped, Claimed}]) >>

(* The contract lets only the receiver have a transfer with a payload; of one with a token
   of another chain, the client demands that the redeemer is who sent it. *)
EvmRedeem(s, c) ==
    << One(IF Payload \in c.facts => s = Receiver /\ {Home, FromReceiver} \cap c.facts # {}
           THEN Claim ELSE Refused) >>

EvmCircleRedeem == << One(Claim) >>

(* The relayer's contract, the swap or the gateway pays whom the VAA names. *)
EvmExecutorRedeem == << One(Claim) >>
EvmPorticoRedeem  == << One(Claim) >>
EvmTbtcRedeem     == << One(Claim) >>

EvmCreateAttestation == << One(Move) >>
-----------------------------------------------------------------------------
(* Solana *)

(* Mutant: the VAA is posted without a look at whether it is posted. *)
PostsAlways(s, n, c) == One(Create(Posted))

(* A new account for the signatures is made by each run; the two transactions that fill it
   go together, the one that posts afterwards. *)
PostVaa(s, n, c) ==
    When(Posted \notin c.facts,
         LET sigs == {Signature("sig1", s, n), Signature("sig2", s, n)}
         IN << {[Call EXCEPT !.adds = {g}] : g \in sigs},
               {[Create(Posted) EXCEPT !.needs = sigs]} >>)

CreateAta(s, c) == When(Ata(s) \notin c.facts, One(Create(Ata(s))))

(* The native token is moved in another way than a wrapped one; a read that fails is taken
   for "native". *)
SolanaTransferCall(c) == IF Wrapped \in c.facts THEN [Move EXCEPT !.needs = {Wrapped}]
                         ELSE [Move EXCEPT !.absent = {Wrapped}]

SolanaTransfer(c) == << One(SolanaTransferCall(c)) >>

(* The referrer's account is created unless somebody else has created it meanwhile. *)
SolanaExecutorTransfer(c) ==
    << One([SolanaTransferCall(c) EXCEPT !.adds = {Fact("referrer")}]) >>

SolanaCircleTransfer == << One(Move) >>

SolanaCreateAttestation == << One(Move) >>

Redeemed(needs) == One([Claim EXCEPT !.needs = needs])

(* The account created is the sender's, the one paid the receiver's. *)
SolanaRedeem(s, n, c) ==
    << CreateAta(s, c), PostVaa(s, n, c), Redeemed({Posted, Ata(Receiver)}) >>

(* It moves the receiver's tokens on, with the signature of the sender. *)
SolanaRedeemAndUnwrap(s, n, c) ==
    << CreateAta(s, c), PostVaa(s, n, c),
       IF s = Receiver THEN Redeemed({Posted, Ata(Receiver)}) ELSE One(Refused) >>

SolanaSubmitAttestation(s, n, c) == << PostVaa(s, n, c), Redeemed({Posted}) >>

(* Only the owner's address gives the address of the account to create. *)
SolanaCircleRedeem(s, c) ==
    << When(Ata(Receiver) \notin c.facts,
            One(IF s = Receiver THEN Create(Ata(Receiver)) ELSE Refused)),
       Redeemed({Ata(Receiver)}) >>

SolanaExecutorRedeem(s, n, c) == << PostVaa(s, n, c), Redeemed({Posted}) >>

(* The receiver's account is created along with the transfer. *)
SolanaTbtcRedeem(s, n, c) ==
    LET missing == {Ata(Receiver)} \ c.facts
    IN << PostVaa(s, n, c),
          One([Claim EXCEPT !.needs = {Posted}, !.absent = @ \cup missing,
                            !.adds = @ \cup missing]) >>

(* The address of the message is made of the sequence read. *)
SolanaTbtcTransfer(c) == << One([Move EXCEPT !.pinned = c.version]) >>
-----------------------------------------------------------------------------
(* Sui, Aptos, Cosmwasm *)

(* The coins it splits and merges are those it has listed. *)
SuiTransfer(c) == << One([Move EXCEPT !.pinned = c.version]) >>

SuiCircleTransfer(c) == << One([Move EXCEPT !.pinned = c.version]) >>

SuiExecutorTransfer(c) == << One([Move EXCEPT !.pinned = c.version]) >>

(* The asset is registered with the first of the setups that the sender owns: its own, or
   one that an earlier run has left. *)
SuiSubmitAttestation(s, n, c) ==
    LET setups == {x \in c.facts : x[1] = "setup" /\ x[2] = s}
    IN << One([Call EXCEPT !.adds = {Setup(s, n)}]),
          IF setups = {} THEN << >>
          ELSE LET x == CHOOSE x \in setups : TRUE
               IN One([Claim EXCEPT !.needs = {x}, !.removes = {x}]) >>

SuiRedeem == << One(Claim) >>

SuiCircleRedeem == << One(Claim) >>

SuiExecutorRedeem == << One(Claim) >>

SuiCreateAttestation == << One(Move) >>

AptosCreateAttestation == << One(Move) >>

AptosRedeem == << One(Claim) >>

AptosSubmitAttestation ==
    << One(Create(Fact("coinType"))), Redeemed({Fact("coinType")}) >>

AptosTransfer == << One(Move) >>

AptosCircleTransfer == << One(Move) >>

AptosCircleRedeem == << One(Claim) >>

(* The allowance is raised and used by one transaction. *)
CosmwasmTransfer == << One(Move) >>

CosmwasmIbcTransfer == << One(Move) >>

CosmwasmCreateAttestation == << One(Move) >>

CosmwasmSubmitAttestation == << One(Claim) >>

CosmwasmRedeem == << One(Claim) >>
-----------------------------------------------------------------------------
(* Algorand: the transactions of a run are one atomic group. *)

Storages(c, names) == {Fact(x) : x \in names} \ c.facts

(* Who holds none of the asset is taken for one who has not opted in. *)
IsOptedInToAsset(c) == Balance \in c.facts

(* An account that exists when it is to be created makes the group fail. The one that keeps
   the asset is opted in along with the transfer; the transactions that would create it are
   never yielded. *)
AlgorandTransfer(c) ==
    LET missing == Storages(c, {"emitter"})
        isAsset == Algo \notin c.facts
    IN << One([Move EXCEPT
                  !.needs  = {Custody} \cup (IF isAsset /\ IsOptedInToAsset(c)
                                             THEN {OptedIn} ELSE {}),
                  !.absent = missing,
                  !.adds   = missing \cup (IF isAsset THEN {OptedIn, Balance} ELSE {})]) >>

(* Anything may be attested again. *)
AlgorandCreateAttestation(c) ==
    LET missing == Storages(c, {"emitter", "asset"})
    IN << One([Move EXCEPT !.absent = missing, !.adds = missing]) >>

AlgorandRedeem(s, c) ==
    LET missing == Storages(c, {"message", "guardian"})
        optsIn  == ~ IsOptedInToAsset(c)
    IN << One(IF optsIn /\ s # Receiver THEN Refused
              ELSE [Claim EXCEPT
                       !.needs  = IF optsIn THEN {} ELSE {OptedIn},
                       !.absent = @ \cup missing,
                       !.adds   = @ \cup missing \cup {OptedIn, Balance}]) >>
-----------------------------------------------------------------------------
Yields(s, c) ==
    LET n == run[s]
    IN CASE plan = "EvmTransfer" -> EvmTransfer(s, c)
         [] plan = "EvmExecutorTransfer" -> EvmExecutorTransfer(s, c)
         [] plan = "EvmCircleTransfer" -> EvmCircleTransfer(s, c)
         [] plan = "EvmAutomaticCircleTransfer" -> EvmAutomaticCircleTransfer(s, c)
         [] plan = "EvmPorticoTransfer" -> EvmPorticoTransfer(s, c)
         [] plan = "EvmTbtcTransfer" -> EvmTbtcTransfer(s, c)
         [] plan = "EvmSubmitAttestation" -> EvmSubmitAttestation(c)
         [] plan = "EvmRedeem" -> EvmRedeem(s, c)
         [] plan = "EvmCircleRedeem" -> EvmCircleRedeem
         [] plan = "SolanaTransfer" -> SolanaTransfer(c)
         [] plan = "SolanaRedeem" -> SolanaRedeem(s, n, c)
         [] plan = "SolanaRedeemAndUnwrap" -> SolanaRedeemAndUnwrap(s, n, c)
         [] plan = "SolanaSubmitAttestation" -> SolanaSubmitAttestation(s, n, c)
         [] plan = "SolanaCircleRedeem" -> SolanaCircleRedeem(s, c)
         [] plan = "SolanaExecutorRedeem" -> SolanaExecutorRedeem(s, n, c)
         [] plan = "SolanaTbtcRedeem" -> SolanaTbtcRedeem(s, n, c)
         [] plan = "SolanaTbtcTransfer" -> SolanaTbtcTransfer(c)
         [] plan = "SuiTransfer" -> SuiTransfer(c)
         [] plan = "SuiCircleTransfer" -> SuiCircleTransfer(c)
         [] plan = "SuiSubmitAttestation" -> SuiSubmitAttestation(s, n, c)
         [] plan = "SuiRedeem" -> SuiRedeem
         [] plan = "AptosSubmitAttestation" -> AptosSubmitAttestation
         [] plan = "AptosTransfer" -> AptosTransfer
         [] plan = "CosmwasmTransfer" -> CosmwasmTransfer
         [] plan = "AlgorandTransfer" -> AlgorandTransfer(c)
         [] plan = "AlgorandRedeem" -> AlgorandRedeem(s, c)
         [] plan = "EvmExecutorRedeem" -> EvmExecutorRedeem
         [] plan = "EvmPorticoRedeem" -> EvmPorticoRedeem
         [] plan = "EvmTbtcRedeem" -> EvmTbtcRedeem
         [] plan = "EvmCreateAttestation" -> EvmCreateAttestation
         [] plan = "SolanaExecutorTransfer" -> SolanaExecutorTransfer(c)
         [] plan = "SolanaCircleTransfer" -> SolanaCircleTransfer
         [] plan = "SolanaCreateAttestation" -> SolanaCreateAttestation
         [] plan = "SuiCircleRedeem" -> SuiCircleRedeem
         [] plan = "SuiCreateAttestation" -> SuiCreateAttestation
         [] plan = "AptosCreateAttestation" -> AptosCreateAttestation
         [] plan = "AptosRedeem" -> AptosRedeem
         [] plan = "CosmwasmCreateAttestation" -> CosmwasmCreateAttestation
         [] plan = "CosmwasmSubmitAttestation" -> CosmwasmSubmitAttestation
         [] plan = "CosmwasmRedeem" -> CosmwasmRedeem
         [] plan = "AlgorandCreateAttestation" -> AlgorandCreateAttestation(c)
         [] plan = "SuiExecutorTransfer" -> SuiExecutorTransfer(c)
         [] plan = "SuiExecutorRedeem" -> SuiExecutorRedeem
         [] plan = "AptosCircleTransfer" -> AptosCircleTransfer
         [] plan = "AptosCircleRedeem" -> AptosCircleRedeem
         [] plan = "CosmwasmIbcTransfer" -> CosmwasmIbcTransfer

(* What others may have done for an operation, or do meanwhile. *)
Optional ==
    CASE plan = "EvmSubmitAttestation" -> {Wrapped, Claimed}
      [] plan \in {"SolanaRedeem", "SolanaRedeemAndUnwrap"} ->
             {Ata(1), Ata(2), Posted, Claimed}
      [] plan \in {"SolanaSubmitAttestation", "SolanaExecutorRedeem"} -> {Posted, Claimed}
      [] plan = "SolanaCircleRedeem" -> {Ata(Receiver), Claimed}
      [] plan = "SolanaTbtcRedeem" -> {Ata(Receiver), Posted, Claimed}
      [] plan = "AlgorandTransfer" -> {Fact("emitter"), Custody}
      [] plan = "AlgorandCreateAttestation" -> {Fact("emitter"), Fact("asset")}
      [] plan = "SolanaExecutorTransfer" -> {Fact("referrer")}
      [] plan = "AlgorandRedeem" -> {Fact("message"), Fact("guardian"), OptedIn}
      [] plan \in {"EvmRedeem", "EvmCircleRedeem", "EvmExecutorRedeem", "EvmPorticoRedeem",
                   "EvmTbtcRedeem", "SuiSubmitAttestation", "SuiRedeem", "SuiCircleRedeem",
                   "SuiExecutorRedeem", "AptosRedeem", "AptosCircleRedeem",
                   "CosmwasmSubmitAttestation", "CosmwasmRedeem"} ->
             {Claimed}
      [] OTHER -> {}

(* What is there from the start or never. *)
Given == CASE plan \in {"SolanaTransfer", "SolanaExecutorTransfer"} -> {Wrapped}
           [] plan = "AlgorandRedeem" -> {OptedIn, Balance}
           [] plan = "AlgorandTransfer" -> {Algo, Custody, OptedIn, Balance}
           [] plan = "EvmRedeem" -> {Payload, Home, FromReceiver}
           [] OTHER -> {}

(* Lookups whose failures are caught and taken for a "no". *)
Guessed == IF plan \in {"EvmSubmitAttestation", "SolanaTransfer", "SolanaExecutorTransfer"}
           THEN {Wrapped}
           ELSE IF plan = "AlgorandTransfer" THEN {Fact("emitter"), Balance}
           ELSE IF plan = "AlgorandCreateAttestation" THEN {Fact("emitter"), Fact("asset")}
           ELSE IF plan = "AlgorandRedeem" THEN {Fact("message"), Fact("guardian"), Balance}
           ELSE {}
-----------------------------------------------------------------------------
(* A run: the consumer pulls the generator, sends what it yields and waits. *)

Undisturbed(s) == [x \in Parties |-> clean[x] /\ x = s]

Disturb(s) == clean' = [clean EXCEPT ![s] = FALSE]

Start(s) == /\ pc[s] \in {"idle", "threw"} /\ run[s] < MaxRuns[s]
            /\ pc' = [pc EXCEPT ![s] = "running"]
            /\ run' = [run EXCEPT ![s] = @ + 1]
            /\ clean' = [clean EXCEPT ![s] = Claimed \notin facts]
            /\ before' = [before EXCEPT ![s] = allowance]
            /\ UNCHANGED <<plan, chain, step, queue, inflight, loose, moved>>

Waiting(s) == pc[s] = "running" /\ queue[s] = << >> /\ inflight[s] = {}

Steps(s, c) == Len(Yields(s, c))

Reads(s, c) ==
    /\ step[s] < Steps(s, c)
    /\ step' = [step EXCEPT ![s] = @ + 1]
    /\ queue' = [queue EXCEPT ![s] = Yields(s, c)[step[s] + 1]]
    /\ UNCHANGED <<plan, chain, pc, run, inflight, loose, moved, before>>

Chain(seen) == [facts |-> seen, allowance |-> allowance, version |-> version]

Ask(s) == Waiting(s) /\ Reads(s, Chain(facts)) /\ UNCHANGED clean

(* A lookup fails and the client does not notice. *)
Guess(s) == /\ Faults /\ Waiting(s)
            /\ \E lost \in SUBSET (Guessed \cap facts) :
                  lost # {} /\ Reads(s, Chain(facts \ lost))
            /\ Disturb(s)

Send(s) == /\ pc[s] = "running" /\ queue[s] # << >> /\ inflight[s] = {}
           /\ inflight' = [inflight EXCEPT ![s] = Head(queue[s])]
           /\ queue' = [queue EXCEPT ![s] = Tail(@)]
           /\ UNCHANGED <<plan, chain, pc, run, step, loose, moved, clean, before>>

Executable(tx) == /\ tx.needs \subseteq facts /\ tx.absent \cap facts = {}
                  /\ tx.spends <= allowance
                  /\ tx.pinned \in {0, version}

(* An approval replaces the one before it. *)
Execute(tx, s, n) ==
    /\ Executable(tx)
    /\ facts' = (facts \ tx.removes) \cup tx.adds
    /\ allowance' = IF tx.approves > 0 THEN tx.approves ELSE allowance - tx.spends
    /\ version' = IF tx.pinned > 0 THEN version + 1 ELSE version
    /\ moved' = IF tx.moves THEN moved \cup {<<s, n>>} ELSE moved

Land(s, tx) == /\ pc[s] = "running" /\ tx \in inflight[s]
               /\ Execute(tx, s, run[s])
               /\ inflight' = [inflight EXCEPT ![s] = @ \ {tx}]
               /\ clean' = Undisturbed(s)
               /\ UNCHANGED <<plan, pc, run, step, queue, loose, before>>

(* What was sent together with a transaction that fails may still land. *)
Abandon(s, sent) == /\ pc' = [pc EXCEPT ![s] = "threw"]
                    /\ step' = [step EXCEPT ![s] = 0]
                    /\ queue' = [queue EXCEPT ![s] = << >>]
                    /\ inflight' = [inflight EXCEPT ![s] = {}]
                    /\ loose' = loose \cup {<<s, run[s], tx>> : tx \in sent}
                    /\ before' = [before EXCEPT ![s] = 0]
                    /\ UNCHANGED <<plan, chain, run, moved>>

Revert(s, tx) == /\ pc[s] = "running" /\ tx \in inflight[s]
                 /\ ~ Executable(tx)
                 /\ Abandon(s, inflight[s] \ {tx})
                 /\ UNCHANGED clean

(* Mutant: the last transaction is not waited for. *)
ReturnsEarly(s) == /\ pc[s] = "running" /\ queue[s] = << >>
                   /\ step[s] = Steps(s, Chain(facts))
                   /\ pc' = [pc EXCEPT ![s] = "returned"]
                   /\ UNCHANGED <<plan, chain, run, step, queue, inflight, loose, moved,
                                  clean, before>>

Return(s) == /\ Waiting(s) /\ step[s] = Steps(s, Chain(facts))
             /\ pc' = [pc EXCEPT ![s] = "returned"]
             /\ UNCHANGED <<plan, chain, run, step, queue, inflight, loose, moved, clean,
                            before>>

(* A read or a confirmation fails, or the application stops. *)
Interrupt(s) == /\ Faults /\ pc[s] = "running"
                /\ Abandon(s, inflight[s])
                /\ Disturb(s)

(* It need not land ever. *)
LooseLands(s, n, tx) == /\ Execute(tx, s, n)
                        /\ loose' = loose \ {<<s, n, tx>>}
                        /\ clean' = Undisturbed(0)
                        /\ UNCHANGED <<plan, session, before>>

OthersAct(x) == /\ x \in Optional \ facts
                /\ facts' = facts \cup {x}
                /\ clean' = Undisturbed(0)
                /\ UNCHANGED <<plan, allowance, version, session, loose, moved, before>>

Init == /\ plan \in Plans
        /\ facts \in SUBSET Given
        /\ Balance \in facts => OptedIn \in facts
        /\ plan = "AlgorandTransfer" /\ OptedIn \in facts =>
              Custody \in facts /\ Algo \notin facts
        /\ allowance \in 0 .. 2 /\ version = 1
        /\ pc = [s \in Parties |-> "idle"]
        /\ run = [s \in Parties |-> 0] /\ step = [s \in Parties |-> 0]
        /\ queue = [s \in Parties |-> << >>]
        /\ inflight = [s \in Parties |-> {}]
        /\ loose = {} /\ moved = {}
        /\ clean = [s \in Parties |-> FALSE]
        /\ before = [s \in Parties |-> 0]

Next == \/ \E s \in Parties :
              \/ Start(s) \/ Ask(s) \/ Guess(s) \/ Send(s) \/ Return(s) \/ Interrupt(s)
              \/ \E tx \in inflight[s] : Land(s, tx) \/ Revert(s, tx)
        \/ \E l \in loose : LooseLands(l[1], l[2], l[3])
        \/ \E x \in Optional : OthersAct(x)

Spec == Init /\ [][Next]_vars
-----------------------------------------------------------------------------
(* An interrupted run leaves a type that cannot be created again. *)
NotResumable == {"AptosSubmitAttestation"}

(* Others than the receiver may be refused. *)
ForReceiver == {"SolanaRedeem", "SolanaRedeemAndUnwrap", "SolanaCircleRedeem",
                "AlgorandRedeem"}

(* Who cannot succeed: these two; the receiver of a payload that comes from another address;
   who transfers an asset out of Algorand that was never attested. *)
Barred(s) ==
    \/ plan \in NotResumable
    \/ plan \in ForReceiver /\ s # Receiver
    \/ /\ plan = "EvmRedeem" /\ Payload \in facts
       /\ s = Receiver => {Home, FromReceiver} \cap facts = {}
    \/ plan = "AlgorandTransfer" /\ Custody \notin facts

(* Whatever earlier runs have left on the chain, interrupted between any two of their
   transactions, a run that nobody disturbs succeeds, unless it is one that cannot. *)
CleanRunSucceeds == \A s \in Parties : pc[s] = "threw" /\ clean[s] => Barred(s)

(* A run that returns undisturbed leaves the bridge no larger allowance than it found. *)
NoApprovalLeft == \A s \in Parties : pc[s] = "returned" /\ clean[s] => allowance <= before[s]

Numbers == UNION {1 .. MaxRuns[s] : s \in Parties}

Operation == INSTANCE AtomicOperation
             WITH Runs <- Parties \X Numbers,
                  began <- {r \in Parties \X Numbers : r[2] <= run[r[1]]},
                  returned <- {<<s, run[s]>> : s \in {x \in Parties : pc[x] = "returned"}}

(* Each run moves the tokens at most once, also with transactions that land when it is
   over, and one that returns has moved them. *)
ImplementsOperation == Operation!Spec

(* isOptedInToAsset() promises true if the asset was opted in: others can redeem for a
   receiver who has opted in. *)
OptInIsSeen == \A s \in Parties : pc[s] = "threw" /\ clean[s] => OptedIn \notin facts
=============================================================================
