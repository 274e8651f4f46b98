---------------------------- MODULE ClientsProofs ----------------------------
(***************************************************************************)
(* Theorems about ProtocolClients, for any set of its operations, with or  *)
(* without faults, and for any number of runs by each party: a run moves   *)
(* the tokens at most once, and has done so when it returns; whatever      *)
(* earlier runs have left on the chain, a run that nobody disturbs         *)
(* succeeds, and leaves the bridge no larger allowance than it found.      *)
(*                                                                         *)
(* All that the proofs need to know of the operations themselves is in     *)
(* Regular and Smooth: what a step yields whatever has been read, and what *)
(* it yields in addition when the chain has been read as it is.            *)
(***************************************************************************)
EXTENDS ProtocolClients, SequenceTheorems, TLAPS

(* The operations that have an allowance raised before they spend it. *)
Approving == {"EvmTransfer", "EvmExecutorTransfer", "EvmCircleTransfer",
              "EvmAutomaticCircleTransfer", "EvmPorticoTransfer", "EvmTbtcTransfer"}

(* What is approved, and then spent. *)
Cost(s) == IF plan = "EvmExecutorTransfer" THEN Amount(s) + Fee ELSE Amount(s)

(* The steps of an operation. *)
Legs == IF plan \in {"SolanaRedeem", "SolanaRedeemAndUnwrap"} THEN 3
        ELSE IF plan \in Approving \cup
                         {"SolanaSubmitAttestation", "SolanaCircleRedeem",
                          "SolanaExecutorRedeem", "SolanaTbtcRedeem",
                          "SuiSubmitAttestation", "AptosSubmitAttestation"} THEN 2
        ELSE 1

(* Whatever may be on the chain. *)
Names == {"claimed", "posted", "wrapped", "optedIn", "balance", "never", "ata", "sig1",
          "sig2", "setup", "referrer", "coinType", "emitter", "asset", "message", "guardian",
          "payload", "home", "fromReceiver", "algo"}

Facts == Names \X Nat \X Nat

Transactions ==
    [needs : SUBSET Facts, absent : SUBSET Facts, adds : SUBSET Facts,
                 removes : SUBSET Facts, approves : Nat, spends : Nat, pinned : Nat,
                 moves : BOOLEAN]

(* What is queued, and all that a run has yet to see confirmed. *)
Items(q) == UNION {q[k] : k \in DOMAIN q}

Pending(s) == inflight[s] \cup Items(queue[s])

Own(s) == <<s, run[s]>>

(* What is never there: a transaction that needs it is refused. *)
Never == Fact("never")
-----------------------------------------------------------------------------
(* The types of the variables. *)
TypeInv == /\ plan \in Operations
           /\ facts \in SUBSET Facts /\ allowance \in Nat /\ version \in Nat \ {0}
           /\ pc \in [Parties -> {"idle", "running", "threw", "returned"}]
           /\ run \in [Parties -> Nat] /\ \A s \in Parties : run[s] <= MaxRuns[s]
           /\ step \in [Parties -> 0 .. Legs]
           /\ queue \in [Parties -> Seq(SUBSET Transactions)]
           /\ inflight \in [Parties -> SUBSET Transactions]
           /\ loose \in SUBSET (Parties \X Nat \X Transactions)
           /\ moved \in SUBSET (Parties \X Nat)
           /\ clean \in [Parties -> BOOLEAN]
           /\ before \in [Parties -> Nat]

(* A transaction of run n of s: what it may take from the chain, or bring to it. *)
Sound(tx, s, n) ==
    /\ tx.removes \subseteq {Setup(s, k) : k \in 1 .. n}
    /\ ~ tx.moves => tx.removes = {}
    /\ Claimed \in tx.adds => tx.moves
    /\ Never \notin tx.adds
    /\ Balance \in tx.adds => OptedIn \in tx.adds
    /\ \A x \in tx.adds : x[1] = "setup" => x = Setup(s, n)
    /\ plan \notin Approving => tx.approves = 0 /\ tx.spends = 0

(* What is queued or under way is sound for the run that has it. *)
SoundInv == /\ \A s \in Parties : \A tx \in Pending(s) : Sound(tx, s, run[s])
            /\ \A l \in loose : Sound(l[3], l[1], l[2])

(* What transactions may have brought to the chain. *)
FactsInv == /\ Never \notin facts
            /\ Balance \in facts => OptedIn \in facts
            /\ \A x \in facts : x[1] = "setup" =>
                  \E s \in Parties : \E n \in 1 .. run[s] : x = Setup(s, n)

(* A run has no transactions before its first step or after its end, and returns when it
   has taken all its steps. *)
IdleInv == \A s \in Parties :
    /\ pc[s] # "running" \/ step[s] = 0 => queue[s] = << >> /\ inflight[s] = {}
    /\ pc[s] = "returned" => step[s] = Legs
    /\ pc[s] \in {"idle", "threw"} => step[s] = 0
    /\ pc[s] = "idle" => run[s] = 0
    /\ pc[s] # "idle" => run[s] > 0

(* What a run that did not wait has left under way belongs to a run that is over, and
   moves the tokens only if that run has not. *)
LooseInv ==
    /\ \A l \in loose :
          /\ l[2] \in 1 .. run[l[1]]
          /\ l[2] = run[l[1]] => pc[l[1]] = "threw"
          /\ l[3].moves => <<l[1], l[2]>> \notin moved
    /\ \A l, m \in loose :
          l[1] = m[1] /\ l[2] = m[2] /\ l[3].moves /\ m[3].moves => l = m

(* The group of the last step: one transaction, which moves the tokens or is refused. *)
Final(group) == \E tx \in group : group = {tx} /\ (tx.moves \/ Never \in tx.needs)

(* The tokens are moved by the one transaction of the last step. *)
MoveInv == \A s \in Parties : pc[s] = "running" =>
    IF step[s] < Legs
    THEN Own(s) \notin moved /\ \A tx \in Pending(s) : ~ tx.moves
    ELSE \/ /\ Len(queue[s]) = 1 /\ Final(Head(queue[s])) /\ inflight[s] = {}
            /\ Own(s) \notin moved
         \/ queue[s] = << >> /\ Final(inflight[s]) /\ Own(s) \notin moved
         \/ queue[s] = << >> /\ inflight[s] = {} /\ Own(s) \in moved

(* Only runs that have begun have moved the tokens, and those that return have. *)
MovedInv == /\ \A r \in moved : r[2] \in 1 .. run[r[1]]
            /\ \A s \in Parties : pc[s] = "returned" => Own(s) \in moved

(* On Sui the second step finds the setup of the first, or of an earlier run. *)
SetupInv == \A s \in Parties :
    pc[s] = "running" /\ plan = "SuiSubmitAttestation" /\ step[s] = 1 =>
        \/ Setup(s, run[s]) \in facts
        \/ \E tx \in Pending(s) : Setup(s, run[s]) \in tx.adds

(* The inductive invariant behind ImplementsOperation. *)
MInv == TypeInv /\ SoundInv /\ FactsInv /\ IdleInv /\ LooseInv /\ MoveInv /\ MovedInv
        /\ SetupInv
-----------------------------------------------------------------------------
(* The transactions of postVaa(): two that check signatures, and one that needs them. *)
Sigs(s)    == {Signature("sig1", s, run[s]), Signature("sig2", s, run[s])}
Signing(s) == {[Call EXCEPT !.adds = {g}] : g \in Sigs(s)}
Posting(s) == [Create(Posted) EXCEPT !.needs = Sigs(s)]

(* Who may succeed. *)
Able(s) == ~ Barred(s)

(* What the steps up to the k-th have put on the chain for those after it. *)
Due(s, k) ==
    (IF plan \in {"SolanaRedeem", "SolanaRedeemAndUnwrap"} /\ k > 0 THEN {Ata(s)} ELSE {})
    \cup (IF plan = "SolanaCircleRedeem" /\ k = 1 THEN {Ata(Receiver)} ELSE {})
    \cup (IF \/ plan \in {"SolanaRedeem", "SolanaRedeemAndUnwrap"} /\ k = 2
             \/ plan \in {"SolanaSubmitAttestation", "SolanaExecutorRedeem",
                          "SolanaTbtcRedeem"} /\ k = 1
          THEN {Posted} ELSE {})

(* One transaction that can execute now. *)
Ready(group) == \E tx \in group : group = {tx} /\ Executable(tx)

(* What an undisturbed run may have before it: nothing, a transaction that can execute, or
   what is left of postVaa(). *)
Shape(s) ==
    \/ queue[s] = << >> /\ inflight[s] = {}
    \/ queue[s] = << >> /\ Ready(inflight[s])
    \/ Len(queue[s]) = 1 /\ Ready(Head(queue[s])) /\ inflight[s] = {}
    \/ queue[s] = <<Signing(s), {Posting(s)}>> /\ inflight[s] = {} /\ Posted \notin facts
    \/ /\ queue[s] = << {Posting(s)} >> /\ Posted \notin facts
       /\ inflight[s] \subseteq Signing(s)
       /\ \A g \in Sigs(s) : g \in facts \/ [Call EXCEPT !.adds = {g}] \in inflight[s]

(* A run that nobody has disturbed and that may succeed can always go on. *)
AbleOne(s) == pc[s] = "running" /\ clean[s] /\ Able(s) =>
    /\ Own(s) \notin moved => Claimed \notin facts
    /\ step[s] < Legs => \A x \in Due(s, step[s]) :
                            x \in facts \/ \E tx \in Pending(s) : x \in tx.adds
    /\ Shape(s)

AbleInv == \A s \in Parties : AbleOne(s)

(* It covers what is spent, and is what was found or exactly what is spent. *)
Enough(s) == allowance >= Cost(s) /\ allowance \in {before[s], Cost(s)}

(* The allowance that an undisturbed run has found, what it makes of it and what is left. *)
AllowOne(s) == pc[s] \in {"running", "returned"} /\ clean[s] =>
    IF plan \notin Approving \/ step[s] = 0 THEN allowance = before[s]
    ELSE IF step[s] = 1
    THEN \/ Pending(s) = {} /\ Enough(s)
         \/ /\ allowance = before[s]
            /\ \E tx \in Pending(s) : Pending(s) = {tx} /\ tx.approves = Cost(s)
            /\ inflight[s] # {} => queue[s] = << >>
    ELSE IF Own(s) \in moved THEN allowance <= before[s]
    ELSE Enough(s) /\ \A tx \in Pending(s) : tx.approves = 0 /\ tx.spends = Cost(s)

AllowInv == \A s \in Parties : AllowOne(s)

(* The inductive invariant behind CleanRunSucceeds and NoApprovalLeft. *)
CInv == MInv /\ CleanRunSucceeds /\ AbleInv /\ AllowInv
-----------------------------------------------------------------------------
(* Operations of one transaction that reads nothing of the chain. *)
MoveOnly == {"EvmCreateAttestation", "SolanaCircleTransfer", "SolanaCreateAttestation",
             "SuiCreateAttestation", "AptosCreateAttestation", "AptosTransfer",
             "AptosCircleTransfer", "CosmwasmTransfer", "CosmwasmIbcTransfer",
             "CosmwasmCreateAttestation"}

ClaimOnly == {"EvmCircleRedeem", "EvmExecutorRedeem", "EvmPorticoRedeem", "EvmTbtcRedeem",
              "SuiRedeem", "SuiCircleRedeem", "SuiExecutorRedeem", "AptosRedeem",
              "AptosCircleRedeem", "CosmwasmSubmitAttestation", "CosmwasmRedeem"}

(* Those whose transaction is made for the version read. *)
PinnedMove == {"SolanaTbtcTransfer", "SuiTransfer", "SuiCircleTransfer",
               "SuiExecutorTransfer"}

(* What every group of transactions read at step k satisfies, whatever the chain. *)
Regular(s, c, k, g) ==
    /\ g \in Seq(SUBSET Transactions)
    /\ \A tx \in Items(g) : Sound(tx, s, run[s]) /\ (k < Legs => ~ tx.moves)
    /\ k = Legs /\ (plan = "SuiSubmitAttestation" => Setup(s, run[s]) \in c.facts) =>
          Len(g) = 1 /\ Final(Head(g))
    /\ k = 1 /\ plan = "SuiSubmitAttestation" =>
          \E tx \in Items(g) : Setup(s, run[s]) \in tx.adds

(* What a step may hand to a run that goes on undisturbed. *)
Opens(s, g) == \/ g = << >>
               \/ Len(g) = 1 /\ Ready(Head(g))
               \/ g = <<Signing(s), {Posting(s)}>> /\ Posted \notin facts

(* What those read from the chain as it is satisfy in addition, unless others have been
   there first. *)
Smooth(s, k, g) ==
    /\ Able(s) /\ Claimed \notin facts /\ Due(s, k - 1) \subseteq facts
    /\ plan \in Approving /\ k = 2 => allowance >= Cost(s)
    => /\ Opens(s, g)
       /\ k < Legs => \A x \in Due(s, k) : x \in facts \/ \E tx \in Items(g) : x \in tx.adds

(* The steps y of the operation, read from c, are as they should be. *)
Taken(s, c, y) == /\ Len(y) = Legs
                  /\ \A k \in 1 .. Legs : /\ Regular(s, c, k, y[k])
                                          /\ c = Chain(facts) => Smooth(s, k, y[k])

(* The transactions of a queue of no, one and two groups. *)
LEMMA ItemsOf ==
    /\ Items(<< >>) = {}
    /\ \A X : Items(<<X>>) = X
    /\ \A X, Y : Items(<<X, Y>>) = X \cup Y
BY DEF Items

(* A queue of one transaction. *)
LEMMA OneGroup ==
    ASSUME NEW tx \in Transactions
    PROVE  /\ One(tx) \in Seq(SUBSET Transactions) /\ Items(One(tx)) = {tx}
           /\ Len(One(tx)) = 1 /\ Head(One(tx)) = {tx} /\ One(tx) # << >>
BY ItemsOf DEF One

(* The fields of the transactions of which the others are made. *)
LEMMA Calls ==
    /\ Call = [needs |-> {}, absent |-> {}, adds |-> {}, removes |-> {},
               approves |-> 0, spends |-> 0, pinned |-> 0, moves |-> FALSE]
    /\ Move = [needs |-> {}, absent |-> {}, adds |-> {}, removes |-> {},
               approves |-> 0, spends |-> 0, pinned |-> 0, moves |-> TRUE]
    /\ Claim = [needs |-> {}, absent |-> {Claimed}, adds |-> {Claimed}, removes |-> {},
                approves |-> 0, spends |-> 0, pinned |-> 0, moves |-> TRUE]
    /\ Refused = [needs |-> {Never}, absent |-> {}, adds |-> {}, removes |-> {},
                approves |-> 0, spends |-> 0, pinned |-> 0, moves |-> FALSE]
    /\ \A x : Create(x) = [needs |-> {}, absent |-> {x}, adds |-> {x}, removes |-> {},
                           approves |-> 0, spends |-> 0, pinned |-> 0, moves |-> FALSE]
<1>1. ASSUME NEW tx, tx = Move
      PROVE  tx = [needs |-> {}, absent |-> {}, adds |-> {}, removes |-> {},
                   approves |-> 0, spends |-> 0, pinned |-> 0, moves |-> TRUE]
  BY <1>1 DEF Move, Call
<1>2. ASSUME NEW tx, tx = Claim
      PROVE  tx = [needs |-> {}, absent |-> {Claimed}, adds |-> {Claimed}, removes |-> {},
                   approves |-> 0, spends |-> 0, pinned |-> 0, moves |-> TRUE]
  BY <1>2 DEF Claim, Move, Call
<1>3. ASSUME NEW tx, tx = Refused
      PROVE  tx = [needs |-> {Never}, absent |-> {}, adds |-> {}, removes |-> {},
                   approves |-> 0, spends |-> 0, pinned |-> 0, moves |-> FALSE]
  BY <1>3 DEF Refused, Call, Never
<1>4. ASSUME NEW x, NEW tx, tx = Create(x)
      PROVE  tx = [needs |-> {}, absent |-> {x}, adds |-> {x}, removes |-> {},
                approves |-> 0, spends |-> 0, pinned |-> 0, moves |-> FALSE]
  BY <1>4 DEF Create, Call
<1> QED
  BY <1>1, <1>2, <1>3, <1>4 DEF Call

(* The facts nothing particular is known of. *)
Plain == {x \in Facts : x \notin {Claimed, Balance, Never} /\ x[1] # "setup"}

(* Which facts are plain, and what the others are. *)
LEMMA PlainFacts ==
    /\ Posted \in Plain /\ Wrapped \in Plain /\ OptedIn \in Plain
    /\ Payload \in Plain /\ Home \in Plain /\ FromReceiver \in Plain
    /\ Algo \in Plain /\ Custody \in Plain
    /\ \A name \in {"referrer", "coinType", "emitter", "asset", "message", "guardian"} :
          Fact(name) \in Plain
    /\ \A s, n \in Nat : /\ Ata(s) \in Plain
                         /\ Signature("sig1", s, n) \in Plain
                         /\ Signature("sig2", s, n) \in Plain
BY DEF Plain, Facts, Names, Claimed, Posted, Wrapped, OptedIn, Balance, Never, Payload, Home,
       FromReceiver, Algo, Custody, Fact, Ata, Signature

LEMMA OtherFacts ==
    /\ Claimed \in Facts /\ Claimed[1] # "setup" /\ Claimed # Never /\ Claimed # Balance
    /\ Balance \in Facts /\ Balance[1] # "setup" /\ Balance # Never
    /\ Never \in Facts /\ Never[1] # "setup"
    /\ \A s, n \in Nat : /\ Setup(s, n) \in Facts /\ Setup(s, n)[1] = "setup"
                         /\ Setup(s, n)[2] = s
                         /\ Setup(s, n) \notin {Claimed, Balance, Never}
BY DEF Facts, Names, Claimed, Balance, Never, Fact, Setup

(* A call that takes nothing from the chain. *)
LEMMA SoundCall ==
    ASSUME NEW tx \in Transactions, NEW s \in Parties, tx.removes = {},
           plan \notin Approving => tx.approves = 0 /\ tx.spends = 0,
           tx.adds \subseteq Plain \cup {Claimed, Balance},
           Claimed \in tx.adds => tx.moves, Balance \in tx.adds => OptedIn \in tx.adds
    PROVE  Sound(tx, s, run[s])
BY OtherFacts DEF Sound, Plain, Never

(* A transaction that only moves the tokens can always execute. *)
LEMMA MoveTx ==
    ASSUME TypeInv, NEW s \in Parties
    PROVE  Move \in Transactions /\ Move.moves /\ Executable(Move) /\ Sound(Move, s, run[s])
<1>1. /\ Move \in Transactions /\ Move.needs = {} /\ Move.absent = {} /\ Move.adds = {}
      /\ Move.removes = {} /\ Move.approves = 0 /\ Move.spends = 0 /\ Move.pinned = 0
      /\ Move.moves
  BY Calls DEF Transactions
<1>2. Sound(Move, s, run[s])
  BY <1>1, SoundCall
<1>3. Executable(Move)
  BY <1>1 DEF Executable, TypeInv
<1> QED
  BY <1>1, <1>2, <1>3

(* A VAA or message can be redeemed as long as nobody has. *)
LEMMA ClaimTx ==
    ASSUME TypeInv, NEW s \in Parties
    PROVE  /\ Claim \in Transactions /\ Claim.moves /\ Sound(Claim, s, run[s])
           /\ Claimed \notin facts => Executable(Claim)
<1>1. /\ Claim \in Transactions /\ Claim.needs = {} /\ Claim.absent = {Claimed}
      /\ Claim.adds = {Claimed} /\ Claim.removes = {} /\ Claim.approves = 0
      /\ Claim.spends = 0 /\ Claim.pinned = 0 /\ Claim.moves
  BY Calls, OtherFacts DEF Transactions
<1>2. Sound(Claim, s, run[s])
  BY <1>1, SoundCall, OtherFacts
<1>3. Claimed \notin facts => Executable(Claim)
  BY <1>1 DEF Executable, TypeInv
<1> QED
  BY <1>1, <1>2, <1>3

(* Claims that need more to be there or absent, and add more. *)
LEMMA ClaimWith ==
    ASSUME TypeInv, NEW s \in Parties, NEW needs \in SUBSET Facts, NEW more \in SUBSET Plain,
           NEW absent \in SUBSET Plain,
           NEW tx, tx = [needs |-> needs, absent |-> {Claimed} \cup absent,
                         adds |-> {Claimed} \cup more, removes |-> {},
                         approves |-> 0, spends |-> 0, pinned |-> 0, moves |-> TRUE]
    PROVE  /\ tx \in Transactions /\ tx.moves /\ Sound(tx, s, run[s])
           /\ Claimed \notin facts /\ needs \subseteq facts /\ absent \cap facts = {} =>
                 Executable(tx)
<1>1. /\ {Claimed} \cup absent \in SUBSET Facts /\ {Claimed} \cup more \in SUBSET Facts
      /\ Balance \notin {Claimed} \cup more
  BY OtherFacts DEF Plain
<1>2. /\ tx \in Transactions /\ tx.needs = needs /\ tx.absent = {Claimed} \cup absent
      /\ tx.adds = {Claimed} \cup more /\ tx.removes = {} /\ tx.approves = 0
      /\ tx.spends = 0 /\ tx.pinned = 0 /\ tx.moves
  BY <1>1 DEF Transactions
<1>3. Sound(tx, s, run[s])
  BY <1>1, <1>2, SoundCall
<1>4. Claimed \notin facts /\ needs \subseteq facts /\ absent \cap facts = {} =>
         Executable(tx)
  BY <1>1, <1>2 DEF Executable, TypeInv
<1> QED
  BY <1>1, <1>2, <1>3, <1>4

(* What the client throws instead of a transaction. *)
LEMMA RefusedTx ==
    ASSUME NEW s \in Parties
    PROVE  /\ Refused \in Transactions /\ Never \in Refused.needs /\ ~ Refused.moves
           /\ Sound(Refused, s, run[s])
<1>1. /\ Refused \in Transactions /\ Refused.needs = {Never} /\ Refused.adds = {}
      /\ Refused.removes = {} /\ Refused.approves = 0 /\ Refused.spends = 0
      /\ ~ Refused.moves
  BY Calls, OtherFacts DEF Transactions
<1> QED
  BY <1>1, SoundCall

(* Creating what is not there. *)
LEMMA CreateTx ==
    ASSUME TypeInv, NEW s \in Parties, NEW x \in Plain
    PROVE  /\ Create(x) \in Transactions /\ ~ Create(x).moves /\ Sound(Create(x), s, run[s])
           /\ x \in Create(x).adds /\ x \notin facts => Executable(Create(x))
<1>1. /\ Create(x) \in Transactions /\ Create(x).needs = {} /\ Create(x).absent = {x}
      /\ Create(x).adds = {x} /\ Create(x).removes = {} /\ Create(x).approves = 0
      /\ Create(x).spends = 0 /\ Create(x).pinned = 0 /\ ~ Create(x).moves
  BY Calls DEF Transactions, Plain
<1>2. Sound(Create(x), s, run[s])
  BY <1>1, SoundCall DEF Plain
<1>3. x \notin facts => Executable(Create(x))
  BY <1>1 DEF Executable, TypeInv
<1> QED
  BY <1>1, <1>2, <1>3

(* The step that ends with one transaction. *)
LEMMA EndsWith ==
    ASSUME NEW s \in Parties, NEW c, NEW tx \in Transactions, Sound(tx, s, run[s]),
           tx.moves \/ Never \in tx.needs,
           NEW k, k = Legs, k # 1 \/ plan # "SuiSubmitAttestation"
    PROVE  Regular(s, c, k, One(tx)) /\ (Executable(tx) => Smooth(s, k, One(tx)))
<1>1. Legs \in 1 .. 3
  BY DEF Legs
<1> QED
  BY <1>1, OneGroup DEF Regular, Smooth, Final, Opens, Ready

(* Operations of one transaction, which reads nothing, or only whether it was redeemed. *)
LEMMA YieldsMove ==
    ASSUME TypeInv, NEW s \in Parties, NEW c, plan \in MoveOnly
    PROVE  Taken(s, c, Yields(s, c))
<1>1. Yields(s, c) = << One(Move) >>
  BY DEF MoveOnly, Yields, EvmCreateAttestation, SolanaCircleTransfer,
         SolanaCreateAttestation, SuiCreateAttestation, AptosCreateAttestation,
         AptosTransfer, AptosCircleTransfer, CosmwasmTransfer, CosmwasmIbcTransfer,
         CosmwasmCreateAttestation
<1>2. Legs = 1 /\ plan # "SuiSubmitAttestation"
  BY DEF MoveOnly, Legs, Approving
<1> QED
  BY SMTT(30), <1>1, <1>2, MoveTx, EndsWith DEF Taken

LEMMA YieldsClaim ==
    ASSUME TypeInv, NEW s \in Parties, NEW c, plan \in ClaimOnly
    PROVE  Taken(s, c, Yields(s, c))
<1>1. Yields(s, c) = << One(Claim) >>
  BY DEF ClaimOnly, Yields, EvmCircleRedeem, EvmExecutorRedeem, EvmPorticoRedeem,
         EvmTbtcRedeem, SuiRedeem, SuiCircleRedeem, SuiExecutorRedeem, AptosRedeem,
         AptosCircleRedeem, CosmwasmSubmitAttestation, CosmwasmRedeem
<1>2. Legs = 1 /\ plan # "SuiSubmitAttestation"
  BY DEF ClaimOnly, Legs, Approving
<1>3. Regular(s, c, 1, One(Claim)) /\ (Claimed \notin facts => Smooth(s, 1, One(Claim)))
  BY <1>2, ClaimTx, EndsWith
<1>4. Claimed \in facts => Smooth(s, 1, One(Claim))
  BY DEF Smooth
<1> QED
  BY SMTT(30), <1>1, <1>2, <1>3, <1>4 DEF Taken

(* Transactions made for a version: that of Sui coins, that of a Solana program. *)
LEMMA YieldsPinned ==
    ASSUME TypeInv, NEW s \in Parties, NEW c, c.version \in Nat,
           c = Chain(facts) => c.version = version, plan \in PinnedMove
    PROVE  Taken(s, c, Yields(s, c))
<1> DEFINE tx == [Move EXCEPT !.pinned = c.version]
<1>1. Yields(s, c) = << One(tx) >>
  BY DEF PinnedMove, Yields, SolanaTbtcTransfer, SuiTransfer, SuiCircleTransfer,
         SuiExecutorTransfer
<1>2. Legs = 1 /\ plan # "SuiSubmitAttestation"
  BY DEF PinnedMove, Legs, Approving
<1>3. ASSUME NEW t, t = tx
      PROVE  t = [needs |-> {}, absent |-> {}, adds |-> {}, removes |-> {}, approves |-> 0,
                  spends |-> 0, pinned |-> c.version, moves |-> TRUE]
  BY <1>3, Calls
<1> HIDE DEF tx
<1>4. tx = [needs |-> {}, absent |-> {}, adds |-> {}, removes |-> {}, approves |-> 0,
            spends |-> 0, pinned |-> c.version, moves |-> TRUE]
  BY <1>3
<1>5. /\ tx \in Transactions /\ tx.needs = {} /\ tx.absent = {} /\ tx.adds = {}
      /\ tx.removes = {} /\ tx.approves = 0 /\ tx.spends = 0 /\ tx.pinned = c.version
      /\ tx.moves
  BY <1>4 DEF Transactions
<1>6. Sound(tx, s, run[s])
  BY <1>5, SoundCall
<1>7. c = Chain(facts) => Executable(tx)
  BY <1>5 DEF Executable, TypeInv
<1> QED
  BY SMTT(30), <1>1, <1>2, <1>5, <1>6, <1>7, EndsWith DEF Taken

(* Allowance first, unless there is enough, and then the transfer that spends it. *)
LEMMA YieldsApproval ==
    ASSUME TypeInv, NEW s \in Parties, NEW c, c.allowance \in Nat, plan \in Approving
    PROVE  /\ Taken(s, c, Yields(s, c))
           /\ Yields(s, c) = << Approve(Cost(s), c), One(Spend(Cost(s))) >>
           /\ IF c.allowance < Cost(s)
              THEN \E tx \in Transactions :
                      Approve(Cost(s), c) = One(tx) /\ tx.approves = Cost(s)
              ELSE Approve(Cost(s), c) = << >>
           /\ Spend(Cost(s)).spends = Cost(s) /\ Spend(Cost(s)).approves = 0
<1> DEFINE raise == [Call EXCEPT !.approves = Cost(s)]
           pay   == Spend(Cost(s))
<1>1. Yields(s, c) = << Approve(Cost(s), c), One(pay) >>
  BY DEF Approving, Yields, EvmTransfer, EvmExecutorTransfer, EvmCircleTransfer,
         EvmAutomaticCircleTransfer, EvmPorticoTransfer, EvmTbtcTransfer, Cost
<1>2. Legs = 2 /\ plan # "SuiSubmitAttestation" /\ Due(s, 1) = {} /\ Due(s, 0) = {}
  BY DEF Legs, Approving, Due
<1>3. Cost(s) \in Nat /\ Cost(s) > 0
  BY DEF Cost, Amount, Fee, Parties
<1>4. /\ raise \in Transactions /\ ~ raise.moves /\ Sound(raise, s, run[s])
      /\ Executable(raise) /\ raise.approves = Cost(s)
  <2>1. ASSUME NEW t, t = raise
        PROVE  t = [needs |-> {}, absent |-> {}, adds |-> {}, removes |-> {},
                    approves |-> Cost(s), spends |-> 0, pinned |-> 0, moves |-> FALSE]
    BY <2>1, Calls
  <2> HIDE DEF raise
  <2>2. raise = [needs |-> {}, absent |-> {}, adds |-> {}, removes |-> {},
                 approves |-> Cost(s), spends |-> 0, pinned |-> 0, moves |-> FALSE]
    BY <2>1
  <2>3. /\ raise \in Transactions /\ raise.needs = {} /\ raise.absent = {} /\ raise.adds = {}
        /\ raise.removes = {} /\ raise.approves = Cost(s) /\ raise.spends = 0
        /\ raise.pinned = 0 /\ ~ raise.moves
    BY <2>2, <1>3 DEF Transactions
  <2>4. Sound(raise, s, run[s])
    BY <2>3, SoundCall
  <2>5. Executable(raise)
    BY <2>3 DEF Executable, TypeInv
  <2> QED
    BY <2>3, <2>4, <2>5
<1>5. /\ pay \in Transactions /\ pay.moves /\ Sound(pay, s, run[s])
      /\ pay.spends = Cost(s) /\ pay.approves = 0
      /\ allowance >= Cost(s) => Executable(pay)
  <2>1. ASSUME NEW t, t = pay
        PROVE  t = [needs |-> {}, absent |-> {}, adds |-> {}, removes |-> {},
                    approves |-> 0, spends |-> Cost(s), pinned |-> 0, moves |-> TRUE]
    BY <2>1, Calls DEF Spend
  <2> HIDE DEF pay
  <2>2. pay = [needs |-> {}, absent |-> {}, adds |-> {}, removes |-> {},
               approves |-> 0, spends |-> Cost(s), pinned |-> 0, moves |-> TRUE]
    BY <2>1
  <2>3. /\ pay \in Transactions /\ pay.needs = {} /\ pay.absent = {} /\ pay.adds = {}
        /\ pay.removes = {} /\ pay.approves = 0 /\ pay.spends = Cost(s)
        /\ pay.pinned = 0 /\ pay.moves
    BY <2>2, <1>3 DEF Transactions
  <2>4. Sound(pay, s, run[s])
    BY <2>3, SoundCall
  <2>5. allowance >= Cost(s) => Executable(pay)
    BY <1>3, <2>3 DEF Executable, TypeInv
  <2> QED
    BY <2>3, <2>4, <2>5
<1>6. IF c.allowance < Cost(s) THEN Approve(Cost(s), c) = One(raise)
      ELSE Approve(Cost(s), c) = << >>
  BY DEF Approve, When
<1> HIDE DEF raise, pay
<1>7. Regular(s, c, 1, One(raise)) /\ Smooth(s, 1, One(raise))
  BY <1>2, <1>4, OneGroup DEF Regular, Smooth, Opens, Ready
<1>8. Regular(s, c, 1, << >>) /\ Smooth(s, 1, << >>)
  BY <1>2, ItemsOf DEF Regular, Smooth, Opens
<1>9. Regular(s, c, 2, One(pay)) /\ Smooth(s, 2, One(pay))
  BY <1>2, <1>5, OneGroup DEF Regular, Smooth, Final, Opens, Ready
<1>10. Taken(s, c, Yields(s, c))
  BY <1>1, <1>2, <1>6, <1>7, <1>8, <1>9 DEF Taken
<1> QED
  BY SMTT(30), <1>1, <1>4, <1>5, <1>6, <1>10 DEF pay

(* First and later attestations on EVM chains. *)
LEMMA YieldsEvmAttestation ==
    ASSUME TypeInv, NEW s \in Parties, NEW c, c = Chain(facts) => c.facts = facts,
           plan = "EvmSubmitAttestation"
    PROVE  Taken(s, c, Yields(s, c))
<1> DEFINE later == [Claim EXCEPT !.needs = {Wrapped}]
           first == [Claim EXCEPT !.absent = {Wrapped, Claimed}, !.adds = {Wrapped, Claimed}]
<1>1. Yields(s, c) = << One(IF Wrapped \in c.facts THEN later ELSE first) >>
  BY DEF Yields, EvmSubmitAttestation
<1>2. Legs = 1 /\ plan # "SuiSubmitAttestation"
  BY DEF Legs, Approving
<1>3. ASSUME NEW t, t = later
      PROVE  t = [needs |-> {Wrapped}, absent |-> {Claimed} \cup {},
                  adds |-> {Claimed} \cup {}, removes |-> {}, approves |-> 0, spends |-> 0,
                  pinned |-> 0, moves |-> TRUE]
  BY <1>3, Calls
<1>4. ASSUME NEW t, t = first
      PROVE  t = [needs |-> {}, absent |-> {Claimed} \cup {Wrapped},
                  adds |-> {Claimed} \cup {Wrapped}, removes |-> {}, approves |-> 0,
                  spends |-> 0, pinned |-> 0, moves |-> TRUE]
  BY <1>4, Calls
<1> DEFINE tx == IF Wrapped \in c.facts THEN later ELSE first
<1> HIDE DEF later, first
<1>5. /\ later = [needs |-> {Wrapped}, absent |-> {Claimed} \cup {},
                   adds |-> {Claimed} \cup {}, removes |-> {}, approves |-> 0,
                   spends |-> 0, pinned |-> 0, moves |-> TRUE]
       /\ first = [needs |-> {}, absent |-> {Claimed} \cup {Wrapped},
                   adds |-> {Claimed} \cup {Wrapped}, removes |-> {}, approves |-> 0,
                   spends |-> 0, pinned |-> 0, moves |-> TRUE]
  BY <1>3, <1>4
<1>6. {Wrapped} \in SUBSET Facts /\ {Wrapped} \in SUBSET Plain /\ {} \in SUBSET Plain
       /\ {} \in SUBSET Facts
  BY PlainFacts DEF Plain
<1>7. /\ later \in Transactions /\ later.moves /\ Sound(later, s, run[s])
      /\ Claimed \notin facts /\ Wrapped \in facts => Executable(later)
  BY <1>5, <1>6, ClaimWith
<1>8. /\ first \in Transactions /\ first.moves /\ Sound(first, s, run[s])
      /\ Claimed \notin facts /\ Wrapped \notin facts => Executable(first)
  BY SMTT(30), <1>5, <1>6, ClaimWith
<1>9. /\ tx \in Transactions /\ tx.moves /\ Sound(tx, s, run[s])
      /\ Claimed \notin facts /\ c = Chain(facts) => Executable(tx)
  BY <1>7, <1>8
<1>10. Claimed \in facts => Smooth(s, 1, One(tx))
  BY DEF Smooth
<1> HIDE DEF tx
<1>11. Regular(s, c, 1, One(tx)) /\ (c = Chain(facts) => Smooth(s, 1, One(tx)))
  BY <1>2, <1>9, <1>10, EndsWith
<1> QED
  BY <1>1, <1>2, <1>11 DEF Taken, tx

(* A transfer with a payload is redeemed by its receiver, if at all. *)
LEMMA YieldsEvmRedeem ==
    ASSUME TypeInv, NEW s \in Parties, NEW c, c = Chain(facts) => c.facts = facts,
           plan = "EvmRedeem"
    PROVE  Taken(s, c, Yields(s, c))
<1> DEFINE redeems == Payload \in c.facts =>
                          s = Receiver /\ {Home, FromReceiver} \cap c.facts # {}
<1>1. Yields(s, c) = << One(IF redeems THEN Claim ELSE Refused) >>
  BY DEF Yields, EvmRedeem
<1>2. Legs = 1 /\ plan # "SuiSubmitAttestation"
  BY DEF Legs, Approving
<1>3. c = Chain(facts) /\ ~ redeems => ~ Able(s)
  BY DEF Able, Barred
<1> HIDE DEF redeems
<1>4. CASE redeems
  <2>1. Regular(s, c, 1, One(Claim)) /\ (Claimed \notin facts => Smooth(s, 1, One(Claim)))
    BY <1>2, ClaimTx, EndsWith
  <2>2. Claimed \in facts => Smooth(s, 1, One(Claim))
    BY DEF Smooth
  <2> QED
    BY <1>1, <1>2, <1>4, <2>1, <2>2 DEF Taken
<1>5. CASE ~ redeems
  <2>1. Regular(s, c, 1, One(Refused))
    BY <1>2, RefusedTx, EndsWith
  <2>2. c = Chain(facts) => Smooth(s, 1, One(Refused))
    BY <1>3, <1>5 DEF Smooth
  <2> QED
    BY <1>1, <1>2, <1>5, <2>1, <2>2 DEF Taken
<1> QED
  BY <1>4, <1>5

(* Transfers of native and of wrapped tokens of Solana. *)
LEMMA YieldsSolanaTransfer ==
    ASSUME TypeInv, NEW s \in Parties, NEW c, c = Chain(facts) => c.facts = facts,
           plan \in {"SolanaTransfer", "SolanaExecutorTransfer"}
    PROVE  Taken(s, c, Yields(s, c))
<1> DEFINE needs  == IF Wrapped \in c.facts THEN {Wrapped} ELSE {}
           absent == IF Wrapped \in c.facts THEN {} ELSE {Wrapped}
           extra == IF plan = "SolanaTransfer" THEN {} ELSE {Fact("referrer")}
           tx == IF plan = "SolanaTransfer" THEN SolanaTransferCall(c)
                 ELSE [SolanaTransferCall(c) EXCEPT !.adds = {Fact("referrer")}]
<1>1. Yields(s, c) = << One(tx) >>
  BY DEF Yields, SolanaTransfer, SolanaExecutorTransfer
<1>2. Legs = 1 /\ plan # "SuiSubmitAttestation"
  BY DEF Legs, Approving
<1>3. ASSUME NEW t, t = SolanaTransferCall(c)
      PROVE  t = [needs |-> needs, absent |-> absent, adds |-> {}, removes |-> {},
                  approves |-> 0, spends |-> 0, pinned |-> 0, moves |-> TRUE]
  BY <1>3, Calls DEF SolanaTransferCall
<1>4. /\ needs = IF Wrapped \in c.facts THEN {Wrapped} ELSE {}
      /\ absent = IF Wrapped \in c.facts THEN {} ELSE {Wrapped}
  OBVIOUS
<1> HIDE DEF needs, absent
<1>5. tx = [needs |-> needs, absent |-> absent, adds |-> extra, removes |-> {},
            approves |-> 0, spends |-> 0, pinned |-> 0, moves |-> TRUE]
  <2>1. CASE plan = "SolanaTransfer"
    BY <1>3, <2>1
  <2>2. CASE plan # "SolanaTransfer"
    <3>1. PICK old : old = SolanaTransferCall(c)
      OBVIOUS
    <3>2. old = [needs |-> needs, absent |-> absent, adds |-> {}, removes |-> {},
                 approves |-> 0, spends |-> 0, pinned |-> 0, moves |-> TRUE]
      BY <1>3, <3>1
    <3>3. ASSUME NEW t, t = [old EXCEPT !.adds = {Fact("referrer")}]
          PROVE  t = [needs |-> needs, absent |-> absent, adds |-> {Fact("referrer")},
                      removes |-> {}, approves |-> 0, spends |-> 0, pinned |-> 0,
                      moves |-> TRUE]
      BY <3>2, <3>3
    <3> QED
      BY <2>2, <3>1, <3>3
  <2> QED
    BY <2>1, <2>2
<1>6. extra \subseteq Plain
  BY PlainFacts
<1> HIDE DEF extra, tx
<1>7. /\ tx \in Transactions /\ tx.moves /\ tx.removes = {} /\ tx.adds = extra
      /\ tx.approves = 0 /\ tx.spends = 0 /\ tx.pinned = 0
      /\ tx.needs = IF Wrapped \in c.facts THEN {Wrapped} ELSE {}
      /\ tx.absent = IF Wrapped \in c.facts THEN {} ELSE {Wrapped}
  BY <1>4, <1>6, <1>5, PlainFacts DEF Transactions, Plain
<1>8. Sound(tx, s, run[s])
  BY <1>6, <1>7, OtherFacts, SoundCall DEF Plain
<1>9. c.facts = facts => Executable(tx)
  BY <1>7 DEF Executable, TypeInv
<1> QED
  BY SMTT(30), <1>1, <1>2, <1>7, <1>8, <1>9, EndsWith DEF Taken

(* A step before the last one that yields nothing, or creates something. *)
LEMMA NothingStep ==
    ASSUME NEW s \in Parties, NEW c, NEW k, k \in 1 .. Legs, k < Legs,
           plan # "SuiSubmitAttestation"
    PROVE  /\ Regular(s, c, k, << >>)
           /\ Due(s, k) \subseteq facts => Smooth(s, k, << >>)
BY ItemsOf DEF Regular, Smooth, Opens

LEMMA CreateStep ==
    ASSUME TypeInv, NEW s \in Parties, NEW c, NEW k, k \in 1 .. Legs, k < Legs,
           plan # "SuiSubmitAttestation", NEW x \in Plain
    PROVE  /\ Regular(s, c, k, One(Create(x)))
           /\ x \notin facts /\ Due(s, k) \subseteq Due(s, k - 1) \cup {x} =>
                 Smooth(s, k, One(Create(x)))
<1>1. /\ Create(x) \in Transactions /\ ~ Create(x).moves /\ Sound(Create(x), s, run[s])
      /\ x \in Create(x).adds /\ x \notin facts => Executable(Create(x))
  BY CreateTx
<1>2. x \in Create(x).adds
  BY Calls
<1>3. Regular(s, c, k, One(Create(x)))
  BY <1>1, OneGroup DEF Regular
<1>4. x \notin facts /\ Due(s, k) \subseteq Due(s, k - 1) \cup {x} =>
         Smooth(s, k, One(Create(x)))
  BY <1>1, <1>2, OneGroup, CreateTx DEF Smooth, Opens, Ready
<1> QED
  BY <1>3, <1>4

(* The step that creates the sender's token account if it is missing. *)
LEMMA CreateAtaStep ==
    ASSUME TypeInv, NEW s \in Parties, NEW c, NEW k, k \in 1 .. Legs, k < Legs,
           c = Chain(facts) => c.facts = facts,
           plan # "SuiSubmitAttestation", Due(s, k) = Due(s, k - 1) \cup {Ata(s)}
    PROVE  /\ Regular(s, c, k, CreateAta(s, c))
           /\ c = Chain(facts) => Smooth(s, k, CreateAta(s, c))
<1>1. Ata(s) \in Plain
  BY PlainFacts DEF Parties
<1>2. CASE Ata(s) \in c.facts
  <2>1. CreateAta(s, c) = << >>
    BY <1>2 DEF CreateAta, When
  <2>2. c = Chain(facts) /\ Due(s, k - 1) \subseteq facts => Due(s, k) \subseteq facts
    BY <1>2
  <2>3. ~ (Due(s, k - 1) \subseteq facts) => Smooth(s, k, << >>)
    BY DEF Smooth
  <2> QED
    BY <2>1, <2>2, <2>3, NothingStep
<1>3. CASE Ata(s) \notin c.facts
  <2>1. CreateAta(s, c) = One(Create(Ata(s)))
    BY <1>3 DEF CreateAta, When
  <2> QED
    BY <1>1, <1>3, <2>1, CreateStep
<1> QED
  BY <1>2, <1>3

(* Transactions of postVaa(): those that only add, those for a signature, the last one. *)
LEMMA AddingTx ==
    ASSUME NEW adds \in SUBSET Facts, NEW tx,
           tx = [needs |-> {}, absent |-> {}, adds |-> adds, removes |-> {},
                 approves |-> 0, spends |-> 0, pinned |-> 0, moves |-> FALSE]
    PROVE  /\ tx \in Transactions /\ tx.needs = {} /\ tx.absent = {} /\ tx.adds = adds
           /\ tx.removes = {} /\ tx.approves = 0 /\ tx.spends = 0 /\ tx.pinned = 0
           /\ ~ tx.moves
BY DEF Transactions

LEMMA SigningTx ==
    ASSUME TypeInv, NEW s \in Parties, NEW g \in Sigs(s), NEW tx,
           tx = [Call EXCEPT !.adds = {g}]
    PROVE  /\ tx \in Transactions /\ tx.needs = {} /\ tx.absent = {} /\ tx.adds = {g}
           /\ tx.removes = {} /\ tx.approves = 0 /\ tx.spends = 0 /\ tx.pinned = 0
           /\ ~ tx.moves /\ Sound(tx, s, run[s])
<1>1. g \in Plain /\ {g} \in SUBSET Facts
  <2>1. s \in Nat /\ run[s] \in Nat
    BY DEF TypeInv, Parties
  <2>2. g \in Plain
    BY <2>1, PlainFacts DEF Sigs
  <2> QED
    BY <2>2 DEF Plain
<1>2. tx = [needs |-> {}, absent |-> {}, adds |-> {g}, removes |-> {},
            approves |-> 0, spends |-> 0, pinned |-> 0, moves |-> FALSE]
  BY Calls
<1>3. /\ tx \in Transactions /\ tx.needs = {} /\ tx.absent = {} /\ tx.adds = {g}
      /\ tx.removes = {} /\ tx.approves = 0 /\ tx.spends = 0 /\ tx.pinned = 0
      /\ ~ tx.moves
  BY <1>1, <1>2, AddingTx
<1>4. Sound(tx, s, run[s])
  BY <1>1, <1>3, SoundCall DEF Plain
<1> QED
  BY <1>3, <1>4

LEMMA PostingTx ==
    ASSUME TypeInv, NEW s \in Parties, NEW tx, tx = Posting(s)
    PROVE  /\ tx \in Transactions /\ tx.needs = Sigs(s) /\ tx.absent = {Posted}
           /\ tx.adds = {Posted} /\ tx.removes = {} /\ tx.approves = 0 /\ tx.spends = 0
           /\ tx.pinned = 0 /\ ~ tx.moves /\ Sound(tx, s, run[s])
<1>1. Sigs(s) \in SUBSET Facts /\ Posted \in Plain /\ Posted \in Facts
  BY SMTT(30), PlainFacts DEF Sigs, Plain, TypeInv, Parties
<1>2. tx = [needs |-> Sigs(s), absent |-> {Posted}, adds |-> {Posted}, removes |-> {},
            approves |-> 0, spends |-> 0, pinned |-> 0, moves |-> FALSE]
  BY Calls DEF Posting
<1>3. /\ tx \in Transactions /\ tx.needs = Sigs(s) /\ tx.absent = {Posted}
      /\ tx.adds = {Posted} /\ tx.removes = {} /\ tx.approves = 0 /\ tx.spends = 0
      /\ tx.pinned = 0 /\ ~ tx.moves
  BY <1>1, <1>2 DEF Transactions
<1>4. Sound(tx, s, run[s])
  BY <1>1, <1>3, SoundCall DEF Plain
<1> QED
  BY <1>3, <1>4

(* The step of postVaa(): nothing if the VAA is posted, or two groups. *)
LEMMA PostVaaStep ==
    ASSUME TypeInv, NEW s \in Parties, NEW c, NEW k, k \in 1 .. Legs, k < Legs,
           c = Chain(facts) => c.facts = facts,
           plan # "SuiSubmitAttestation", Due(s, k) = Due(s, k - 1) \cup {Posted}
    PROVE  /\ Regular(s, c, k, PostVaa(s, run[s], c))
           /\ c = Chain(facts) => Smooth(s, k, PostVaa(s, run[s], c))
<1>1. CASE Posted \in c.facts
  <2>1. PostVaa(s, run[s], c) = << >>
    BY <1>1 DEF PostVaa, When
  <2>2. c = Chain(facts) /\ Due(s, k - 1) \subseteq facts => Due(s, k) \subseteq facts
    BY <1>1
  <2>3. ~ (Due(s, k - 1) \subseteq facts) => Smooth(s, k, << >>)
    BY DEF Smooth
  <2> QED
    BY <2>1, <2>2, <2>3, NothingStep
<1>2. CASE Posted \notin c.facts
  <2> DEFINE g == <<Signing(s), {Posting(s)}>>
  <2>1. PostVaa(s, run[s], c) = g
    BY <1>2 DEF PostVaa, When, Signing, Posting, Sigs
  <2>2. Signing(s) = {[Call EXCEPT !.adds = {x}] : x \in Sigs(s)}
    BY DEF Signing, Sigs
  <2>3. \A tx \in Signing(s) : tx \in Transactions /\ ~ tx.moves /\ Sound(tx, s, run[s])
    BY <2>2, SigningTx
  <2>4. /\ Posting(s) \in Transactions /\ ~ Posting(s).moves /\ Sound(Posting(s), s, run[s])
        /\ Posting(s).adds = {Posted}
    BY PostingTx
  <2>5. Items(g) = Signing(s) \cup {Posting(s)}
    BY ItemsOf
  <2>6. g \in Seq(SUBSET Transactions)
    BY <2>3, <2>4
  <2> HIDE DEF g
  <2>7. Regular(s, c, k, g)
    BY <2>3, <2>4, <2>5, <2>6 DEF Regular
  <2>8. c = Chain(facts) => Opens(s, g)
    BY <1>2 DEF Opens, g
  <2>9. c = Chain(facts) => Smooth(s, k, g)
    BY <2>4, <2>5, <2>8 DEF Smooth
  <2> QED
    BY <2>1, <2>7, <2>9
<1> QED
  BY <1>1, <1>2

(* The last step of the redeems of Solana, for those who may and for those who may not. *)
LEMMA RedeemedStep ==
    ASSUME TypeInv, NEW s \in Parties, NEW c, NEW needs \in SUBSET Facts, NEW k, k = Legs, k # 1
    PROVE  /\ Regular(s, c, k, Redeemed(needs))
           /\ needs \subseteq facts => Smooth(s, k, Redeemed(needs))
<1> DEFINE tx == [Claim EXCEPT !.needs = needs]
<1>1. ASSUME NEW t, t = tx
      PROVE  t = [needs |-> needs, absent |-> {Claimed} \cup {}, adds |-> {Claimed} \cup {},
                  removes |-> {}, approves |-> 0, spends |-> 0, pinned |-> 0, moves |-> TRUE]
  BY <1>1, Calls
<1>2. Redeemed(needs) = One(tx)
  BY DEF Redeemed
<1> HIDE DEF tx
<1>3. tx = [needs |-> needs, absent |-> {Claimed} \cup {}, adds |-> {Claimed} \cup {},
            removes |-> {}, approves |-> 0, spends |-> 0, pinned |-> 0, moves |-> TRUE]
  BY <1>1
<1>4. {} \in SUBSET Plain /\ {} \cap facts = {}
  OBVIOUS
<1>5. /\ tx \in Transactions /\ tx.moves /\ Sound(tx, s, run[s])
      /\ Claimed \notin facts /\ needs \subseteq facts => Executable(tx)
  BY <1>3, <1>4, ClaimWith
<1>6. Regular(s, c, k, One(tx)) /\ (Executable(tx) => Smooth(s, k, One(tx)))
  BY <1>5, EndsWith
<1>7. Claimed \in facts => Smooth(s, k, One(tx))
  BY DEF Smooth
<1> QED
  BY <1>2, <1>5, <1>6, <1>7

LEMMA RefusedStep ==
    ASSUME NEW s \in Parties, NEW c, NEW k, k = Legs, k # 1 \/ plan # "SuiSubmitAttestation",
           ~ Able(s)
    PROVE  Regular(s, c, k, One(Refused)) /\ Smooth(s, k, One(Refused))
<1>1. Regular(s, c, k, One(Refused))
  BY RefusedTx, EndsWith
<1> QED
  BY <1>1 DEF Smooth

(* Redeems and attestations of Solana. *)
LEMMA YieldsSolanaRedeem ==
    ASSUME TypeInv, NEW s \in Parties, NEW c, c = Chain(facts) => c.facts = facts,
           plan \in {"SolanaRedeem", "SolanaRedeemAndUnwrap"}
    PROVE  Taken(s, c, Yields(s, c))
<1> DEFINE last == IF plan = "SolanaRedeem" \/ s = Receiver
                   THEN Redeemed({Posted, Ata(Receiver)}) ELSE One(Refused)
<1>1. Yields(s, c) = << CreateAta(s, c), PostVaa(s, run[s], c), last >>
  BY DEF Yields, SolanaRedeem, SolanaRedeemAndUnwrap
<1>2. Legs = 3 /\ plan # "SuiSubmitAttestation" /\ plan \in ForReceiver
  BY DEF Legs, ForReceiver
<1>3. /\ Due(s, 0) = {} /\ Due(s, 1) = Due(s, 0) \cup {Ata(s)}
      /\ Due(s, 2) = Due(s, 1) \cup {Posted}
  BY DEF Due
<1>4. {Posted, Ata(Receiver)} \in SUBSET Facts
  BY PlainFacts DEF Plain, Receiver
<1>5. /\ Regular(s, c, 1, CreateAta(s, c))
      /\ c = Chain(facts) => Smooth(s, 1, CreateAta(s, c))
  BY <1>2, <1>3, CreateAtaStep
<1>6. /\ Regular(s, c, 2, PostVaa(s, run[s], c))
      /\ c = Chain(facts) => Smooth(s, 2, PostVaa(s, run[s], c))
  <2>1. Due(s, 2) = Due(s, 2 - 1) \cup {Posted} /\ 2 \in 1 .. Legs /\ 2 < Legs
    BY <1>2, <1>3
  <2> QED
    BY <1>2, <2>1, PostVaaStep
<1>7. Regular(s, c, 3, last) /\ Smooth(s, 3, last)
  <2>1. CASE s = Receiver
    <3>1. Due(s, 2) = {Posted, Ata(Receiver)} /\ last = Redeemed({Posted, Ata(Receiver)})
      BY <1>3, <2>1
    <3> HIDE DEF last
    <3>2. ~ (Due(s, 2) \subseteq facts) => Smooth(s, 3, last)
      BY DEF Smooth
    <3> QED
      BY <1>2, <1>4, <3>1, <3>2, RedeemedStep
  <2>2. CASE s # Receiver
    <3>1. ~ Able(s)
      BY <1>2, <2>2 DEF Able, Barred
    <3>2. Smooth(s, 3, last)
      BY <3>1 DEF Smooth
    <3>3. CASE last = One(Refused)
      BY <1>2, <3>1, <3>3, RefusedStep
    <3>4. CASE last = Redeemed({Posted, Ata(Receiver)})
      BY <1>2, <1>4, <3>2, <3>4, RedeemedStep
    <3> QED
      BY <3>3, <3>4
  <2> QED
    BY <2>1, <2>2
<1> HIDE DEF last
<1> QED
  BY SMTT(30), <1>1, <1>2, <1>5, <1>6, <1>7 DEF Taken

LEMMA YieldsPosted ==
    ASSUME TypeInv, NEW s \in Parties, NEW c, c = Chain(facts) => c.facts = facts,
           plan \in {"SolanaSubmitAttestation", "SolanaExecutorRedeem"}
    PROVE  Taken(s, c, Yields(s, c))
<1>1. Yields(s, c) = << PostVaa(s, run[s], c), Redeemed({Posted}) >>
  BY DEF Yields, SolanaSubmitAttestation, SolanaExecutorRedeem
<1>2. Legs = 2 /\ plan # "SuiSubmitAttestation"
  BY DEF Legs
<1>3. Due(s, 0) = {} /\ Due(s, 1) = Due(s, 0) \cup {Posted}
  BY DEF Due
<1>4. {Posted} \in SUBSET Facts
  BY PlainFacts DEF Plain
<1>5. /\ Regular(s, c, 1, PostVaa(s, run[s], c))
      /\ c = Chain(facts) => Smooth(s, 1, PostVaa(s, run[s], c))
  BY <1>2, <1>3, PostVaaStep
<1>6. ~ (Due(s, 1) \subseteq facts) => Smooth(s, 2, Redeemed({Posted}))
  BY DEF Smooth
<1>7. Regular(s, c, 2, Redeemed({Posted})) /\ Smooth(s, 2, Redeemed({Posted}))
  BY <1>2, <1>3, <1>4, <1>6, RedeemedStep
<1> QED
  BY SMTT(30), <1>1, <1>2, <1>5, <1>7 DEF Taken

LEMMA YieldsSolanaCircleRedeem ==
    ASSUME TypeInv, NEW s \in Parties, NEW c, c = Chain(facts) => c.facts = facts,
           plan = "SolanaCircleRedeem"
    PROVE  Taken(s, c, Yields(s, c))
<1> DEFINE first == When(Ata(Receiver) \notin c.facts,
                         One(IF s = Receiver THEN Create(Ata(Receiver)) ELSE Refused))
<1>1. Yields(s, c) = << first, Redeemed({Ata(Receiver)}) >>
  BY DEF Yields, SolanaCircleRedeem
<1>2. Legs = 2 /\ plan # "SuiSubmitAttestation" /\ plan \in ForReceiver
  BY DEF Legs, ForReceiver
<1>3. Due(s, 0) = {} /\ Due(s, 1) = Due(s, 0) \cup {Ata(Receiver)}
  BY DEF Due
<1>4. Ata(Receiver) \in Plain /\ {Ata(Receiver)} \in SUBSET Facts
  BY PlainFacts DEF Plain, Receiver
<1>5. Regular(s, c, 1, first) /\ (c = Chain(facts) => Smooth(s, 1, first))
  <2>1. CASE s = Receiver
    <3>1. first = CreateAta(s, c)
      BY <2>1 DEF CreateAta
    <3> HIDE DEF first
    <3> QED
      BY <1>2, <1>3, <2>1, <3>1, CreateAtaStep
  <2>2. CASE s # Receiver
    <3>1. ~ Able(s)
      BY <1>2, <2>2 DEF Able, Barred
    <3>2. first = << >> \/ first = One(Refused)
      BY <2>2 DEF When
    <3> HIDE DEF first
    <3>3. Smooth(s, 1, first)
      BY <3>1 DEF Smooth
    <3>4. Regular(s, c, 1, One(Refused))
      BY <1>2, RefusedTx, OneGroup DEF Regular
    <3> QED
      BY <1>2, <3>2, <3>3, <3>4, NothingStep
  <2> QED
    BY <2>1, <2>2
<1> HIDE DEF first
<1>6. ~ (Due(s, 1) \subseteq facts) => Smooth(s, 2, Redeemed({Ata(Receiver)}))
  BY DEF Smooth
<1>7. /\ Regular(s, c, 2, Redeemed({Ata(Receiver)}))
      /\ Smooth(s, 2, Redeemed({Ata(Receiver)}))
  BY <1>2, <1>3, <1>4, <1>6, RedeemedStep
<1> QED
  BY <1>1, <1>2, <1>5, <1>7 DEF Taken

LEMMA YieldsSolanaTbtcRedeem ==
    ASSUME TypeInv, NEW s \in Parties, NEW c, c = Chain(facts) => c.facts = facts,
           plan = "SolanaTbtcRedeem"
    PROVE  Taken(s, c, Yields(s, c))
<1> DEFINE missing == {Ata(Receiver)} \ c.facts
           tx == [Claim EXCEPT !.needs = {Posted}, !.absent = @ \cup missing,
                               !.adds = @ \cup missing]
<1>1. Yields(s, c) = << PostVaa(s, run[s], c), One(tx) >>
  BY DEF Yields, SolanaTbtcRedeem
<1>2. Legs = 2 /\ plan # "SuiSubmitAttestation"
  BY DEF Legs
<1>3. Due(s, 0) = {} /\ Due(s, 1) = Due(s, 0) \cup {Posted}
  BY DEF Due
<1>4. {Posted} \in SUBSET Facts /\ missing \in SUBSET Plain
  BY PlainFacts DEF Plain, Receiver
<1>5. c = Chain(facts) => missing \cap facts = {}
  OBVIOUS
<1>6. ASSUME NEW t, t = tx
      PROVE  t = [needs |-> {Posted}, absent |-> {Claimed} \cup missing,
                  adds |-> {Claimed} \cup missing, removes |-> {}, approves |-> 0,
                  spends |-> 0, pinned |-> 0, moves |-> TRUE]
  <2> HIDE DEF missing
  <2> QED
    BY <1>6, Calls
<1> HIDE DEF tx, missing
<1>7. tx = [needs |-> {Posted}, absent |-> {Claimed} \cup missing,
            adds |-> {Claimed} \cup missing, removes |-> {}, approves |-> 0,
            spends |-> 0, pinned |-> 0, moves |-> TRUE]
  BY <1>6
<1>8. /\ tx \in Transactions /\ tx.moves /\ Sound(tx, s, run[s])
      /\ Claimed \notin facts /\ {Posted} \subseteq facts /\ missing \cap facts = {} =>
            Executable(tx)
  BY <1>4, <1>7, ClaimWith
<1>9. Regular(s, c, 2, One(tx)) /\ (Executable(tx) => Smooth(s, 2, One(tx)))
  BY <1>2, <1>8, EndsWith
<1>10. ~ (Claimed \notin facts /\ Due(s, 1) \subseteq facts) => Smooth(s, 2, One(tx))
  BY DEF Smooth
<1>11. c = Chain(facts) => Smooth(s, 2, One(tx))
  BY <1>3, <1>5, <1>8, <1>9, <1>10
<1>12. /\ Regular(s, c, 1, PostVaa(s, run[s], c))
       /\ c = Chain(facts) => Smooth(s, 1, PostVaa(s, run[s], c))
  BY <1>2, <1>3, PostVaaStep
<1> QED
  BY <1>1, <1>2, <1>9, <1>11, <1>12 DEF Taken

(* An attestation of Aptos creates the type of the coin and then registers it. *)
LEMMA YieldsAptosAttestation ==
    ASSUME TypeInv, NEW s \in Parties, NEW c, plan = "AptosSubmitAttestation"
    PROVE  Taken(s, c, Yields(s, c))
<1> DEFINE x == Fact("coinType")
<1>1. Yields(s, c) = << One(Create(x)), Redeemed({x}) >>
  BY DEF Yields, AptosSubmitAttestation
<1>2. Legs = 2 /\ plan # "SuiSubmitAttestation" /\ ~ Able(s)
  BY DEF Legs, Able, Barred, NotResumable
<1>3. x \in Plain /\ {x} \in SUBSET Facts
  BY PlainFacts DEF Plain
<1> HIDE DEF x
<1>4. Regular(s, c, 1, One(Create(x)))
  BY <1>2, <1>3, CreateStep
<1>5. Regular(s, c, 2, Redeemed({x}))
  BY <1>2, <1>3, RedeemedStep
<1> QED
  BY <1>1, <1>2, <1>4, <1>5 DEF Taken, Smooth

(* An attestation of Sui publishes the coin and registers it with a setup that it owns. *)
LEMMA YieldsSui ==
    ASSUME TypeInv, FactsInv, NEW s \in Parties, run[s] > 0,
           NEW seen \in SUBSET facts, NEW c, c.facts = seen, plan = "SuiSubmitAttestation"
    PROVE  Taken(s, c, Yields(s, c))
<1> DEFINE setups == {x \in c.facts : x[1] = "setup" /\ x[2] = s}
           x == CHOOSE x \in setups : TRUE
           own == [Call EXCEPT !.adds = {Setup(s, run[s])}]
           tx == [Claim EXCEPT !.needs = {x}, !.removes = {x}]
<1>1. Yields(s, c) = << One(own), IF setups = {} THEN << >> ELSE One(tx) >>
  BY DEF Yields, SuiSubmitAttestation
<1>2. Legs = 2
  BY DEF Legs
<1>3. run[s] \in Nat \ {0} /\ s \in Nat /\ facts \in SUBSET Facts
  BY DEF TypeInv, Parties
<1>4. Setup(s, run[s]) \in c.facts => setups # {}
  BY <1>3, OtherFacts
<1>5. setups # {} => /\ x \in facts
                     /\ {x} \in SUBSET Facts /\ {x} \subseteq {Setup(s, k) : k \in 1 .. run[s]}
  <2> SUFFICES ASSUME setups # {} PROVE /\ x \in facts
                     /\ {x} \in SUBSET Facts /\ {x} \subseteq {Setup(s, k) : k \in 1 .. run[s]}
    OBVIOUS
  <2>1. x \in setups
    OBVIOUS
  <2> HIDE DEF x
  <2>2. x \in facts /\ x[1] = "setup" /\ x[2] = s
    BY <2>1
  <2>3. PICK p \in Parties : \E n \in 1 .. run[p] : x = Setup(p, n)
    BY <2>2 DEF FactsInv
  <2>4. p = s
    BY <2>2, <2>3 DEF Setup
  <2> QED
    BY <1>3, <2>2, <2>3, <2>4
<1>6. /\ own \in Transactions /\ own.needs = {} /\ own.absent = {} /\ own.removes = {}
      /\ own.adds = {Setup(s, run[s])} /\ own.approves = 0 /\ own.spends = 0
      /\ own.pinned = 0 /\ ~ own.moves
  <2> DEFINE a == {Setup(s, run[s])}
  <2>1. a \in SUBSET Facts
    BY <1>3, OtherFacts
  <2> HIDE DEF a
  <2>2. ASSUME NEW t, t = [Call EXCEPT !.adds = a]
        PROVE  /\ t \in Transactions /\ t.needs = {} /\ t.absent = {} /\ t.removes = {}
               /\ t.adds = a /\ t.approves = 0 /\ t.spends = 0 /\ t.pinned = 0 /\ ~ t.moves
    <3>1. t = [needs |-> {}, absent |-> {}, adds |-> a, removes |-> {}, approves |-> 0,
               spends |-> 0, pinned |-> 0, moves |-> FALSE]
      BY <2>2, Calls
    <3> QED
      BY <2>1, <3>1 DEF Transactions
  <2> QED
    BY <2>2 DEF a
<1> HIDE DEF own
<1>7. Sound(own, s, run[s])
  BY <1>3, <1>6, OtherFacts DEF Sound, Never, Claimed, Balance
<1>8. Executable(own)
  BY <1>6 DEF Executable, TypeInv
<1>9. Regular(s, c, 1, One(own))
  BY <1>2, <1>6, <1>7, OneGroup DEF Regular
<1>10. Due(s, 1) = {}
  BY DEF Due
<1>11. Smooth(s, 1, One(own))
  BY <1>6, <1>8, <1>10, OneGroup DEF Smooth, Opens, Ready
<1>12. CASE setups = {}
  <2>1. Regular(s, c, 2, << >>) /\ Smooth(s, 2, << >>)
    BY <1>2, <1>4, <1>12, ItemsOf DEF Regular, Smooth, Opens
  <2> QED
    BY <1>1, <1>2, <1>9, <1>11, <1>12, <2>1 DEF Taken
<1>13. CASE setups # {}
  <2> DEFINE a == {x}
  <2>1. /\ a \subseteq facts /\ a \in SUBSET Facts
        /\ a \subseteq {Setup(s, k) : k \in 1 .. run[s]}
    BY <1>5, <1>13
  <2>2. ASSUME NEW t, t = tx
        PROVE  t = [needs |-> a, absent |-> {Claimed}, adds |-> {Claimed}, removes |-> a,
                    approves |-> 0, spends |-> 0, pinned |-> 0, moves |-> TRUE]
    <3> HIDE DEF x
    <3> QED
      BY <2>2, Calls
  <2>3. Yields(s, c) = << One(own), One(tx) >>
    BY <1>1, <1>13
  <2> HIDE DEF tx, a
  <2>4. tx = [needs |-> a, absent |-> {Claimed}, adds |-> {Claimed}, removes |-> a,
              approves |-> 0, spends |-> 0, pinned |-> 0, moves |-> TRUE]
    BY <2>2
  <2>5. {Claimed} \in SUBSET Facts
    BY OtherFacts
  <2>6. /\ tx \in Transactions /\ tx.needs = a /\ tx.absent = {Claimed} /\ tx.removes = a
        /\ tx.adds = {Claimed} /\ tx.approves = 0 /\ tx.spends = 0
        /\ tx.pinned = 0 /\ tx.moves
    BY <2>1, <2>4, <2>5 DEF Transactions
  <2>7. Sound(tx, s, run[s])
    BY <2>1, <2>6, OtherFacts DEF Sound, Never
  <2>8. Claimed \notin facts => Executable(tx)
    BY <2>1, <2>6 DEF Executable, TypeInv
  <2>9. Regular(s, c, 2, One(tx)) /\ (Executable(tx) => Smooth(s, 2, One(tx)))
    BY <1>2, <2>6, <2>7, EndsWith
  <2>10. Claimed \in facts => Smooth(s, 2, One(tx))
    BY DEF Smooth
  <2> QED
    BY <1>2, <1>9, <1>11, <2>3, <2>8, <2>9, <2>10 DEF Taken
<1> QED
  BY <1>12, <1>13

(* The storages of Algorand, and its atomic groups. *)
LEMMA StoragesPlain ==
    ASSUME NEW c, NEW names, names \subseteq {"emitter", "asset", "message", "guardian"}
    PROVE  Storages(c, names) \in SUBSET Plain /\ Storages(c, names) \cap c.facts = {}
BY PlainFacts DEF Storages

LEMMA YieldsAlgorandMove ==
    ASSUME TypeInv, NEW s \in Parties, NEW c, c = Chain(facts) => c.facts = facts,
           plan = "AlgorandCreateAttestation"
    PROVE  Taken(s, c, Yields(s, c))
<1> DEFINE missing == Storages(c, {"emitter", "asset"})
           tx == [Move EXCEPT !.absent = missing, !.adds = missing]
<1>1. Yields(s, c) = << One(tx) >>
  BY DEF Yields, AlgorandCreateAttestation
<1>2. Legs = 1 /\ plan # "SuiSubmitAttestation"
  BY DEF Legs, Approving
<1>3. missing \in SUBSET Plain /\ missing \cap c.facts = {}
  BY StoragesPlain
<1> HIDE DEF missing
<1>4. ASSUME NEW t, t = tx
      PROVE  t = [needs |-> {}, absent |-> missing, adds |-> missing, removes |-> {},
                  approves |-> 0, spends |-> 0, pinned |-> 0, moves |-> TRUE]
  BY <1>4, Calls
<1> HIDE DEF tx
<1>5. tx = [needs |-> {}, absent |-> missing, adds |-> missing, removes |-> {},
            approves |-> 0, spends |-> 0, pinned |-> 0, moves |-> TRUE]
  BY <1>4
<1>6. missing \in SUBSET Facts
  BY <1>3 DEF Plain
<1>7. /\ tx \in Transactions /\ tx.needs = {} /\ tx.absent = missing /\ tx.removes = {}
      /\ tx.adds = missing /\ tx.approves = 0 /\ tx.spends = 0 /\ tx.pinned = 0 /\ tx.moves
  BY <1>5, <1>6 DEF Transactions
<1>8. Sound(tx, s, run[s])
  BY <1>3, <1>7, SoundCall DEF Plain
<1>9. c = Chain(facts) => Executable(tx)
  BY <1>3, <1>7 DEF Executable, TypeInv
<1> QED
  BY SMTT(30), <1>1, <1>2, <1>7, <1>8, <1>9, EndsWith DEF Taken

(* A transfer needs the account that keeps the asset, and opts it in. *)
LEMMA YieldsAlgorandTransfer ==
    ASSUME TypeInv, FactsInv, NEW s \in Parties, NEW c, c = Chain(facts) => c.facts = facts,
           plan = "AlgorandTransfer"
    PROVE  Taken(s, c, Yields(s, c))
<1> DEFINE missing == Storages(c, {"emitter"})
           isAsset == Algo \notin c.facts
           needs == {Custody} \cup (IF isAsset /\ IsOptedInToAsset(c) THEN {OptedIn} ELSE {})
           adds == missing \cup (IF isAsset THEN {OptedIn, Balance} ELSE {})
           tx == [Move EXCEPT !.needs = needs, !.absent = missing, !.adds = adds]
<1>1. Yields(s, c) = << One(tx) >>
  BY DEF Yields, AlgorandTransfer
<1>2. Legs = 1 /\ plan # "SuiSubmitAttestation"
  BY DEF Legs, Approving
<1>3. missing \in SUBSET Plain /\ missing \cap c.facts = {}
  BY StoragesPlain
<1>4. OptedIn \in Plain /\ Custody \in Plain
  BY PlainFacts
<1>5. Able(s) => Custody \in facts
  BY DEF Able, Barred
<1> HIDE DEF missing
<1>6. /\ needs \in SUBSET Facts
      /\ c = Chain(facts) /\ Able(s) => needs \subseteq facts
  BY <1>4, <1>5 DEF Plain, FactsInv, IsOptedInToAsset
<1>7. /\ missing \in SUBSET Facts /\ adds \in SUBSET Facts
      /\ adds \subseteq Plain \cup {Claimed, Balance} /\ Claimed \notin adds
      /\ Balance \in adds => OptedIn \in adds
  BY <1>3, <1>4, OtherFacts DEF Plain
<1> HIDE DEF needs, adds
<1>8. ASSUME NEW t, t = tx
      PROVE  t = [needs |-> needs, absent |-> missing, adds |-> adds, removes |-> {},
                  approves |-> 0, spends |-> 0, pinned |-> 0, moves |-> TRUE]
  BY <1>8, Calls
<1> HIDE DEF tx
<1>9. tx = [needs |-> needs, absent |-> missing, adds |-> adds, removes |-> {},
            approves |-> 0, spends |-> 0, pinned |-> 0, moves |-> TRUE]
  BY <1>8
<1>10. /\ tx \in Transactions /\ tx.needs = needs /\ tx.absent = missing /\ tx.removes = {}
       /\ tx.adds = adds /\ tx.approves = 0 /\ tx.spends = 0 /\ tx.pinned = 0 /\ tx.moves
  BY <1>6, <1>7, <1>9 DEF Transactions
<1>11. Sound(tx, s, run[s])
  BY <1>7, <1>10, SoundCall
<1>12. c = Chain(facts) /\ Able(s) => Executable(tx)
  BY <1>3, <1>6, <1>10 DEF Executable, TypeInv
<1>13. ~ Able(s) => Smooth(s, 1, One(tx))
  BY DEF Smooth
<1>14. Regular(s, c, 1, One(tx)) /\ (c = Chain(facts) => Smooth(s, 1, One(tx)))
  BY <1>2, <1>10, <1>11, <1>12, <1>13, EndsWith
<1> QED
  BY <1>1, <1>2, <1>14 DEF Taken

LEMMA YieldsAlgorandRedeem ==
    ASSUME TypeInv, FactsInv, NEW s \in Parties, NEW c, c = Chain(facts) => c.facts = facts,
           plan = "AlgorandRedeem"
    PROVE  Taken(s, c, Yields(s, c))
<1> DEFINE missing == Storages(c, {"message", "guardian"})
           optsIn == ~ IsOptedInToAsset(c)
           needs == IF optsIn THEN {} ELSE {OptedIn}
           tx == [Claim EXCEPT !.needs = needs, !.absent = @ \cup missing,
                               !.adds = @ \cup missing \cup {OptedIn, Balance}]
<1>1. Yields(s, c) = << One(IF optsIn /\ s # Receiver THEN Refused ELSE tx) >>
  BY DEF Yields, AlgorandRedeem
<1>2. Legs = 1 /\ plan # "SuiSubmitAttestation" /\ plan \in ForReceiver
  BY DEF Legs, Approving, ForReceiver
<1>3. missing \in SUBSET Plain /\ missing \cap c.facts = {}
  BY StoragesPlain
<1>4. /\ needs \in SUBSET Facts /\ OptedIn \in Plain
      /\ c = Chain(facts) => needs \subseteq facts
  BY PlainFacts DEF Plain, FactsInv, IsOptedInToAsset
<1> HIDE DEF missing, needs
<1>5. ASSUME NEW t, t = tx
      PROVE  t = [needs |-> needs, absent |-> {Claimed} \cup missing,
                  adds |-> {Claimed} \cup missing \cup {OptedIn, Balance}, removes |-> {},
                  approves |-> 0, spends |-> 0, pinned |-> 0, moves |-> TRUE]
  BY <1>5, Calls
<1> DEFINE absent == {Claimed} \cup missing
           adds == {Claimed} \cup missing \cup {OptedIn, Balance}
<1>6. /\ absent \in SUBSET Facts /\ adds \in SUBSET Facts
      /\ adds \subseteq Plain \cup {Claimed, Balance} /\ OptedIn \in adds
      /\ Claimed \notin facts /\ c = Chain(facts) => absent \cap facts = {}
  BY <1>3, <1>4, OtherFacts DEF Plain
<1> HIDE DEF tx
<1>7. tx = [needs |-> needs, absent |-> absent, adds |-> adds, removes |-> {},
            approves |-> 0, spends |-> 0, pinned |-> 0, moves |-> TRUE]
  BY <1>5
<1> HIDE DEF absent, adds
<1>8. /\ tx \in Transactions /\ tx.needs = needs /\ tx.absent = absent /\ tx.removes = {}
      /\ tx.adds = adds /\ tx.approves = 0 /\ tx.spends = 0 /\ tx.pinned = 0 /\ tx.moves
  BY <1>4, <1>6, <1>7 DEF Transactions
<1>9. Sound(tx, s, run[s])
  BY <1>6, <1>8, SoundCall
<1>10. Claimed \notin facts /\ c = Chain(facts) => Executable(tx)
  BY <1>4, <1>6, <1>8 DEF Executable, TypeInv
<1>11. Claimed \in facts => Smooth(s, 1, One(tx))
  BY DEF Smooth
<1>12. Regular(s, c, 1, One(tx)) /\ (c = Chain(facts) => Smooth(s, 1, One(tx)))
  BY <1>2, <1>8, <1>9, <1>10, <1>11, EndsWith
<1>13. Regular(s, c, 1, One(Refused)) /\ (s # Receiver => Smooth(s, 1, One(Refused)))
  <2>1. Regular(s, c, 1, One(Refused))
    BY <1>2, RefusedTx, EndsWith
  <2>2. s # Receiver => ~ Able(s)
    BY <1>2 DEF Able, Barred
  <2> QED
    BY <2>1, <2>2 DEF Smooth
<1> HIDE DEF optsIn
<1> QED
  BY <1>1, <1>2, <1>12, <1>13 DEF Taken

(* Every operation yields what it may. *)
LEMMA YieldsTaken ==
    ASSUME TypeInv, FactsInv, NEW s \in Parties, run[s] > 0,
           NEW seen \in SUBSET facts, NEW c, c = Chain(seen)
    PROVE  Taken(s, c, Yields(s, c))
<1>1. /\ c.facts = seen /\ c.allowance = allowance /\ c.version = version
      /\ c = Chain(facts) => c.facts = facts
  BY DEF Chain
<1>2. c.allowance \in Nat /\ c.version \in Nat
  BY <1>1 DEF TypeInv
<1>3. \/ plan \in MoveOnly \/ plan \in ClaimOnly \/ plan \in PinnedMove \/ plan \in Approving
      \/ plan \in {"EvmSubmitAttestation", "EvmRedeem", "SolanaTransfer",
                   "SolanaExecutorTransfer", "SolanaRedeem", "SolanaRedeemAndUnwrap",
                   "SolanaSubmitAttestation", "SolanaExecutorRedeem", "SolanaCircleRedeem",
                   "SolanaTbtcRedeem", "AptosSubmitAttestation", "SuiSubmitAttestation",
                   "AlgorandTransfer", "AlgorandCreateAttestation", "AlgorandRedeem"}
  BY DEF TypeInv, Operations, MoveOnly, ClaimOnly, PinnedMove, Approving
<1> QED
  BY <1>1, <1>2, <1>3, YieldsMove, YieldsClaim, YieldsPinned, YieldsApproval,
     YieldsEvmAttestation, YieldsEvmRedeem, YieldsSolanaTransfer, YieldsSolanaRedeem,
     YieldsPosted, YieldsSolanaCircleRedeem, YieldsSolanaTbtcRedeem, YieldsAptosAttestation,
     YieldsSui, YieldsAlgorandMove, YieldsAlgorandTransfer, YieldsAlgorandRedeem
-----------------------------------------------------------------------------
(* Sending a group takes it from the queue. *)
LEMMA ItemsSent ==
    ASSUME NEW q \in Seq(SUBSET Transactions), q # << >>
    PROVE  /\ Head(q) \in SUBSET Transactions /\ Tail(q) \in Seq(SUBSET Transactions)
           /\ Items(q) = Head(q) \cup Items(Tail(q))
<1>1. /\ Len(q) \in Nat \ {0} /\ Tail(q) \in Seq(SUBSET Transactions)
      /\ Head(q) = q[1] /\ DOMAIN q = 1 .. Len(q)
      /\ DOMAIN Tail(q) = 1 .. Len(q) - 1
      /\ \A k \in 1 .. Len(q) - 1 : Tail(q)[k] = q[k + 1]
  OBVIOUS
<1>2. ASSUME NEW x \in Items(q) PROVE x \in Head(q) \cup Items(Tail(q))
  <2>1. PICK k \in 1 .. Len(q) : x \in q[k]
    BY <1>1, <1>2 DEF Items
  <2>2. CASE k = 1
    BY <1>1, <2>1, <2>2
  <2>3. CASE k # 1
    <3>1. k - 1 \in DOMAIN Tail(q) /\ Tail(q)[k - 1] = q[k]
      BY <1>1, <2>3
    <3> QED
      BY <2>1, <3>1 DEF Items
  <2> QED
    BY <2>2, <2>3
<1>3. ASSUME NEW x \in Items(Tail(q)) PROVE x \in Items(q)
  <2>1. PICK k \in DOMAIN Tail(q) : x \in Tail(q)[k]
    BY <1>3 DEF Items
  <2>2. k + 1 \in DOMAIN q /\ x \in q[k + 1]
    BY <1>1, <2>1
  <2> QED
    BY <2>2 DEF Items
<1>4. Head(q) \subseteq Items(q)
  BY <1>1 DEF Items
<1> QED
  BY <1>1, <1>2, <1>3, <1>4

LEMMA ItemsTyped ==
    ASSUME NEW q \in Seq(SUBSET Transactions)
    PROVE  Items(q) \in SUBSET Transactions
BY DEF Items

LEMMA LegsRange == Legs \in 1 .. 3
BY DEF Legs

(* An execution and the chain. *)
LEMMA Executes ==
    ASSUME TypeInv, FactsInv, NEW s \in Parties, NEW n \in 1 .. run[s],
           NEW tx \in Transactions, Sound(tx, s, n), Execute(tx, s, n), run' = run
    PROVE  /\ facts' \in SUBSET Facts /\ allowance' \in Nat /\ version' \in Nat \ {0}
           /\ moved' \in SUBSET (Parties \X Nat)
           /\ FactsInv'
           /\ \A p \in Parties : \A m \in Nat :
                 Setup(p, m) \in facts /\ (p # s \/ m > n \/ ~ tx.moves) =>
                     Setup(p, m) \in facts'
<1>1. /\ tx.removes \in SUBSET Facts /\ tx.adds \in SUBSET Facts /\ tx.approves \in Nat
      /\ tx.spends \in Nat /\ tx.pinned \in Nat /\ tx.moves \in BOOLEAN
  BY DEF Transactions
<1>2. /\ tx.needs \subseteq facts /\ tx.spends <= allowance
      /\ facts' = (facts \ tx.removes) \cup tx.adds
      /\ allowance' = IF tx.approves > 0 THEN tx.approves ELSE allowance - tx.spends
      /\ version' = IF tx.pinned > 0 THEN version + 1 ELSE version
      /\ moved' = IF tx.moves THEN moved \cup {<<s, n>>} ELSE moved
  BY DEF Execute, Executable
<1>3. /\ facts \in SUBSET Facts /\ allowance \in Nat /\ version \in Nat \ {0}
      /\ moved \in SUBSET (Parties \X Nat) /\ run[s] \in Nat
  BY DEF TypeInv
<1>4. /\ facts' \in SUBSET Facts /\ allowance' \in Nat /\ version' \in Nat \ {0}
  BY <1>1, <1>2, <1>3
<1>5. moved' \in SUBSET (Parties \X Nat)
  BY <1>2, <1>3
<1>6. Balance \in facts' => OptedIn \in facts'
  <2>1. OptedIn \notin tx.removes
    <3>1. OptedIn[1] # "setup"
      BY DEF OptedIn, Fact
    <3> QED
      BY <3>1 DEF Sound, Setup
  <2> QED
    BY <1>2, <2>1 DEF Sound, FactsInv
<1>7. Never \notin facts'
  BY <1>2 DEF Sound, FactsInv
<1>8. \A x \in facts' : x[1] = "setup" =>
         \E p \in Parties : \E m \in 1 .. run'[p] : x = Setup(p, m)
  BY <1>2 DEF Sound, FactsInv
<1>9. FactsInv'
  BY <1>6, <1>7, <1>8 DEF FactsInv
<1>10. ASSUME NEW p \in Parties, NEW m \in Nat, Setup(p, m) \in facts,
              p # s \/ m > n \/ ~ tx.moves
       PROVE  Setup(p, m) \in facts'
  <2>1. Setup(p, m) \notin tx.removes
    BY <1>10 DEF Sound, Setup
  <2> QED
    BY <1>2, <1>10, <2>1
<1> QED
  BY <1>4, <1>5, <1>9, <1>10

(* Each action keeps the first invariant. *)
LEMMA StartMInv ==
    ASSUME MInv, NEW s \in Parties, Start(s), ClientsAssumption
    PROVE  MInv'
<1> USE DEF MInv
<1>1. /\ pc[s] \in {"idle", "threw"} /\ run[s] < MaxRuns[s]
      /\ pc' = [pc EXCEPT ![s] = "running"] /\ run' = [run EXCEPT ![s] = @ + 1]
      /\ clean' = [clean EXCEPT ![s] = Claimed \notin facts]
      /\ before' = [before EXCEPT ![s] = allowance]
      /\ plan' = plan /\ facts' = facts /\ allowance' = allowance /\ version' = version
      /\ step' = step /\ queue' = queue /\ inflight' = inflight /\ loose' = loose
      /\ moved' = moved
  BY DEF Start, chain
<1>2. /\ step[s] = 0 /\ queue[s] = << >> /\ inflight[s] = {} /\ Pending(s) = {}
  BY <1>1, ItemsOf DEF IdleInv, Pending
<1>3. /\ Legs' = Legs /\ MaxRuns[s] \in Nat
  BY <1>1 DEF Legs, ClientsAssumption
<1>4. TypeInv'
  <2>1. /\ pc' \in [Parties -> {"idle", "running", "threw", "returned"}]
        /\ run' \in [Parties -> Nat] /\ \A p \in Parties : run'[p] <= MaxRuns[p]
        /\ clean' \in [Parties -> BOOLEAN] /\ before' \in [Parties -> Nat]
    BY <1>1, <1>3 DEF TypeInv
  <2> QED
    BY <1>1, <1>3, <2>1 DEF TypeInv
<1>5. /\ run'[s] = run[s] + 1 /\ run[s] \in Nat
      /\ \A p \in Parties : p # s => run'[p] = run[p] /\ pc'[p] = pc[p]
      /\ pc'[s] = "running" /\ pc \in [Parties -> {"idle", "running", "threw", "returned"}]
      /\ \A p \in Parties : run[p] \in Nat
  BY <1>1 DEF TypeInv
<1>6. \A p \in Parties : Pending(p)' = Pending(p)
  BY <1>1 DEF Pending, Items
<1>7. SoundInv'
  BY <1>1, <1>2, <1>5, <1>6 DEF SoundInv, Sound
<1>8. FactsInv'
  BY <1>1, <1>5 DEF FactsInv
<1>9. IdleInv'
  BY <1>1, <1>2, <1>3, <1>5 DEF IdleInv
<1>10. LooseInv'
  <2>1. \A l \in loose : l[1] \in Parties /\ l[2] \in Nat
    BY DEF TypeInv
  <2> QED
    BY <1>1, <1>5, <2>1 DEF LooseInv
<1>11. MoveInv'
  <2>1. Own(s)' \notin moved
    BY <1>1, <1>5 DEF MovedInv, Own
  <2>2. ASSUME NEW p \in Parties, p # s
        PROVE  /\ pc'[p] = pc[p] /\ Own(p)' = Own(p) /\ step'[p] = step[p]
               /\ queue'[p] = queue[p] /\ inflight'[p] = inflight[p]
    BY <1>1, <1>5, <2>2 DEF Own
  <2>3. step'[s] < Legs' /\ Pending(s)' = {}
    BY <1>1, <1>2, <1>3, <1>6, LegsRange
  <2> QED
    BY <1>1, <1>3, <1>6, <2>1, <2>2, <2>3 DEF MoveInv, Final
<1>12. MovedInv'
  <2>1. \A r \in moved : r[1] \in Parties
    BY DEF TypeInv
  <2> QED
    BY <1>1, <1>5, <2>1 DEF MovedInv, Own
<1>13. SetupInv'
  BY <1>1, <1>2, <1>5, <1>6 DEF SetupInv
<1> QED
  BY <1>4, <1>7, <1>8, <1>9, <1>10, <1>11, <1>12, <1>13

(* Ask() and Guess(): a step is taken with what has been read. *)
LEMMA ReadMInv ==
    ASSUME MInv, NEW s \in Parties, NEW seen \in SUBSET facts, Waiting(s),
           Reads(s, Chain(seen)), clean' \in [Parties -> BOOLEAN],
           plan = "SuiSubmitAttestation" => seen = facts
    PROVE  MInv'
<1> USE DEF MInv
<1> DEFINE c == Chain(seen)
           k == step[s] + 1
           g == Yields(s, c)[k]
<1>1. /\ pc[s] = "running" /\ queue[s] = << >> /\ inflight[s] = {} /\ step[s] < Steps(s, c)
      /\ step' = [step EXCEPT ![s] = @ + 1] /\ queue' = [queue EXCEPT ![s] = g]
      /\ pc' = pc /\ run' = run /\ before' = before
      /\ plan' = plan /\ facts' = facts /\ allowance' = allowance /\ version' = version
      /\ inflight' = inflight /\ loose' = loose /\ moved' = moved
  BY DEF Waiting, Reads, chain
<1>2. Taken(s, c, Yields(s, c)) /\ run[s] > 0
  BY <1>1, YieldsTaken DEF IdleInv, TypeInv
<1>3. k \in 1 .. Legs /\ Regular(s, c, k, g) /\ Legs' = Legs /\ step[s] \in Nat
  <2>1. Legs' = Legs
    BY <1>1 DEF Legs
  <2> QED
    BY <1>1, <1>2, <2>1, LegsRange DEF Taken, Steps, TypeInv
<1>4. c.facts = seen
  BY DEF Chain
<1> HIDE DEF g, c
<1>5. TypeInv'
  <2>1. step' \in [Parties -> 0 .. Legs] /\ queue' \in [Parties -> Seq(SUBSET Transactions)]
    BY <1>1, <1>3 DEF TypeInv, Regular
  <2> QED
    BY <1>1, <1>3, <2>1 DEF TypeInv
<1>6. /\ Pending(s)' = Items(g)
      /\ \A p \in Parties : p # s => Pending(p)' = Pending(p)
  BY <1>1 DEF Pending, Items, TypeInv
<1>7. /\ queue'[s] = g /\ step'[s] = k /\ Pending(s) = {}
      /\ \A p \in Parties : p # s => queue'[p] = queue[p] /\ step'[p] = step[p]
  BY <1>1, ItemsOf DEF TypeInv, Pending
<1>8. SoundInv'
  BY SMTT(30), <1>1, <1>3, <1>6 DEF SoundInv, Sound, Regular
<1>9. FactsInv' /\ IdleInv' /\ MovedInv' /\ LooseInv'
  <2>1. k # 0
    BY <1>3
  <2> HIDE DEF k
  <2>2. IdleInv'
    BY <1>1, <1>3, <1>7, <2>1 DEF IdleInv
  <2> QED
    BY <1>1, <2>2 DEF FactsInv, MovedInv, LooseInv, Own
<1>10. Own(s) \notin moved /\ k \in Nat
  BY <1>1, <1>3, LegsRange DEF MoveInv
<1>11. MoveInv'
  <2>1. ASSUME NEW p \in Parties, p # s
        PROVE  /\ pc'[p] = pc[p] /\ Own(p)' = Own(p) /\ step'[p] = step[p]
               /\ queue'[p] = queue[p] /\ inflight'[p] = inflight[p]
    BY <1>1, <1>7, <2>1 DEF Own
  <2>2. Own(s)' = Own(s) /\ inflight'[s] = {}
    BY <1>1 DEF Own
  <2>3. k < Legs => \A tx \in Items(g) : ~ tx.moves
    BY <1>3 DEF Regular
  <2>4. k = Legs => Len(g) = 1 /\ Final(Head(g))
    <3> SUFFICES ASSUME k = Legs PROVE Len(g) = 1 /\ Final(Head(g))
      OBVIOUS
    <3>1. CASE plan = "SuiSubmitAttestation"
      <4>1. step[s] = 1 /\ seen = facts
        BY <1>3, <3>1 DEF Legs
      <4>2. Setup(s, run[s]) \in c.facts
        BY <1>1, <1>4, <1>7, <3>1, <4>1 DEF SetupInv
      <4> QED
        BY <1>3, <4>2 DEF Regular
    <3> QED
      BY <1>3, <3>1 DEF Regular
  <2> HIDE DEF k
  <2> QED
    BY <1>1, <1>3, <1>6, <1>7, <1>10, <2>1, <2>2, <2>3, <2>4, LegsRange DEF MoveInv, Final
<1>12. SetupInv'
  <2>1. k = 1 /\ plan = "SuiSubmitAttestation" =>
           \E tx \in Items(g) : Setup(s, run[s]) \in tx.adds
    BY <1>3 DEF Regular
  <2> QED
    BY <1>1, <1>6, <1>7, <2>1 DEF SetupInv
<1> QED
  BY <1>5, <1>8, <1>9, <1>11, <1>12

LEMMA SendMInv ==
    ASSUME MInv, NEW s \in Parties, Send(s)
    PROVE  MInv'
<1> USE DEF MInv
<1>1. /\ pc[s] = "running" /\ queue[s] # << >> /\ inflight[s] = {}
      /\ inflight' = [inflight EXCEPT ![s] = Head(queue[s])]
      /\ queue' = [queue EXCEPT ![s] = Tail(@)]
      /\ pc' = pc /\ run' = run /\ step' = step /\ clean' = clean /\ before' = before
      /\ plan' = plan /\ facts' = facts /\ allowance' = allowance /\ version' = version
      /\ loose' = loose /\ moved' = moved
  BY DEF Send, chain
<1>2. queue[s] \in Seq(SUBSET Transactions) /\ Legs' = Legs
  BY <1>1 DEF TypeInv, Legs
<1>3. /\ inflight'[s] = Head(queue[s]) /\ queue'[s] = Tail(queue[s])
      /\ Head(queue[s]) \in SUBSET Transactions
      /\ Tail(queue[s]) \in Seq(SUBSET Transactions)
      /\ \A p \in Parties : p # s => queue'[p] = queue[p] /\ inflight'[p] = inflight[p]
  BY <1>1, <1>2, ItemsSent DEF TypeInv
<1>4. TypeInv'
  <2>1. /\ inflight' \in [Parties -> SUBSET Transactions]
        /\ queue' \in [Parties -> Seq(SUBSET Transactions)]
    BY <1>1, <1>3 DEF TypeInv
  <2> QED
    BY <1>1, <1>2, <2>1 DEF TypeInv
<1>5. \A p \in Parties : Pending(p)' = Pending(p)
  <2>1. Pending(s)' = Pending(s)
    <3>1. Items(queue[s]) = Head(queue[s]) \cup Items(Tail(queue[s]))
      BY <1>1, <1>2, ItemsSent
    <3>2. Pending(s)' = inflight'[s] \cup Items(queue'[s])
      BY DEF Pending, Items
    <3> QED
      BY <1>1, <1>3, <3>1, <3>2 DEF Pending
  <2>2. ASSUME NEW p \in Parties, p # s PROVE Pending(p)' = Pending(p)
    BY <1>3, <2>2 DEF Pending, Items
  <2> QED
    BY <2>1, <2>2
<1>6. SoundInv' /\ FactsInv' /\ LooseInv' /\ MovedInv' /\ SetupInv'
  BY <1>1, <1>5 DEF SoundInv, Sound, FactsInv, LooseInv, MovedInv, SetupInv, Own
<1>7. IdleInv'
  BY <1>1, <1>2, <1>3 DEF IdleInv
<1>8. MoveInv'
  <2>1. \A p \in Parties : Own(p)' = Own(p)
    BY <1>1 DEF Own
  <2>2. CASE step[s] < Legs
    BY <1>1, <1>2, <1>3, <1>5, <2>1, <2>2 DEF MoveInv, Final
  <2>3. CASE ~ (step[s] < Legs)
    <3>1. Len(queue[s]) = 1 /\ Final(Head(queue[s])) /\ Own(s) \notin moved
      BY <1>1, <2>3 DEF MoveInv
    <3>2. Tail(queue[s]) = << >>
      <4>1. Tail(queue[s]) \in Seq(SUBSET Transactions) /\ Len(Tail(queue[s])) = 0
        BY <1>1, <1>2, <3>1
      <4> QED
        BY <4>1, EmptySeq
    <3>3. /\ queue'[s] = << >> /\ inflight'[s] = Head(queue[s]) /\ step'[s] = step[s]
          /\ Own(s)' \notin moved'
      BY <1>1, <1>3, <2>1, <3>1, <3>2
    <3>4. ASSUME NEW p \in Parties, p # s
          PROVE  /\ pc'[p] = pc[p] /\ Own(p)' = Own(p) /\ step'[p] = step[p]
                 /\ queue'[p] = queue[p] /\ inflight'[p] = inflight[p]
      BY <1>1, <1>3, <2>1, <3>4
    <3> QED
      BY <1>1, <1>2, <1>5, <2>3, <3>1, <3>3, <3>4 DEF MoveInv, Final
  <2> QED
    BY <2>2, <2>3
<1> QED
  BY <1>4, <1>6, <1>7, <1>8

LEMMA ReturnMInv ==
    ASSUME MInv, NEW s \in Parties, Return(s)
    PROVE  MInv' /\ Own(s) \in moved
<1> USE DEF MInv
<1>1. /\ pc[s] = "running" /\ queue[s] = << >> /\ inflight[s] = {}
      /\ step[s] = Steps(s, Chain(facts)) /\ pc' = [pc EXCEPT ![s] = "returned"]
      /\ run' = run /\ step' = step /\ queue' = queue /\ inflight' = inflight
      /\ loose' = loose /\ moved' = moved /\ clean' = clean /\ before' = before
      /\ plan' = plan /\ facts' = facts /\ allowance' = allowance /\ version' = version
  BY DEF Return, Waiting, chain
<1>2. step[s] = Legs /\ run[s] > 0 /\ Legs' = Legs
  <2>1. run[s] > 0 /\ Legs' = Legs
    BY <1>1 DEF IdleInv, Legs, TypeInv
  <2>2. facts \in SUBSET facts
    OBVIOUS
  <2>3. Taken(s, Chain(facts), Yields(s, Chain(facts)))
    BY <2>1, <2>2, YieldsTaken
  <2> QED
    BY <1>1, <2>1, <2>3 DEF Taken, Steps
<1>3. Own(s) \in moved
  BY <1>1, <1>2, LegsRange DEF MoveInv, Final
<1>4. /\ pc'[s] = "returned" /\ \A p \in Parties : p # s => pc'[p] = pc[p]
      /\ \A p \in Parties : Pending(p)' = Pending(p) /\ Own(p)' = Own(p)
  BY <1>1 DEF Pending, Items, Own, TypeInv
<1>5. TypeInv'
  BY <1>1, <1>2 DEF TypeInv
<1>6. SoundInv' /\ FactsInv'
  BY <1>1, <1>4 DEF SoundInv, Sound, FactsInv
<1>7. IdleInv' /\ MovedInv' /\ SetupInv'
  BY <1>1, <1>2, <1>3, <1>4 DEF IdleInv, MovedInv, SetupInv
<1>8. LooseInv'
  <2>1. \A l \in loose : l[1] \in Parties
    BY DEF TypeInv
  <2> QED
    BY <1>1, <1>4, <2>1 DEF LooseInv
<1>9. MoveInv'
  BY <1>1, <1>2, <1>4 DEF MoveInv, Final
<1> QED
  BY <1>3, <1>5, <1>6, <1>7, <1>8, <1>9

LEMMA OthersMInv ==
    ASSUME MInv, NEW x \in Optional, OthersAct(x)
    PROVE  MInv'
<1> USE DEF MInv
<1>1. /\ facts' = facts \cup {x} /\ clean' = Undisturbed(0)
      /\ plan' = plan /\ allowance' = allowance /\ version' = version /\ pc' = pc
      /\ run' = run /\ step' = step /\ queue' = queue /\ inflight' = inflight
      /\ loose' = loose /\ moved' = moved /\ before' = before
  BY DEF OthersAct, session
<1>2. x \in Plain \cup {Claimed}
  BY PlainFacts DEF Optional, Receiver, Custody
<1>3. x \in Facts /\ x # Balance /\ x # Never /\ x[1] # "setup"
  BY <1>2, OtherFacts DEF Plain
<1>4. Legs' = Legs /\ \A p \in Parties : Pending(p)' = Pending(p) /\ Own(p)' = Own(p)
  BY <1>1 DEF Legs, Pending, Items, Own
<1>5. clean' \in [Parties -> BOOLEAN]
  BY <1>1 DEF Undisturbed, TypeInv
<1>6. TypeInv'
  BY <1>1, <1>3, <1>4, <1>5 DEF TypeInv
<1>7. SoundInv' /\ IdleInv' /\ LooseInv' /\ MovedInv'
  BY <1>1, <1>4 DEF SoundInv, Sound, IdleInv, LooseInv, MovedInv
<1>8. FactsInv'
  BY <1>1, <1>3 DEF FactsInv, Never
<1>9. MoveInv' /\ SetupInv'
  BY <1>1, <1>4 DEF MoveInv, Final, SetupInv
<1> QED
  BY <1>6, <1>7, <1>8, <1>9

(* A run that is going on has a number, within the bound. *)
LEMMA RunPositive ==
    ASSUME MInv, NEW s \in Parties, pc[s] = "running"
    PROVE  run[s] \in Nat /\ run[s] \in 1 .. run[s] /\ run[s] <= MaxRuns[s]
<1>1. run[s] \in Nat /\ run[s] <= MaxRuns[s]
  BY DEF MInv, TypeInv
<1>2. run[s] > 0
  BY DEF MInv, IdleInv
<1> QED
  BY <1>1, <1>2

(* A transaction of a running run lands: the tokens are moved by the last one only. *)
LEMMA LandMInv ==
    ASSUME MInv, NEW s \in Parties, NEW tx \in inflight[s], Land(s, tx)
    PROVE  MInv' /\ (tx.moves => Own(s) \notin moved)
<1> USE DEF MInv
<1>1. /\ pc[s] = "running" /\ Execute(tx, s, run[s])
      /\ inflight' = [inflight EXCEPT ![s] = @ \ {tx}] /\ clean' = Undisturbed(s)
      /\ plan' = plan /\ pc' = pc /\ run' = run /\ step' = step /\ queue' = queue
      /\ loose' = loose /\ before' = before
  BY DEF Land
<1>2. /\ tx \in Transactions /\ tx \in Pending(s) /\ Sound(tx, s, run[s])
      /\ run[s] \in 1 .. run[s] /\ Legs' = Legs
  <2>1. tx \in Transactions /\ tx \in Pending(s) /\ Legs' = Legs
    BY <1>1 DEF TypeInv, Pending, Legs
  <2>2. run[s] \in 1 .. run[s]
    BY <1>1, RunPositive
  <2> QED
    BY <2>1, <2>2 DEF SoundInv
<1>3. /\ facts' \in SUBSET Facts /\ allowance' \in Nat /\ version' \in Nat \ {0}
      /\ moved' \in SUBSET (Parties \X Nat)
      /\ FactsInv'
      /\ \A p \in Parties : \A m \in Nat :
            Setup(p, m) \in facts /\ (p # s \/ m > run[s] \/ ~ tx.moves) =>
                Setup(p, m) \in facts'
  BY <1>1, <1>2, Executes
<1>4. /\ tx.needs \subseteq facts /\ tx.adds \subseteq facts'
      /\ moved' = IF tx.moves THEN moved \cup {Own(s)} ELSE moved
  BY <1>1 DEF Execute, Executable, Own
<1>5. /\ inflight'[s] = inflight[s] \ {tx}
      /\ \A p \in Parties : p # s => inflight'[p] = inflight[p]
      /\ \A p \in Parties : Own(p)' = Own(p)
  BY <1>1 DEF TypeInv, Own
<1>6. TypeInv'
  <2>1. clean' \in [Parties -> BOOLEAN]
    BY <1>1 DEF Undisturbed, TypeInv
  <2>2. inflight' \in [Parties -> SUBSET Transactions]
    BY <1>1 DEF TypeInv
  <2> QED
    BY <1>1, <1>2, <1>3, <2>1, <2>2 DEF TypeInv
<1>7. /\ Pending(s) \subseteq Pending(s)' \cup {tx} /\ Pending(s)' \subseteq Pending(s)
      /\ \A p \in Parties : p # s => Pending(p)' = Pending(p)
  BY <1>1, <1>5 DEF Pending, Items
<1>8. SoundInv'
  BY <1>1, <1>7 DEF SoundInv, Sound
<1>9. IdleInv'
  BY <1>1, <1>2, <1>5 DEF IdleInv
<1>10. LooseInv'
  <2>1. \A l \in loose : l[1] = s => l[2] # run[s]
    BY <1>1 DEF LooseInv
  <2>2. \A l \in loose : <<l[1], l[2]>> # Own(s)
    BY <2>1 DEF Own
  <2> QED
    BY <1>1, <1>4, <2>2 DEF LooseInv
<1>11. MoveInv' /\ (tx.moves => Own(s) \notin moved)
  <2>1. ASSUME NEW p \in Parties, p # s
        PROVE  Own(p) \in moved' <=> Own(p) \in moved
    BY <1>4, <2>1 DEF Own
  <2>2. CASE step[s] < Legs
    <3>1. ~ tx.moves /\ moved' = moved
      BY <1>1, <1>2, <1>4, <2>2 DEF MoveInv
    <3> QED
      BY <1>1, <1>2, <1>5, <1>7, <2>2, <3>1 DEF MoveInv, Final
  <2>3. CASE ~ (step[s] < Legs)
    <3>1. /\ queue[s] = << >> /\ Own(s) \notin moved /\ inflight[s] = {tx}
          /\ tx.moves \/ Never \in tx.needs
      BY <1>1, <2>3 DEF MoveInv, Final
    <3>2. tx.moves
      BY <1>4, <3>1 DEF FactsInv, Never
    <3>3. inflight'[s] = {} /\ Own(s) \in moved' /\ queue'[s] = << >>
      BY <1>1, <1>4, <1>5, <3>1, <3>2
    <3> QED
      BY <1>1, <1>2, <1>5, <1>7, <2>1, <2>3, <3>1, <3>3 DEF MoveInv, Final
  <2> QED
    BY <2>2, <2>3
<1>12. MovedInv'
  BY <1>1, <1>2, <1>4, <1>5 DEF MovedInv, Own
<1>13. SetupInv'
  <2> SUFFICES ASSUME NEW p \in Parties, pc[p] = "running", plan = "SuiSubmitAttestation",
                      step[p] = 1
               PROVE  \/ Setup(p, run[p]) \in facts'
                      \/ \E u \in Pending(p)' : Setup(p, run[p]) \in u.adds
    BY <1>1 DEF SetupInv
  <2>1. \/ Setup(p, run[p]) \in facts
        \/ \E u \in Pending(p) : Setup(p, run[p]) \in u.adds
    BY DEF SetupInv
  <2>2. p = s => ~ tx.moves
    BY <1>1, <1>2 DEF MoveInv, Legs
  <2>3. Setup(p, run[p]) \in facts => Setup(p, run[p]) \in facts'
    BY <1>3, <2>2 DEF TypeInv
  <2> QED
    BY <1>4, <1>7, <2>1, <2>3
<1> QED
  BY <1>3, <1>6, <1>8, <1>9, <1>10, <1>11, <1>12, <1>13

(* A run ends and leaves what it has sent under way. *)
LEMMA AbandonMInv ==
    ASSUME MInv, NEW s \in Parties, pc[s] = "running", NEW sent \in SUBSET inflight[s],
           Abandon(s, sent), clean' \in [Parties -> BOOLEAN]
    PROVE  MInv'
<1> USE DEF MInv
<1>1. /\ pc' = [pc EXCEPT ![s] = "threw"] /\ step' = [step EXCEPT ![s] = 0]
      /\ queue' = [queue EXCEPT ![s] = << >>] /\ inflight' = [inflight EXCEPT ![s] = {}]
      /\ loose' = loose \cup {<<s, run[s], tx>> : tx \in sent}
      /\ before' = [before EXCEPT ![s] = 0]
      /\ plan' = plan /\ facts' = facts /\ allowance' = allowance /\ version' = version
      /\ run' = run /\ moved' = moved
  BY DEF Abandon, chain
<1>2. Legs' = Legs /\ run[s] \in Nat /\ run[s] > 0 /\ sent \in SUBSET Transactions
      /\ sent \subseteq Pending(s)
  BY <1>1 DEF Legs, TypeInv, IdleInv, Pending
<1>3. /\ pc'[s] = "threw" /\ step'[s] = 0 /\ queue'[s] = << >> /\ inflight'[s] = {}
      /\ \A p \in Parties : p # s =>
            /\ pc'[p] = pc[p] /\ step'[p] = step[p] /\ queue'[p] = queue[p]
            /\ inflight'[p] = inflight[p]
      /\ \A p \in Parties : Own(p)' = Own(p)
  BY <1>1 DEF TypeInv, Own
<1>4. /\ Pending(s)' = {}
      /\ \A p \in Parties : p # s => Pending(p)' = Pending(p)
  BY <1>3, ItemsOf DEF Pending, Items
<1>5. TypeInv'
  <2>1. loose' \in SUBSET (Parties \X Nat \X Transactions)
    BY <1>1, <1>2 DEF TypeInv
  <2>2. /\ pc' \in [Parties -> {"idle", "running", "threw", "returned"}]
        /\ before' \in [Parties -> Nat] /\ inflight' \in [Parties -> SUBSET Transactions]
        /\ queue' \in [Parties -> Seq(SUBSET Transactions)]
    BY <1>1 DEF TypeInv
  <2>3. step' \in [Parties -> 0 .. Legs]
    BY <1>1, LegsRange DEF TypeInv
  <2> QED
    BY <1>1, <1>2, <2>1, <2>2, <2>3 DEF TypeInv
<1>6. SoundInv'
  BY <1>1, <1>2, <1>4 DEF SoundInv, Sound
<1>7. FactsInv' /\ IdleInv' /\ MovedInv' /\ SetupInv'
  BY <1>1, <1>2, <1>3, <1>4 DEF FactsInv, IdleInv, MovedInv, SetupInv
<1>8. MoveInv'
  BY <1>1, <1>2, <1>3, <1>4 DEF MoveInv, Final
<1>9. LooseInv'
  <2>1. \A l \in loose : l \in Parties \X Nat \X Transactions
    BY DEF TypeInv
  <2>2. \A l \in loose : l[1] = s => l[2] # run[s]
    BY DEF LooseInv
  <2>3. \A tx \in sent : tx.moves => Own(s) \notin moved
    BY <1>2, LegsRange DEF MoveInv, Final, TypeInv
  <2>4. \A tx, u \in sent : tx.moves /\ u.moves => tx = u
    BY <1>2 DEF MoveInv, Final
  <2>5. \A l \in loose' : \/ l \in loose
                          \/ \E tx \in sent : l = <<s, run[s], tx>>
    BY <1>1
  <2>6. ASSUME NEW l \in loose'
        PROVE  /\ l[2] \in 1 .. run[l[1]]
               /\ l[2] = run[l[1]] => pc'[l[1]] = "threw"
               /\ l[3].moves => <<l[1], l[2]>> \notin moved
    BY <1>2, <1>3, <2>1, <2>3, <2>5 DEF LooseInv, Own
  <2>7. ASSUME NEW l \in loose', NEW m \in loose', l[1] = m[1], l[2] = m[2], l[3].moves,
               m[3].moves
        PROVE  l = m
    BY <2>2, <2>4, <2>5, <2>7 DEF LooseInv
  <2> QED
    BY <1>1, <2>6, <2>7 DEF LooseInv
<1> QED
  BY <1>5, <1>6, <1>7, <1>8, <1>9

(* One of a run that is over lands: it moves the tokens only if the run had not. *)
LEMMA LooseLandsMInv ==
    ASSUME MInv, NEW l \in loose, LooseLands(l[1], l[2], l[3])
    PROVE  /\ MInv' /\ l[1] \in Parties /\ l[2] \in 1 .. run[l[1]]
           /\ l[3].moves => <<l[1], l[2]>> \notin moved
<1> USE DEF MInv
<1> DEFINE s == l[1]
           n == l[2]
           tx == l[3]
<1>1. /\ l \in Parties \X Nat \X Transactions /\ s \in Parties /\ tx \in Transactions
      /\ l = <<s, n, tx>>
  BY DEF TypeInv
<1>2. /\ n \in 1 .. run[s] /\ (n = run[s] => pc[s] = "threw")
      /\ tx.moves => <<s, n>> \notin moved
      /\ Sound(tx, s, n)
  BY DEF LooseInv, SoundInv
<1> HIDE DEF s, n, tx
<1>3. /\ Execute(tx, s, n) /\ loose' = loose \ {l} /\ clean' = Undisturbed(0)
      /\ plan' = plan /\ pc' = pc /\ run' = run /\ step' = step /\ queue' = queue
      /\ inflight' = inflight /\ before' = before
  BY <1>1 DEF LooseLands, session, s, n, tx
<1>4. /\ facts' \in SUBSET Facts /\ allowance' \in Nat /\ version' \in Nat \ {0}
      /\ moved' \in SUBSET (Parties \X Nat)
      /\ FactsInv'
      /\ \A p \in Parties : \A m \in Nat :
            Setup(p, m) \in facts /\ (p # s \/ m > n \/ ~ tx.moves) =>
                Setup(p, m) \in facts'
  BY <1>1, <1>2, <1>3, Executes
<1>5. moved' = IF tx.moves THEN moved \cup {<<s, n>>} ELSE moved
  BY <1>3 DEF Execute
<1>6. Legs' = Legs /\ \A p \in Parties : Pending(p)' = Pending(p) /\ Own(p)' = Own(p)
  BY <1>3 DEF Legs, Pending, Items, Own
<1>7. TypeInv'
  <2>1. clean' \in [Parties -> BOOLEAN]
    BY <1>3 DEF Undisturbed, TypeInv
  <2> QED
    BY <1>3, <1>4, <1>6, <2>1 DEF TypeInv
<1>8. SoundInv' /\ IdleInv'
  BY <1>3, <1>6 DEF SoundInv, Sound, IdleInv
<1>9. \A p \in Parties : pc[p] = "running" => Own(p) # <<s, n>>
  BY <1>2 DEF Own
<1>10. MoveInv'
  BY <1>3, <1>5, <1>6, <1>9 DEF MoveInv, Final
<1>11. MovedInv'
  BY <1>1, <1>2, <1>3, <1>5, <1>6 DEF MovedInv
<1>12. SetupInv'
  <2> SUFFICES ASSUME NEW p \in Parties, pc[p] = "running", plan = "SuiSubmitAttestation",
                      step[p] = 1, Setup(p, run[p]) \in facts
               PROVE  Setup(p, run[p]) \in facts'
    BY <1>3, <1>6 DEF SetupInv
  <2>1. p # s \/ run[p] > n
    BY <1>2 DEF TypeInv
  <2> QED
    BY <1>4, <2>1 DEF TypeInv
<1>13. LooseInv'
  <2>1. ASSUME NEW m \in loose', m[3].moves, tx.moves
        PROVE  <<m[1], m[2]>> # <<s, n>>
    BY <1>3, <2>1 DEF LooseInv, s, n, tx
  <2> QED
    BY <1>3, <1>5, <2>1 DEF LooseInv
<1> QED
  BY <1>1, <1>2, <1>4, <1>7, <1>8, <1>10, <1>11, <1>12, <1>13 DEF s, n, tx

(* The first invariant holds at first. *)
LEMMA InitMInv == Init /\ ClientsAssumption => MInv
<1> SUFFICES ASSUME Init, ClientsAssumption PROVE MInv
  OBVIOUS
<1>1. /\ \A s \in Parties : /\ pc[s] = "idle" /\ run[s] = 0 /\ step[s] = 0
                            /\ queue[s] = << >> /\ inflight[s] = {}
      /\ loose = {} /\ moved = {} /\ plan \in Operations /\ allowance \in 0 .. 2 /\ version = 1
  BY DEF Init, ClientsAssumption
<1>2. facts \subseteq {Wrapped, OptedIn, Balance, Algo, Custody, Payload, Home, FromReceiver}
  BY DEF Init, Given
<1>3. TypeInv
  <2>1. facts \in SUBSET Facts
    BY <1>2, PlainFacts, OtherFacts DEF Plain
  <2>2. /\ queue \in [Parties -> Seq(SUBSET Transactions)]
        /\ inflight \in [Parties -> SUBSET Transactions]
        /\ pc \in [Parties -> {"idle", "running", "threw", "returned"}]
        /\ run \in [Parties -> Nat] /\ clean \in [Parties -> BOOLEAN]
        /\ before \in [Parties -> Nat]
    BY DEF Init
  <2>3. step \in [Parties -> 0 .. Legs]
    BY LegsRange DEF Init
  <2>4. \A s \in Parties : run[s] <= MaxRuns[s]
    BY <1>1 DEF ClientsAssumption
  <2> QED
    BY <1>1, <2>1, <2>2, <2>3, <2>4 DEF TypeInv
<1>4. \A s \in Parties : Pending(s) = {}
  BY <1>1, ItemsOf DEF Pending
<1>5. SoundInv /\ IdleInv /\ LooseInv /\ MoveInv /\ MovedInv /\ SetupInv
  BY <1>1, <1>4 DEF SoundInv, IdleInv, LooseInv, MoveInv, MovedInv, SetupInv
<1>6. FactsInv
  <2>1. \A x \in facts : x # Never /\ x[1] # "setup"
    BY <1>2, PlainFacts, OtherFacts DEF Plain
  <2> QED
    BY <2>1 DEF FactsInv, Init, Never
<1> QED
  BY <1>3, <1>5, <1>6 DEF MInv

(* The lookups that may fail unnoticed are not about what a setup has left. *)
LEMMA GuessedFacts ==
    ASSUME plan = "SuiSubmitAttestation"
    PROVE  Guessed = {}
BY DEF Guessed

(* Every step keeps the first invariant. *)
LEMMA NextMInv ==
    ASSUME MInv, Next, ClientsAssumption
    PROVE  MInv'
<1>1. ASSUME NEW s \in Parties, Start(s) PROVE MInv'
  BY <1>1, StartMInv
<1>2. ASSUME NEW s \in Parties, Ask(s) PROVE MInv'
  <2>1. facts \in SUBSET facts
    OBVIOUS
  <2>2. Waiting(s) /\ Reads(s, Chain(facts)) /\ clean' = clean
    BY <1>2 DEF Ask
  <2>3. clean' \in [Parties -> BOOLEAN]
    BY <2>2 DEF MInv, TypeInv
  <2> QED
    BY <2>1, <2>2, <2>3, ReadMInv
<1>3. ASSUME NEW s \in Parties, Guess(s) PROVE MInv'
  <2>1. PICK lost \in SUBSET (Guessed \cap facts) :
            lost # {} /\ Reads(s, Chain(facts \ lost))
    BY <1>3 DEF Guess
  <2>2. facts \ lost \in SUBSET facts /\ plan # "SuiSubmitAttestation"
    BY <2>1, GuessedFacts
  <2>3. Waiting(s) /\ clean' \in [Parties -> BOOLEAN]
    BY <1>3 DEF Guess, Disturb, MInv, TypeInv
  <2> QED
    BY <2>1, <2>2, <2>3, ReadMInv
<1>4. ASSUME NEW s \in Parties, Send(s) PROVE MInv'
  BY <1>4, SendMInv
<1>5. ASSUME NEW s \in Parties, Return(s) PROVE MInv'
  BY <1>5, ReturnMInv
<1>6. ASSUME NEW s \in Parties, Interrupt(s) PROVE MInv'
  <2>1. pc[s] = "running" /\ Abandon(s, inflight[s]) /\ clean' \in [Parties -> BOOLEAN]
    BY <1>6 DEF Interrupt, Disturb, MInv, TypeInv
  <2>2. inflight[s] \in SUBSET inflight[s]
    OBVIOUS
  <2> QED
    BY <2>1, <2>2, AbandonMInv
<1>7. ASSUME NEW s \in Parties, NEW tx \in inflight[s], Land(s, tx) PROVE MInv'
  BY <1>7, LandMInv
<1>8. ASSUME NEW s \in Parties, NEW tx \in inflight[s], Revert(s, tx) PROVE MInv'
  <2>1. /\ pc[s] = "running" /\ Abandon(s, inflight[s] \ {tx})
        /\ clean' \in [Parties -> BOOLEAN]
    BY <1>8 DEF Revert, MInv, TypeInv
  <2>2. inflight[s] \ {tx} \in SUBSET inflight[s]
    OBVIOUS
  <2> QED
    BY <2>1, <2>2, AbandonMInv
<1>9. ASSUME NEW l \in loose, LooseLands(l[1], l[2], l[3]) PROVE MInv'
  BY <1>9, LooseLandsMInv
<1>10. ASSUME NEW x \in Optional, OthersAct(x) PROVE MInv'
  BY <1>10, OthersMInv
<1> QED
  BY <1>1, <1>2, <1>3, <1>4, <1>5, <1>6, <1>7, <1>8, <1>9, <1>10 DEF Next

(* A step that changes nothing keeps the first invariant. *)
LEMMA StutterMInv ==
    ASSUME MInv, UNCHANGED vars
    PROVE  MInv'
<1>1. /\ plan' = plan /\ facts' = facts /\ allowance' = allowance /\ version' = version
      /\ pc' = pc /\ run' = run /\ step' = step /\ queue' = queue /\ inflight' = inflight
      /\ loose' = loose /\ moved' = moved /\ clean' = clean /\ before' = before
  BY DEF vars, chain, session
<1>2. Legs' = Legs /\ \A p \in Parties : Pending(p)' = Pending(p) /\ Own(p)' = Own(p)
  BY <1>1 DEF Legs, Pending, Items, Own
<1>3. TypeInv' /\ IdleInv' /\ LooseInv' /\ MovedInv' /\ FactsInv'
  BY <1>1, <1>2 DEF MInv, TypeInv, IdleInv, LooseInv, MovedInv, FactsInv
<1>4. SoundInv' /\ SetupInv'
  BY <1>1, <1>2 DEF MInv, SoundInv, Sound, SetupInv
<1>5. MoveInv'
  BY <1>1, <1>2 DEF MInv, MoveInv, Final
<1> QED
  BY <1>3, <1>4, <1>5 DEF MInv

(* Whatever the operations read, in whatever order transactions land, those of runs that
   are over included: the tokens are moved by the last transaction of a run only, which is
   under way, or has not been sent yet, exactly when the run has not moved them. *)
THEOREM ClientsInvariant == Spec => []MInv
<1> USE ClientsAssumption
<1>1. Init => MInv
  BY InitMInv
<1>2. MInv /\ [Next]_vars => MInv'
  BY NextMInv, StutterMInv
<1> QED
  BY <1>1, <1>2, PTL DEF Spec
-----------------------------------------------------------------------------
Began == {r \in Parties \X Numbers : r[2] <= run[r[1]]}

Returned == {<<s, run[s]>> : s \in {x \in Parties : pc[x] = "returned"}}
-----------------------------------------------------------------------------
(* The runs of the parties are runs of the abstract operation. *)
LEMMA RunNumbers ==
    ASSUME NEW s \in Parties, NEW n \in 1 .. MaxRuns[s]
    PROVE  <<s, n>> \in Parties \X Numbers
BY DEF Numbers

LEMMA NumbersNat == ClientsAssumption => Numbers \subseteq Nat \ {0}
BY DEF Numbers, ClientsAssumption

(* A run that has returned has moved the tokens. *)
LEMMA ReturnedMoved ==
    ASSUME MInv
    PROVE  Returned \subseteq moved
BY DEF MInv, MovedInv, Returned, Own

(* Each step of the clients is one of the abstract operation, or none. *)
LEMMA StartBegins ==
    ASSUME MInv, NEW s \in Parties, Start(s), ClientsAssumption
    PROVE  Operation!Next
<1> DEFINE this == <<s, run[s] + 1>>
<1>1. /\ pc[s] \in {"idle", "threw"} /\ run[s] < MaxRuns[s]
      /\ pc' = [pc EXCEPT ![s] = "running"] /\ run' = [run EXCEPT ![s] = @ + 1]
      /\ moved' = moved /\ run \in [Parties -> Nat] /\ DOMAIN pc = Parties
      /\ MaxRuns[s] \in Nat
  BY DEF Start, MInv, TypeInv, ClientsAssumption
<1>2. this \in Parties \X Numbers
  BY <1>1, RunNumbers
<1>3. this \notin Began
  BY <1>1 DEF Began
<1>4. Began' = Began \cup {this}
  <2>1. \A q \in Parties \X Numbers : q[2] <= run'[q[1]] <=> (q[2] <= run[q[1]] \/ q = this)
    <3> SUFFICES ASSUME NEW p \in Parties, NEW n \in Numbers
                 PROVE  n <= run'[p] <=> (n <= run[p] \/ <<p, n>> = this)
      OBVIOUS
    <3>1. n \in Nat
      BY NumbersNat
    <3> QED
      BY <1>1, <3>1
  <2> QED
    BY <1>2, <2>1 DEF Began
<1>5. Returned' = Returned
  <2>1. \A x \in Parties : /\ pc'[x] = "returned" <=> pc[x] = "returned"
                           /\ pc[x] = "returned" => run'[x] = run[x]
    BY <1>1
  <2> QED
    BY <2>1 DEF Returned
<1>6. PICK r \in Parties \X Numbers : r = this
  BY <1>2
<1>7. Operation!Begin(r)
  BY <1>1, <1>3, <1>4, <1>5, <1>6 DEF Operation!Begin, Began, Returned
<1> QED
  BY <1>6, <1>7 DEF Operation!Next

LEMMA ReturnReturns ==
    ASSUME MInv, NEW s \in Parties, Return(s), ClientsAssumption
    PROVE  Operation!Next
<1> DEFINE this == <<s, run[s]>>
<1>1. /\ pc[s] = "running" /\ pc' = [pc EXCEPT ![s] = "returned"] /\ run' = run
      /\ moved' = moved /\ DOMAIN pc = Parties
  BY DEF Return, Waiting, MInv, TypeInv
<1>2. this \in moved /\ this \notin Returned
  BY <1>1, ReturnMInv DEF Own, Returned
<1>3. Returned' = Returned \cup {this}
  BY <1>1 DEF Returned
<1>4. Began' = Began
  BY <1>1 DEF Began
<1>5. this \in Parties \X Numbers
  <2>1. run[s] \in 1 .. MaxRuns[s]
    BY <1>1, RunPositive DEF ClientsAssumption
  <2> QED
    BY <2>1, RunNumbers
<1>6. PICK r \in Parties \X Numbers : r = this
  BY <1>5
<1>7. Operation!Return(r)
  BY <1>1, <1>2, <1>3, <1>4, <1>6 DEF Operation!Return, Began, Returned
<1> QED
  BY <1>6, <1>7 DEF Operation!Next

LEMMA ExecuteMoves ==
    ASSUME MInv, NEW s \in Parties, NEW n \in 1 .. run[s], NEW tx, Execute(tx, s, n),
           tx.moves => <<s, n>> \notin moved, run' = run, pc' = pc, ClientsAssumption
    PROVE  Operation!Next \/ UNCHANGED Operation!vars
<1>1. Began' = Began /\ Returned' = Returned
  BY DEF Began, Returned
<1>2. moved' = IF tx.moves THEN moved \cup {<<s, n>>} ELSE moved
  BY DEF Execute
<1>3. CASE tx.moves
  <2>1. n \in 1 .. MaxRuns[s] /\ n \in Nat /\ n <= run[s]
    BY DEF MInv, TypeInv, ClientsAssumption
  <2>2. <<s, n>> \in Parties \X Numbers
    BY <2>1, RunNumbers
  <2>3. <<s, n>> \in Began \ (moved \cup Returned)
    BY <1>3, <2>1, <2>2, ReturnedMoved DEF Began
  <2>4. Operation!Move(<<s, n>>)
    BY <1>1, <1>2, <1>3, <2>3 DEF Operation!Move, Began, Returned
  <2> QED
    BY <2>2, <2>4 DEF Operation!Next
<1>4. CASE ~ tx.moves
  BY <1>1, <1>2, <1>4 DEF Operation!vars, Began, Returned
<1> QED
  BY <1>3, <1>4

(* Every step is one of the abstract operation, or none. *)
LEMMA NextImplements ==
    ASSUME MInv, Next, ClientsAssumption
    PROVE  Operation!Next \/ UNCHANGED Operation!vars
<1>1. ASSUME run' = run, moved' = moved,
             \A s \in Parties : pc'[s] = "returned" <=> pc[s] = "returned"
      PROVE  UNCHANGED Operation!vars
  <2>1. Returned' = Returned
    BY <1>1 DEF Returned
  <2>2. Began' = Began
    BY <1>1 DEF Began
  <2> QED
    BY <1>1, <2>1, <2>2 DEF Operation!vars, Began, Returned
<1>2. ASSUME NEW s \in Parties, Start(s) PROVE Operation!Next
  BY <1>2, StartBegins
<1>3. ASSUME NEW s \in Parties, Ask(s) \/ Guess(s) \/ Send(s)
      PROVE  UNCHANGED Operation!vars
  BY <1>1, <1>3 DEF Ask, Guess, Send, Reads
<1>4. ASSUME NEW s \in Parties, Return(s) PROVE Operation!Next
  BY <1>4, ReturnReturns
<1>5. ASSUME NEW s \in Parties, NEW sent, pc[s] = "running", Abandon(s, sent)
      PROVE  UNCHANGED Operation!vars
  BY <1>1, <1>5 DEF Abandon, MInv, TypeInv
<1>6. ASSUME NEW s \in Parties, Interrupt(s) PROVE UNCHANGED Operation!vars
  BY <1>5, <1>6 DEF Interrupt
<1>7. ASSUME NEW s \in Parties, NEW tx \in inflight[s], Revert(s, tx)
      PROVE  UNCHANGED Operation!vars
  BY <1>5, <1>7 DEF Revert
<1>8. ASSUME NEW s \in Parties, NEW tx \in inflight[s], Land(s, tx)
      PROVE  Operation!Next \/ UNCHANGED Operation!vars
  <2>1. Execute(tx, s, run[s]) /\ run' = run /\ pc' = pc /\ run[s] \in 1 .. run[s]
    BY <1>8, RunPositive DEF Land
  <2>2. tx.moves => <<s, run[s]>> \notin moved
    BY <1>8, LandMInv DEF Own
  <2> QED
    BY <2>1, <2>2, ExecuteMoves
<1>9. ASSUME NEW l \in loose, LooseLands(l[1], l[2], l[3])
      PROVE  Operation!Next \/ UNCHANGED Operation!vars
  <2>1. /\ l[1] \in Parties /\ l[2] \in 1 .. run[l[1]]
        /\ l[3].moves => <<l[1], l[2]>> \notin moved
    BY <1>9, LooseLandsMInv
  <2>2. Execute(l[3], l[1], l[2]) /\ run' = run /\ pc' = pc
    BY <1>9 DEF LooseLands, session
  <2> QED
    BY <2>1, <2>2, ExecuteMoves
<1>10. ASSUME NEW x \in Optional, OthersAct(x) PROVE UNCHANGED Operation!vars
  BY <1>1, <1>10 DEF OthersAct, session
<1> QED
  BY <1>2, <1>3, <1>4, <1>6, <1>7, <1>8, <1>9, <1>10 DEF Next

(* The clients implement AtomicOperation: each run of each party moves the tokens at most
   once, also when it is interrupted and its last transaction lands after that, and a run
   that returns has moved them. *)
THEOREM ClientsImplementOperation == Spec => ImplementsOperation
<1> USE ClientsAssumption
<1>1. Init => Operation!Init
  <2> SUFFICES ASSUME Init PROVE Operation!Init
    OBVIOUS
  <2>1. \A s \in Parties : run[s] = 0 /\ pc[s] = "idle"
    BY DEF Init
  <2>2. Began = {} /\ Returned = {} /\ moved = {}
    BY <2>1, NumbersNat DEF Init, Began, Returned
  <2> QED
    BY <2>2 DEF Operation!Init, Began, Returned
<1>2. MInv /\ [Next]_vars => [Operation!Next]_Operation!vars
  <2>1. ASSUME UNCHANGED vars PROVE UNCHANGED Operation!vars
    BY <2>1 DEF vars, session, Operation!vars
  <2> QED
    BY <2>1, NextImplements
<1> QED
  BY <1>1, <1>2, ClientsInvariant, PTL DEF Spec, ImplementsOperation, Operation!Spec
-----------------------------------------------------------------------------
(* Who may succeed depends on the operation and on the chain. *)
LEMMA SameBarred ==
    ASSUME plan' = plan, facts' = facts
    PROVE  \A p \in Parties : (Barred(p)' <=> Barred(p)) /\ (Able(p)' <=> Able(p))
BY DEF Able, Barred

(* What concerns a run changes only with what it is about. *)
LEMMA Frame ==
    ASSUME NEW p \in Parties, plan' = plan, facts' = facts, allowance' = allowance,
           version' = version, pc'[p] = pc[p], run'[p] = run[p], step'[p] = step[p],
           queue'[p] = queue[p], inflight'[p] = inflight[p], before'[p] = before[p],
           Own(p) \in moved' <=> Own(p) \in moved, clean'[p] => clean[p],
           AbleOne(p), AllowOne(p)
    PROVE  AbleOne(p)' /\ AllowOne(p)'
<1>1. /\ Own(p)' = Own(p) /\ Legs' = Legs /\ Pending(p)' = Pending(p) /\ Cost(p)' = Cost(p)
      /\ Due(p, step[p])' = Due(p, step[p]) /\ (Able(p)' <=> Able(p))
  BY SameBarred DEF Own, Legs, Pending, Items, Cost, Due, Amount
<1>2. Shape(p)' <=> Shape(p)
  <2>1. Signing(p)' = Signing(p) /\ Sigs(p)' = Sigs(p) /\ Posting(p)' = Posting(p)
    BY DEF Signing, Sigs, Posting
  <2>2. \A group : Ready(group)' <=> Ready(group)
    BY DEF Ready, Executable
  <2>3. Ready(inflight[p])' <=> Ready(inflight[p])
    BY DEF Ready, Executable
  <2>4. Ready(Head(queue[p]))' <=> Ready(Head(queue[p]))
    BY DEF Ready, Executable
  <2> QED
    BY <2>1, <2>3, <2>4 DEF Shape
<1>3. AbleOne(p)'
  BY <1>1, <1>2 DEF AbleOne
<1>4. AllowOne(p)'
  BY <1>1 DEF AllowOne, Enough
<1> QED
  BY <1>3, <1>4

(* What is claimed of undisturbed runs says nothing of the others. *)
LEMMA Disturbed ==
    ASSUME NEW p \in Parties, ~ clean'[p]
    PROVE  AbleOne(p)' /\ AllowOne(p)'
BY DEF AbleOne, AllowOne

(* Each action keeps what is claimed of undisturbed runs. *)
LEMMA StartClean ==
    ASSUME CInv, NEW s \in Parties, Start(s)
    PROVE  CleanRunSucceeds' /\ AbleInv' /\ AllowInv'
<1>1. /\ pc[s] \in {"idle", "threw"} /\ run[s] < MaxRuns[s]
      /\ pc' = [pc EXCEPT ![s] = "running"] /\ run' = [run EXCEPT ![s] = @ + 1]
      /\ clean' = [clean EXCEPT ![s] = Claimed \notin facts]
      /\ before' = [before EXCEPT ![s] = allowance]
      /\ plan' = plan /\ facts' = facts /\ allowance' = allowance /\ version' = version
      /\ step' = step /\ queue' = queue /\ inflight' = inflight /\ loose' = loose
      /\ moved' = moved
  BY DEF Start, chain
<1>2. TypeInv /\ IdleInv
  BY DEF CInv, MInv
<1>3. /\ step'[s] = 0 /\ queue'[s] = << >> /\ inflight'[s] = {}
      /\ pc'[s] = "running" /\ before'[s] = allowance /\ clean'[s] = (Claimed \notin facts)
  BY <1>1, <1>2 DEF IdleInv, TypeInv
<1>4. AbleOne(s)'
  <2>1. Due(s, 0)' = {}
    BY DEF Due
  <2> QED
    BY <1>1, <1>3, <2>1 DEF AbleOne, Shape
<1>5. AllowOne(s)'
  BY <1>1, <1>3 DEF AllowOne
<1>6. ASSUME NEW p \in Parties, p # s PROVE AbleOne(p)' /\ AllowOne(p)'
  <2>1. /\ pc'[p] = pc[p] /\ run'[p] = run[p] /\ clean'[p] = clean[p]
        /\ before'[p] = before[p]
    BY <1>1, <1>2, <1>6 DEF TypeInv
  <2> QED
    BY <1>1, <2>1, Frame DEF CInv, AbleInv, AllowInv
<1>7. CleanRunSucceeds'
  BY <1>1, <1>2, <1>3, SameBarred DEF CInv, CleanRunSucceeds, TypeInv
<1> QED
  BY <1>4, <1>5, <1>6, <1>7 DEF AbleInv, AllowInv

(* A step read from the chain as it is yields what can execute. *)
LEMMA AskClean ==
    ASSUME CInv, NEW s \in Parties, Ask(s)
    PROVE  CleanRunSucceeds' /\ AbleInv' /\ AllowInv'
<1> DEFINE c == Chain(facts)
           k == step[s] + 1
           g == Yields(s, c)[k]
<1>1. /\ pc[s] = "running" /\ queue[s] = << >> /\ inflight[s] = {} /\ step[s] < Steps(s, c)
      /\ step' = [step EXCEPT ![s] = @ + 1] /\ queue' = [queue EXCEPT ![s] = g]
      /\ pc' = pc /\ run' = run /\ before' = before /\ clean' = clean
      /\ plan' = plan /\ facts' = facts /\ allowance' = allowance /\ version' = version
      /\ inflight' = inflight /\ loose' = loose /\ moved' = moved
  BY DEF Ask, Waiting, Reads, chain
<1>2. TypeInv /\ FactsInv /\ IdleInv /\ MoveInv
  BY DEF CInv, MInv
<1>3. Taken(s, c, Yields(s, c)) /\ run[s] > 0
  <2>1. facts \in SUBSET facts
    OBVIOUS
  <2> QED
    BY <1>1, <1>2, <2>1, YieldsTaken DEF IdleInv, TypeInv
<1>4. /\ k \in 1 .. Legs /\ Regular(s, c, k, g) /\ Smooth(s, k, g)
      /\ step[s] \in Nat /\ k - 1 = step[s] /\ step[s] < Legs /\ k \in Nat
  BY <1>1, <1>2, <1>3, LegsRange DEF Taken, Steps, TypeInv
<1>5. Pending(s) = {} /\ Own(s) \notin moved
  <2>1. Pending(s) = {}
    BY <1>1, ItemsOf DEF Pending
  <2> QED
    BY <1>1, <1>2, <1>4, <2>1 DEF MoveInv
<1>6. /\ queue'[s] = g /\ step'[s] = k /\ inflight'[s] = {} /\ Own(s)' = Own(s)
      /\ Legs' = Legs /\ (Able(s)' <=> Able(s)) /\ Cost(s)' = Cost(s)
      /\ Due(s, step[s])' = Due(s, k)
  <2>1. queue'[s] = g /\ step'[s] = k /\ inflight'[s] = {}
    BY <1>1, <1>2 DEF TypeInv
  <2> HIDE DEF k, g
  <2>2. Due(s, step[s])' = Due(s, k)
    BY <1>1, <2>1 DEF Due
  <2> QED
    BY <1>1, <2>1, <2>2, SameBarred DEF Own, Legs, Cost, Amount
<1>7. Pending(s)' = Items(g)
  BY <1>6 DEF Pending, Items
<1>8. plan \in Approving =>
          /\ k = 1 => \/ g = << >> /\ allowance >= Cost(s)
                      \/ \E tx \in Transactions : g = One(tx) /\ tx.approves = Cost(s)
          /\ k = 2 => \A tx \in Items(g) : tx.approves = 0 /\ tx.spends = Cost(s)
  <2> SUFFICES ASSUME plan \in Approving
               PROVE  /\ k = 1 => \/ g = << >> /\ allowance >= Cost(s)
                                  \/ \E tx \in Transactions :
                                        g = One(tx) /\ tx.approves = Cost(s)
                      /\ k = 2 => \A tx \in Items(g) : tx.approves = 0 /\ tx.spends = Cost(s)
    OBVIOUS
  <2>1. c.allowance = allowance /\ allowance \in Nat /\ Cost(s) \in Nat
    BY <1>2 DEF Chain, TypeInv, Cost, Amount, Fee, Parties
  <2>2. /\ Yields(s, c) = << Approve(Cost(s), c), One(Spend(Cost(s))) >>
        /\ IF c.allowance < Cost(s)
           THEN \E tx \in Transactions :
                   Approve(Cost(s), c) = One(tx) /\ tx.approves = Cost(s)
           ELSE Approve(Cost(s), c) = << >>
        /\ Spend(Cost(s)).spends = Cost(s) /\ Spend(Cost(s)).approves = 0
    BY <1>2, <2>1, YieldsApproval
  <2> HIDE DEF c
  <2>3. CASE k = 1
    BY <2>1, <2>2, <2>3
  <2>4. CASE k = 2
    <3>1. g = One(Spend(Cost(s)))
      BY <2>2, <2>4
    <3>2. Items(g) = {Spend(Cost(s))}
      BY <3>1, ItemsOf DEF One
    <3> QED
      BY <2>2, <2>4, <3>2
  <2> QED
    BY <2>3, <2>4
<1> HIDE DEF g, c, k
<1>9. AllowOne(s)'
  <2> SUFFICES ASSUME clean[s], plan \in Approving PROVE AllowOne(s)'
    BY <1>1, <1>6 DEF CInv, AllowInv, AllowOne
  <2>1. Legs = 2
    BY DEF Legs, Approving
  <2>2. CASE k = 1
    <3>1. allowance = before[s]
      BY <1>1, <1>4, <2>2 DEF CInv, AllowInv, AllowOne
    <3>2. \A tx \in Transactions : g = One(tx) => Items(g) = {tx}
      BY OneGroup
    <3>3. g = << >> => Items(g) = {}
      BY ItemsOf
    <3> QED
      BY <1>1, <1>6, <1>7, <1>8, <2>2, <3>1, <3>2, <3>3 DEF AllowOne, Enough
  <2>3. CASE k = 2
    <3>1. Enough(s)
      BY <1>1, <1>4, <1>5, <2>3 DEF CInv, AllowInv, AllowOne
    <3> QED
      BY <1>1, <1>5, <1>6, <1>7, <1>8, <2>3, <3>1 DEF AllowOne, Enough
  <2> QED
    BY <1>4, <2>1, <2>2, <2>3
<1>10. AbleOne(s)'
  <2> SUFFICES ASSUME clean[s], Able(s) PROVE AbleOne(s)'
    BY <1>1, <1>6 DEF AbleOne
  <2>1. /\ Claimed \notin facts /\ Due(s, k - 1) \subseteq facts
    BY <1>1, <1>4, <1>5 DEF CInv, AbleInv, AbleOne
  <2>2. plan \in Approving /\ k = 2 => allowance >= Cost(s)
    <3> SUFFICES ASSUME plan \in Approving, k = 2 PROVE allowance >= Cost(s)
      OBVIOUS
    <3>1. Enough(s)
      BY <1>1, <1>4, <1>5 DEF CInv, AllowInv, AllowOne
    <3> QED
      BY <3>1 DEF Enough
  <2>3. /\ Opens(s, g)
        /\ k < Legs => \A x \in Due(s, k) : x \in facts \/ \E tx \in Items(g) : x \in tx.adds
    BY <1>4, <2>1, <2>2 DEF Smooth
  <2>4. Shape(s)'
    <3>1. Signing(s)' = Signing(s) /\ Posting(s)' = Posting(s)
      BY <1>1 DEF Signing, Posting, Sigs
    <3>2. Ready(Head(g)) => Ready(Head(queue[s]))'
      BY <1>1, <1>6 DEF Ready, Executable
    <3> QED
      BY <1>1, <1>6, <2>3, <3>1, <3>2 DEF Shape, Opens
  <2> QED
    BY <1>1, <1>6, <1>7, <2>1, <2>3, <2>4 DEF AbleOne
<1>11. ASSUME NEW p \in Parties, p # s PROVE AbleOne(p)' /\ AllowOne(p)'
  <2>1. step'[p] = step[p] /\ queue'[p] = queue[p]
    BY <1>1, <1>2, <1>11 DEF TypeInv
  <2> QED
    BY <1>1, <2>1, Frame DEF CInv, AbleInv, AllowInv
<1>12. CleanRunSucceeds'
  BY <1>1, SameBarred DEF CInv, CleanRunSucceeds
<1> QED
  BY <1>9, <1>10, <1>11, <1>12 DEF AbleInv, AllowInv

LEMMA SendClean ==
    ASSUME CInv, NEW s \in Parties, Send(s)
    PROVE  CleanRunSucceeds' /\ AbleInv' /\ AllowInv'
<1>1. /\ pc[s] = "running" /\ queue[s] # << >> /\ inflight[s] = {}
      /\ inflight' = [inflight EXCEPT ![s] = Head(queue[s])]
      /\ queue' = [queue EXCEPT ![s] = Tail(@)]
      /\ pc' = pc /\ run' = run /\ step' = step /\ clean' = clean /\ before' = before
      /\ plan' = plan /\ facts' = facts /\ allowance' = allowance /\ version' = version
      /\ loose' = loose /\ moved' = moved
  BY DEF Send, chain
<1>2. TypeInv
  BY DEF CInv, MInv
<1>3. queue[s] \in Seq(SUBSET Transactions)
  BY <1>2 DEF TypeInv
<1>4. /\ inflight'[s] = Head(queue[s]) /\ queue'[s] = Tail(queue[s])
      /\ Pending(s)' = Pending(s)
  <2>1. inflight'[s] = Head(queue[s]) /\ queue'[s] = Tail(queue[s])
    BY <1>1, <1>2 DEF TypeInv
  <2>2. Items(queue[s]) = Head(queue[s]) \cup Items(Tail(queue[s]))
    BY <1>1, <1>3, ItemsSent
  <2>3. Pending(s)' = inflight'[s] \cup Items(queue'[s])
    BY DEF Pending, Items
  <2> QED
    BY <1>1, <2>1, <2>2, <2>3 DEF Pending
<1>5. /\ Own(s)' = Own(s) /\ Legs' = Legs /\ Cost(s)' = Cost(s)
      /\ Due(s, step[s])' = Due(s, step[s]) /\ (Able(s)' <=> Able(s))
      /\ Signing(s)' = Signing(s) /\ Sigs(s)' = Sigs(s) /\ Posting(s)' = Posting(s)
  BY <1>1, SameBarred DEF Own, Legs, Cost, Due, Amount, Signing, Sigs, Posting
<1>6. Len(queue[s]) = 1 => Tail(queue[s]) = << >>
  <2> SUFFICES ASSUME Len(queue[s]) = 1 PROVE Tail(queue[s]) = << >>
    OBVIOUS
  <2>1. Tail(queue[s]) \in Seq(SUBSET Transactions) /\ Len(Tail(queue[s])) = 0
    BY <1>1, <1>3
  <2> QED
    BY <2>1, EmptySeq
<1>7. AbleOne(s)'
  <2> SUFFICES ASSUME clean[s], Able(s) PROVE AbleOne(s)'
    BY <1>1, <1>5 DEF AbleOne
  <2>1. AbleOne(s) /\ Shape(s)
    BY <1>1 DEF CInv, AbleInv, AbleOne
  <2>2. Shape(s)'
    <3>1. CASE Len(queue[s]) = 1 /\ Ready(Head(queue[s]))
      <4>1. Ready(Head(queue[s])) => Ready(inflight[s])'
        BY <1>1, <1>4 DEF Ready, Executable
      <4> QED
        BY <1>4, <1>6, <3>1, <4>1 DEF Shape
    <3>2. CASE queue[s] = <<Signing(s), {Posting(s)}>> /\ Posted \notin facts
      <4>1. inflight'[s] = Signing(s) /\ queue'[s] = << {Posting(s)} >>
        BY <1>4, <3>2
      <4>2. \A g \in Sigs(s) : [Call EXCEPT !.adds = {g}] \in Signing(s)
        BY DEF Signing, Sigs
      <4> QED
        BY <1>1, <1>5, <3>2, <4>1, <4>2 DEF Shape
    <3>3. CASE /\ queue[s] = << {Posting(s)} >> /\ Posted \notin facts
               /\ \A g \in Sigs(s) : g \in facts \/ [Call EXCEPT !.adds = {g}] \in inflight[s]
      <4>1. inflight'[s] = {Posting(s)} /\ queue'[s] = << >>
        BY <1>4, <1>6, <3>3
      <4>2. Sigs(s) \subseteq facts
        BY <1>1, <3>3
      <4>3. /\ Posting(s).needs = Sigs(s) /\ Posting(s).absent = {Posted}
            /\ Posting(s).spends = 0 /\ Posting(s).pinned = 0
        BY <1>2, PostingTx
      <4>4. Executable(Posting(s))
        BY <1>2, <3>3, <4>2, <4>3 DEF Executable, TypeInv
      <4>5. Executable(Posting(s))'
        BY <1>1, <1>5, <4>4 DEF Executable
      <4>6. Ready(inflight[s])'
        BY <1>5, <4>1, <4>5 DEF Ready
      <4> QED
        BY <4>1, <4>6 DEF Shape
    <3> QED
      BY <1>1, <2>1, <3>1, <3>2, <3>3 DEF Shape
  <2> QED
    BY <1>1, <1>4, <1>5, <2>1, <2>2 DEF AbleOne
<1>8. AllowOne(s)'
  <2>1. step[s] = 1 /\ plan \in Approving /\ clean[s] /\ inflight'[s] # {} => queue'[s] = << >>
    <3> SUFFICES ASSUME step[s] = 1, plan \in Approving, clean[s], inflight'[s] # {}
                 PROVE  queue'[s] = << >>
      OBVIOUS
    <3>1. Able(s)
      BY DEF Able, Barred, Approving, NotResumable, ForReceiver
    <3>2. AbleOne(s)' /\ Able(s)'
      BY <1>5, <1>7, <3>1
    <3>3. Shape(s)
      BY <1>1, <3>1 DEF CInv, AbleInv, AbleOne
    <3>4. \E tx \in Pending(s) : Pending(s) = {tx} /\ tx.approves = Cost(s)
      <4>1. Head(queue[s]) \in SUBSET Transactions /\ Items(queue[s]) \subseteq Pending(s)
        BY <1>1, <1>3, ItemsSent DEF Pending
      <4>2. Pending(s) # {}
        <5>1. CASE Len(queue[s]) = 1 /\ Ready(Head(queue[s]))
          BY <1>1, <1>3, <5>1, ItemsSent DEF Ready, Pending
        <5>2. CASE queue[s] = <<Signing(s), {Posting(s)}>>
          BY SMTT(30), <5>2, ItemsOf DEF Pending
        <5>3. CASE queue[s] = << {Posting(s)} >>
          BY <5>3, ItemsOf DEF Pending
        <5> QED
          BY <1>1, <3>3, <5>1, <5>2, <5>3 DEF Shape
      <4> QED
        BY <1>1, <4>2 DEF CInv, AllowInv, AllowOne
    <3>5. queue[s] # <<Signing(s), {Posting(s)}>>
      <4> SUFFICES ASSUME queue[s] = <<Signing(s), {Posting(s)}>> PROVE FALSE
        OBVIOUS
      <4>1. Posting(s) \in Pending(s)
        BY ItemsOf DEF Pending
      <4>2. Posting(s).approves = 0 /\ Cost(s) # 0
        BY <1>2, PostingTx DEF Cost, Amount, Fee, Parties
      <4> QED
        BY <3>4, <4>1, <4>2
    <3>6. Len(queue[s]) = 1
      <4>1. queue[s] = << {Posting(s)} >> => Len(queue[s]) = 1
        OBVIOUS
      <4> QED
        BY <1>1, <3>3, <3>5, <4>1 DEF Shape
    <3> QED
      BY <1>4, <1>6, <3>6
  <2> QED
    BY <1>1, <1>4, <1>5, <2>1 DEF CInv, AllowInv, AllowOne, Enough
<1>9. ASSUME NEW p \in Parties, p # s PROVE AbleOne(p)' /\ AllowOne(p)'
  <2>1. inflight'[p] = inflight[p] /\ queue'[p] = queue[p]
    BY <1>1, <1>2, <1>9 DEF TypeInv
  <2> QED
    BY <1>1, <2>1, Frame DEF CInv, AbleInv, AllowInv
<1>10. CleanRunSucceeds'
  BY <1>1, SameBarred DEF CInv, CleanRunSucceeds
<1> QED
  BY <1>7, <1>8, <1>9, <1>10 DEF AbleInv, AllowInv

(* After a transaction of its own, an undisturbed run can go on. *)
LEMMA LandClean ==
    ASSUME CInv, NEW s \in Parties, NEW tx \in inflight[s], Land(s, tx)
    PROVE  CleanRunSucceeds' /\ AbleInv' /\ AllowInv'
<1>1. /\ pc[s] = "running" /\ Execute(tx, s, run[s])
      /\ inflight' = [inflight EXCEPT ![s] = @ \ {tx}] /\ clean' = Undisturbed(s)
      /\ plan' = plan /\ pc' = pc /\ run' = run /\ step' = step /\ queue' = queue
      /\ loose' = loose /\ before' = before
  BY DEF Land
<1>2. TypeInv /\ FactsInv /\ MoveInv /\ IdleInv
  BY DEF CInv, MInv
<1>3. tx \in Transactions /\ tx \in Pending(s) /\ Sound(tx, s, run[s])
  <2>1. tx \in Transactions /\ tx \in Pending(s)
    BY <1>2 DEF TypeInv, Pending
  <2> QED
    BY <2>1 DEF CInv, MInv, SoundInv
<1>4. /\ inflight'[s] = inflight[s] \ {tx} /\ clean'[s] = clean[s]
      /\ \A p \in Parties : p # s => ~ clean'[p]
  BY <1>1, <1>2 DEF TypeInv, Undisturbed
<1>5. /\ facts' = (facts \ tx.removes) \cup tx.adds
      /\ allowance' = IF tx.approves > 0 THEN tx.approves ELSE allowance - tx.spends
      /\ moved' = IF tx.moves THEN moved \cup {Own(s)} ELSE moved
      /\ allowance \in Nat /\ tx.approves \in Nat /\ tx.spends \in Nat
      /\ tx.spends <= allowance /\ before[s] \in Nat
  BY <1>1, <1>2, <1>3 DEF Execute, Executable, Own, TypeInv, Transactions
<1>6. /\ Own(s)' = Own(s) /\ Legs' = Legs /\ Cost(s)' = Cost(s)
      /\ Due(s, step[s])' = Due(s, step[s])
      /\ Signing(s)' = Signing(s) /\ Sigs(s)' = Sigs(s) /\ Posting(s)' = Posting(s)
  BY <1>1 DEF Own, Legs, Cost, Due, Amount, Signing, Sigs, Posting
<1>7. Pending(s) \subseteq Pending(s)' \cup {tx} /\ Pending(s)' \subseteq Pending(s)
  BY <1>1, <1>4 DEF Pending, Items
<1>8. step[s] < Legs => ~ tx.moves /\ tx.removes = {}
  BY <1>1, <1>2, <1>3 DEF MoveInv, Sound
<1>9. Able(s) => AbleOne(s)'
  <2> SUFFICES ASSUME clean[s], Able(s) PROVE AbleOne(s)'
    BY <1>4 DEF AbleOne
  <2>1. AbleOne(s) /\ Shape(s)
    BY <1>1 DEF CInv, AbleInv, AbleOne
  <2>2. Own(s) \notin moved' => Claimed \notin facts'
    <3> SUFFICES ASSUME Own(s) \notin moved' PROVE Claimed \notin facts'
      OBVIOUS
    <3>1. ~ tx.moves /\ Own(s) \notin moved
      BY <1>5
    <3>2. Claimed \notin facts /\ Claimed \notin tx.adds
      BY <1>1, <1>3, <2>1, <3>1 DEF AbleOne, Sound
    <3> QED
      BY <1>5, <3>2
  <2>3. step[s] < Legs => \A x \in Due(s, step[s]) :
                             x \in facts' \/ \E u \in Pending(s)' : x \in u.adds
    BY <1>1, <1>5, <1>7, <1>8, <2>1 DEF AbleOne
  <2>4. Shape(s)'
    <3>1. CASE queue[s] = << >> /\ Ready(inflight[s])
      BY <1>1, <1>4, <3>1 DEF Shape, Ready
    <3>2. CASE /\ queue[s] = << {Posting(s)} >> /\ Posted \notin facts
               /\ inflight[s] \subseteq Signing(s)
               /\ \A g \in Sigs(s) : g \in facts \/ [Call EXCEPT !.adds = {g}] \in inflight[s]
      <4>1. PICK h \in Sigs(s) : tx = [Call EXCEPT !.adds = {h}]
        BY <3>2 DEF Signing, Sigs
      <4>2. tx.adds = {h} /\ tx.removes = {}
        BY <1>2, <4>1, SigningTx
      <4>3. facts' = facts \cup {h}
        BY <1>5, <4>2
      <4>4. h # Posted
        BY DEF Sigs, Signature, Posted, Fact
      <4>5. Posted \notin facts'
        BY <3>2, <4>3, <4>4
      <4>6. ASSUME NEW g \in Sigs(s), g \notin facts'
            PROVE  [Call EXCEPT !.adds = {g}] \in inflight'[s]
        <5>1. PICK u : u = [Call EXCEPT !.adds = {g}]
          OBVIOUS
        <5>2. u.adds = {g}
          BY <1>2, <5>1, SigningTx
        <5>3. u # tx /\ u \in inflight[s]
          BY <3>2, <4>2, <4>3, <4>6, <5>1, <5>2
        <5> QED
          BY <1>4, <5>1, <5>3
      <4> QED
        BY <1>1, <1>4, <1>6, <3>2, <4>5, <4>6 DEF Shape
    <3> QED
      BY <2>1, <3>1, <3>2 DEF Shape
  <2> QED
    BY <1>1, <1>6, <2>2, <2>3, <2>4 DEF AbleOne
<1>10. ~ Able(s) => AbleOne(s)'
  <2> SUFFICES ASSUME ~ Able(s), Able(s)' PROVE AbleOne(s)'
    BY DEF AbleOne
  <2>1. plan \in {"EvmRedeem", "AlgorandTransfer"}
    BY <1>1 DEF Able, Barred
  <2>2. Legs = 1 /\ step[s] = 1
    BY <1>2, <2>1 DEF Legs, Approving, IdleInv, TypeInv
  <2>3. queue[s] = << >> /\ Final(inflight[s])
    BY <1>1, <1>2, <2>2 DEF MoveInv
  <2>4. inflight[s] = {tx} /\ tx.moves
    <3>1. tx.needs \subseteq facts
      BY <1>1 DEF Execute, Executable
    <3> QED
      BY <1>2, <2>3, <3>1 DEF Final, FactsInv, Never
  <2>5. Shape(s)'
    BY <1>1, <1>4, <2>3, <2>4 DEF Shape
  <2> QED
    BY <1>1, <1>5, <1>6, <2>2, <2>4, <2>5 DEF AbleOne
<1>11. AbleOne(s)'
  BY <1>9, <1>10
<1>12. AllowOne(s)'
  <2> SUFFICES ASSUME clean[s] PROVE AllowOne(s)'
    BY <1>4 DEF AllowOne
  <2>1. AllowOne(s) /\ step[s] # 0
    BY <1>2 DEF CInv, AllowInv, IdleInv
  <2>2. CASE plan \notin Approving
    <3>1. tx.approves = 0 /\ tx.spends = 0
      BY <1>3, <2>2 DEF Sound
    <3> QED
      BY <1>1, <1>5, <2>1, <2>2, <3>1 DEF AllowOne
  <2>3. CASE plan \in Approving /\ step[s] = 1
    <3>1. Cost(s) \in Nat \ {0}
      BY DEF Cost, Amount, Fee, Parties
    <3>2. Pending(s) = {tx} /\ tx.approves = Cost(s) /\ queue[s] = << >>
      BY <1>1, <1>3, <2>1, <2>3 DEF AllowOne
    <3>3. Pending(s)' = {}
      <4>1. inflight'[s] = {} /\ queue'[s] = << >>
        BY <1>1, <1>4, <3>2 DEF Pending
      <4>2. Pending(s)' = inflight'[s] \cup Items(queue'[s])
        BY DEF Pending, Items
      <4> QED
        BY <4>1, <4>2, ItemsOf
    <3>4. allowance' = Cost(s)
      BY <1>5, <3>1, <3>2
    <3> QED
      BY <1>1, <1>6, <2>3, <3>1, <3>3, <3>4 DEF AllowOne, Enough
  <2>4. CASE plan \in Approving /\ step[s] # 1
    <3>1. Legs = 2 /\ step[s] = 2
      BY <1>2, <2>1, <2>4 DEF Legs, Approving, TypeInv
    <3>2. tx.moves /\ Own(s) \notin moved
      <4>1. /\ Own(s) \notin moved
            /\ tx.moves \/ Never \in tx.needs
        BY <1>1, <1>2, <3>1 DEF MoveInv, Final
      <4>2. tx.needs \subseteq facts
        BY <1>1 DEF Execute, Executable
      <4> QED
        BY <1>2, <4>1, <4>2 DEF FactsInv, Never
    <3>3. Enough(s) /\ tx.approves = 0 /\ tx.spends = Cost(s)
      BY <1>1, <1>3, <2>1, <2>4, <3>1, <3>2 DEF AllowOne
    <3>4. allowance' <= before[s] /\ Own(s) \in moved'
      BY <1>5, <3>2, <3>3 DEF Enough
    <3> QED
      BY <1>1, <1>6, <3>1, <3>4, <2>4 DEF AllowOne
  <2> QED
    BY <2>2, <2>3, <2>4
<1>13. ASSUME NEW p \in Parties, p # s PROVE AbleOne(p)' /\ AllowOne(p)'
  BY <1>4, <1>13, Disturbed
<1>14. CleanRunSucceeds'
  BY <1>1, <1>4 DEF CleanRunSucceeds
<1> QED
  BY <1>11, <1>12, <1>13, <1>14 DEF AbleInv, AllowInv

(* What an undisturbed run waits for can execute. *)
LEMMA SigningExecutes ==
    ASSUME TypeInv, NEW s \in Parties, NEW tx, tx \in Signing(s)
    PROVE  Executable(tx)
<1>1. PICK h \in Sigs(s) : tx = [Call EXCEPT !.adds = {h}]
  BY DEF Signing, Sigs
<1>2. tx.needs = {} /\ tx.absent = {} /\ tx.spends = 0 /\ tx.pinned = 0
  BY ZenonT(40), <1>1, SigningTx
<1> QED
  BY <1>2 DEF Executable, TypeInv

LEMMA AbleExecutes ==
    ASSUME CInv, NEW s \in Parties, NEW tx \in inflight[s], pc[s] = "running", clean[s],
           Able(s)
    PROVE  Executable(tx)
<1>1. Shape(s)
  BY DEF CInv, AbleInv, AbleOne
<1>2. TypeInv
  BY DEF CInv, MInv
<1>3. CASE Ready(inflight[s])
  BY <1>3 DEF Ready
<1>4. CASE inflight[s] \subseteq Signing(s)
  BY <1>4, <1>2, SigningExecutes
<1> QED
  BY <1>1, <1>3, <1>4 DEF Shape

(* A run that fails although nobody has disturbed it is not one that may succeed. *)
LEMMA AbandonClean ==
    ASSUME CInv, NEW s \in Parties, NEW sent, pc[s] = "running", Abandon(s, sent),
           \A p \in Parties : clean'[p] => clean[p],
           clean'[s] => ~ Able(s)
    PROVE  CleanRunSucceeds' /\ AbleInv' /\ AllowInv'
<1>1. /\ pc' = [pc EXCEPT ![s] = "threw"] /\ step' = [step EXCEPT ![s] = 0]
      /\ queue' = [queue EXCEPT ![s] = << >>] /\ inflight' = [inflight EXCEPT ![s] = {}]
      /\ before' = [before EXCEPT ![s] = 0]
      /\ plan' = plan /\ facts' = facts /\ allowance' = allowance /\ version' = version
      /\ run' = run /\ moved' = moved
  BY DEF Abandon, chain
<1>2. TypeInv
  BY DEF CInv, MInv
<1>3. /\ pc'[s] = "threw"
      /\ \A p \in Parties : p # s =>
            /\ pc'[p] = pc[p] /\ step'[p] = step[p] /\ queue'[p] = queue[p]
            /\ inflight'[p] = inflight[p] /\ before'[p] = before[p]
  BY <1>1, <1>2 DEF TypeInv
<1>4. AbleOne(s)' /\ AllowOne(s)'
  BY <1>3 DEF AbleOne, AllowOne
<1>5. ASSUME NEW p \in Parties, p # s PROVE AbleOne(p)' /\ AllowOne(p)'
  BY <1>1, <1>3, <1>5, Frame DEF CInv, AbleInv, AllowInv
<1>6. CleanRunSucceeds'
  BY <1>1, <1>3, SameBarred DEF CInv, CleanRunSucceeds, Able
<1> QED
  BY <1>4, <1>5, <1>6 DEF AbleInv, AllowInv

(* Every step keeps what is claimed of undisturbed runs. *)
LEMMA NextClean ==
    ASSUME CInv, Next
    PROVE  CleanRunSucceeds' /\ AbleInv' /\ AllowInv'
<1> DEFINE Goal == CleanRunSucceeds' /\ AbleInv' /\ AllowInv'
<1>1. TypeInv
  BY DEF CInv, MInv
<1>2. ASSUME clean' = Undisturbed(0), pc' = pc, plan' = plan PROVE Goal
  <2>1. ASSUME NEW p \in Parties PROVE ~ clean'[p]
    <3>1. p # 0
      BY DEF Parties
    <3>2. clean'[p] = (clean[p] /\ p = 0)
      BY <1>2 DEF Undisturbed
    <3> QED
      BY <3>1, <3>2
  <2> QED
    BY <2>1, Disturbed DEF AbleInv, AllowInv, CleanRunSucceeds
<1>3. ASSUME NEW s \in Parties, Start(s) PROVE Goal
  BY <1>3, StartClean
<1>4. ASSUME NEW s \in Parties, Ask(s) PROVE Goal
  BY <1>4, AskClean
<1>5. ASSUME NEW s \in Parties, Guess(s) PROVE Goal
  <2>1. /\ ~ clean'[s]
        /\ pc' = pc /\ run' = run /\ before' = before /\ inflight' = inflight
        /\ plan' = plan /\ facts' = facts /\ allowance' = allowance /\ version' = version
        /\ moved' = moved
        /\ \A p \in Parties : p # s =>
              step'[p] = step[p] /\ queue'[p] = queue[p] /\ clean'[p] = clean[p]
    BY <1>1, <1>5 DEF Guess, Reads, Disturb, TypeInv, chain
  <2>2. ASSUME NEW p \in Parties, p # s PROVE AbleOne(p)' /\ AllowOne(p)'
    BY <2>1, <2>2, Frame DEF CInv, AbleInv, AllowInv
  <2>3. AbleOne(s)' /\ AllowOne(s)'
    BY <2>1, Disturbed
  <2>4. CleanRunSucceeds'
    BY <2>1, SameBarred DEF CInv, CleanRunSucceeds
  <2> QED
    BY <2>2, <2>3, <2>4 DEF AbleInv, AllowInv
<1>6. ASSUME NEW s \in Parties, Send(s) PROVE Goal
  BY <1>6, SendClean
<1>7. ASSUME NEW s \in Parties, Return(s) PROVE Goal
  <2>1. /\ pc[s] = "running" /\ pc' = [pc EXCEPT ![s] = "returned"]
        /\ run' = run /\ step' = step /\ queue' = queue /\ inflight' = inflight
        /\ moved' = moved /\ clean' = clean /\ before' = before
        /\ plan' = plan /\ facts' = facts /\ allowance' = allowance /\ version' = version
    BY <1>7 DEF Return, Waiting, chain
  <2>2. pc'[s] = "returned" /\ \A p \in Parties : p # s => pc'[p] = pc[p]
    BY <1>1, <2>1 DEF TypeInv
  <2>3. AbleOne(s)'
    BY <2>2 DEF AbleOne
  <2>4. AllowOne(s)'
    <3>1. /\ Own(s)' = Own(s) /\ Pending(s)' = Pending(s) /\ Cost(s)' = Cost(s)
      BY <2>1 DEF Own, Pending, Items, Cost, Amount
    <3> QED
      BY <2>1, <3>1 DEF CInv, AllowInv, AllowOne, Enough
  <2>5. ASSUME NEW p \in Parties, p # s PROVE AbleOne(p)' /\ AllowOne(p)'
    BY <2>1, <2>2, <2>5, Frame DEF CInv, AbleInv, AllowInv
  <2>6. CleanRunSucceeds'
    BY <2>1, <2>2, SameBarred DEF CInv, CleanRunSucceeds
  <2> QED
    BY <2>3, <2>4, <2>5, <2>6 DEF AbleInv, AllowInv
<1>8. ASSUME NEW s \in Parties, Interrupt(s) PROVE Goal
  <2>1. /\ pc[s] = "running" /\ Abandon(s, inflight[s]) /\ ~ clean'[s]
        /\ \A p \in Parties : clean'[p] => clean[p]
    BY <1>1, <1>8 DEF Interrupt, Disturb, TypeInv
  <2> QED
    BY <2>1, AbandonClean
<1>9. ASSUME NEW s \in Parties, NEW tx \in inflight[s], Land(s, tx) PROVE Goal
  BY <1>9, LandClean
<1>10. ASSUME NEW s \in Parties, NEW tx \in inflight[s], Revert(s, tx) PROVE Goal
  <2>1. /\ pc[s] = "running" /\ Abandon(s, inflight[s] \ {tx}) /\ clean' = clean
        /\ ~ Executable(tx)
    BY <1>10 DEF Revert
  <2>2. clean'[s] => ~ Able(s)
    BY <2>1, AbleExecutes
  <2> QED
    BY <2>1, <2>2, AbandonClean
<1>11. ASSUME NEW l \in loose, LooseLands(l[1], l[2], l[3]) PROVE Goal
  BY <1>2, <1>11 DEF LooseLands, session
<1>12. ASSUME NEW x \in Optional, OthersAct(x) PROVE Goal
  BY <1>2, <1>12 DEF OthersAct, session
<1> QED
  BY <1>3, <1>4, <1>5, <1>6, <1>7, <1>8, <1>9, <1>10, <1>11, <1>12 DEF Next

(* So does a step that changes nothing. *)
LEMMA StutterClean ==
    ASSUME CInv, UNCHANGED vars
    PROVE  CleanRunSucceeds' /\ AbleInv' /\ AllowInv'
<1>1. /\ plan' = plan /\ facts' = facts /\ allowance' = allowance /\ version' = version
      /\ pc' = pc /\ run' = run /\ step' = step /\ queue' = queue /\ inflight' = inflight
      /\ loose' = loose /\ moved' = moved /\ clean' = clean /\ before' = before
  BY DEF vars, chain, session
<1>2. \A p \in Parties : AbleOne(p)' /\ AllowOne(p)'
  BY <1>1, Frame DEF CInv, AbleInv, AllowInv
<1>3. CleanRunSucceeds'
  BY <1>1, SameBarred DEF CInv, CleanRunSucceeds
<1> QED
  BY <1>2, <1>3 DEF AbleInv, AllowInv

(* The second invariant holds always. *)
LEMMA ClientsCInv == Spec => []CInv
<1> USE ClientsAssumption
<1>1. Init => CInv
  <2> SUFFICES ASSUME Init PROVE CInv
    OBVIOUS
  <2>1. \A s \in Parties : pc[s] = "idle"
    BY DEF Init
  <2> QED
    BY <2>1, InitMInv DEF CInv, CleanRunSucceeds, AbleInv, AbleOne, AllowInv, AllowOne
<1>2. CInv /\ [Next]_vars => CInv'
  <2>1. CInv /\ Next => MInv'
    BY NextMInv DEF CInv
  <2>2. CInv /\ UNCHANGED vars => MInv'
    BY StutterMInv DEF CInv
  <2> QED
    BY <2>1, <2>2, NextClean, StutterClean DEF CInv
<1> QED
  BY <1>1, <1>2, PTL DEF Spec

(* An undisturbed run of any operation succeeds, after any number of runs of both parties
   that ended anywhere, unless it is one that cannot: an attestation of Aptos, the redeem of
   somebody else than the receiver where that is refused, that of the receiver of a payload
   which comes from another address, of a token of another chain, and a transfer of an asset
   of Algorand that was never attested. *)
THEOREM UndisturbedRunSucceeds == Spec => []CleanRunSucceeds
<1>1. CInv => CleanRunSucceeds
  BY DEF CInv
<1> QED
  BY <1>1, ClientsCInv, PTL

(* A run that returns undisturbed leaves the bridge no more of the sender's tokens to take
   than it found, as each transfer approves what it spends and no more. *)
THEOREM UndisturbedRunLeavesNoApproval == Spec => []NoApprovalLeft
<1>1. CInv => NoApprovalLeft
  <2> SUFFICES ASSUME CInv, NEW s \in Parties, pc[s] = "returned", clean[s]
               PROVE  allowance <= before[s]
    BY DEF NoApprovalLeft
  <2>1. AllowOne(s) /\ step[s] = Legs /\ Own(s) \in moved
    BY DEF CInv, MInv, AllowInv, IdleInv, MovedInv
  <2>2. allowance \in Nat
    BY DEF CInv, MInv, TypeInv
  <2>3. plan \in Approving => Legs = 2
    BY DEF Legs, Approving
  <2> QED
    BY <2>1, <2>2, <2>3, LegsRange DEF AllowOne
<1> QED
  BY <1>1, ClientsCInv, PTL
==========
