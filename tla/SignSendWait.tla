---------------------------- MODULE SignSendWait ----------------------------
(***************************************************************************)
(* Submitting the transactions of a transfer: ssw() of                     *)
(* connect/src/common.ts pulls them from a generator and hands them, in    *)
(* batches, to the signAndSend() of a signer, or to the sendWait() of the  *)
(* platform after the sign() of one that does not send.  Only Solana's     *)
(* generators mix parallelizable transactions, the signature verifications *)
(* of a VAA, with ordered ones.  The chain executes, reverts or drops what *)
(* it is sent.                                                             *)
(***************************************************************************)
EXTENDS Integers, Sequences

CONSTANTS N,            \* how many transactions the generator yields
          Signers,      \* the kinds of signers
          MaxResubmits  \* the `retries` option of SolanaSendSigner

(* SolanaSigner stands for sign() and SolanaPlatform.sendWait(), EvmNativeSigner for sign()
   and EvmPlatform.sendWait(), CeloSigner for the same on Celo and Tempo, where the waiting
   has a timeout, and for Aptos, Cosmwasm and SuiPlatform, whose clients give up as well;
   they all send one after the other and throw when one fails.  SuiSigner stands for
   XrplSigner, too. *)
ASSUME SubmissionAssumption ==
    /\ N \in Nat
    /\ Signers \subseteq {"SolanaSendSigner", "SolanaSigner", "EvmNativeSigner", "CeloSigner",
                         "SuiSigner"}
    /\ MaxResubmits \in Nat

VARIABLES parallelizable,  \* the flag of each transaction
          signer,          \* who signs and sends
          yielded,         \* how many transactions ssw() has pulled
          txbuff,          \* the buffered transactions
          batch,           \* the argument of the pending signSend()
          held,            \* the transaction waiting for the flush before it, 0 if none
          txids,           \* what ssw() has collected; a txid is its transaction's number
          pc,              \* where ssw() is
          call,            \* the client's side of each transaction of the batch
          attempts,        \* how often it was tried before (i)
          status           \* the chain's side of each transaction

vars == <<parallelizable, signer, yielded, txbuff, batch, held, txids, pc, call, attempts, status>>

Tx == 1 .. N

Needs(t) == {u \in 1 .. (t - 1) : \E x \in u .. t : ~ parallelizable[x]}

InBatch(t) == \E k \in 1 .. Len(batch) : batch[k] = t
-----------------------------------------------------------------------------
(* ssw() *)

HandOver(b) == /\ batch' = b
               /\ pc' = "sign"

(* Mutant: a transaction that is not parallelizable overtakes the buffer. *)
Overtakes(t) == /\ HandOver(<<t>>)
                /\ UNCHANGED <<held, txbuff>>

FlushBefore(t) == IF txbuff # <<>>
                  THEN HandOver(txbuff) /\ held' = t /\ txbuff' = <<>>
                  ELSE HandOver(<<t>>) /\ UNCHANGED <<held, txbuff>>

Pull == /\ pc = "pull" /\ yielded < N
        /\ yielded' = yielded + 1
        /\ \/ /\ parallelizable[yielded + 1]
              /\ txbuff' = Append(txbuff, yielded + 1)
              /\ UNCHANGED <<batch, held, pc>>
           \/ /\ ~ parallelizable[yielded + 1]
              /\ FlushBefore(yielded + 1)
        /\ UNCHANGED <<parallelizable, signer, txids, call, attempts, status>>

(* The generator asks the chain too, and may throw: the buffer is lost. *)
GeneratorThrows == /\ pc = "pull" /\ yielded < N
                   /\ pc' = "threw"
                   /\ UNCHANGED <<parallelizable, signer, yielded, txbuff, batch, held, txids, call,
                                  attempts, status>>

(* Mutant: the buffer is forgotten when the generator is done. *)
DrainForgets == /\ pc = "pull" /\ yielded = N
                /\ pc' = "done"
                /\ UNCHANGED <<parallelizable, signer, yielded, txbuff, batch, held, txids, call,
                               attempts, status>>

Drain == /\ pc = "pull" /\ yielded = N
         /\ \/ txbuff # <<>> /\ HandOver(txbuff) /\ txbuff' = <<>>
            \/ txbuff = <<>> /\ pc' = "done" /\ UNCHANGED <<batch, txbuff>>
         /\ UNCHANGED <<parallelizable, signer, yielded, held, txids, call, attempts, status>>
-----------------------------------------------------------------------------
(* signSend() *)

(* Whether the loop over the attempts runs at all; the others have no such loop. *)
Tries == signer # "SolanaSendSigner" \/ MaxResubmits > 0

(* Mutant: sendWait() starts with the first transaction, too. *)
StartsFirst(t) == t = batch[1]

(* SolanaPlatform.sendWait() starts with all transactions, the others with the first. *)
Starts(t) == IF signer = "SolanaSigner" THEN InBatch(t) ELSE t = batch[1]

Sign == /\ pc = "sign"
        /\ pc' = "send"
        /\ call' = [t \in Tx |-> IF ~ Tries THEN "skipped" ELSE IF Starts(t) THEN "send" ELSE "idle"]
        /\ attempts' = [t \in Tx |-> 0]
        /\ UNCHANGED <<parallelizable, signer, yielded, txbuff, batch, held, txids, status>>

SignFails == /\ pc = "sign"
             /\ pc' = "threw"
             /\ UNCHANGED <<parallelizable, signer, yielded, txbuff, batch, held, txids, call, attempts,
                            status>>

(* The next transaction of a loop that sends them one after the other. *)
NextOfBatch == /\ pc = "send" /\ signer # "SolanaSigner"
               /\ \E k \in 2 .. Len(batch) :
                     /\ call[batch[k - 1]] = "returned" /\ call[batch[k]] = "idle"
                     /\ call' = [call EXCEPT ![batch[k]] = "send"]
               /\ UNCHANGED <<parallelizable, signer, yielded, txbuff, batch, held, txids, pc, attempts,
                              status>>

(* Mutant: the last attempt is not the last. *)
ResubmitsOneMore(t, retryable) ==
    signer = "SolanaSendSigner" /\ retryable /\ attempts[t] # MaxResubmits

Resubmits(t, retryable) ==
    signer = "SolanaSendSigner" /\ retryable /\ attempts[t] # MaxResubmits - 1

(* Mutant: the attempts are not counted. *)
SameAttempt(i) == i

NextAttempt(i) == i + 1

Failing(t, retryable) ==
    \/ /\ Resubmits(t, retryable)
       /\ call' = [call EXCEPT ![t] = "send"]
       /\ attempts' = [attempts EXCEPT ![t] = NextAttempt(attempts[t])]
    \/ /\ ~ Resubmits(t, retryable)
       /\ call' = [call EXCEPT ![t] = "threw"]
       /\ UNCHANGED attempts

ClientOnly == UNCHANGED <<parallelizable, signer, yielded, txbuff, batch, held, txids, pc>>

(* A rejection in the preflight is retryable when the node has not seen a block hash or
   an account yet. *)
Rejected(t) == /\ call[t] = "send"
               /\ \E retryable \in BOOLEAN : Failing(t, retryable)
               /\ UNCHANGED status /\ ClientOnly

Accepted(t) == /\ call[t] = "send"
               /\ call' = [call EXCEPT ![t] = "confirm"]
               /\ status' = [status EXCEPT ![t] = "flight"]
               /\ UNCHANGED attempts /\ ClientOnly

(* Mutant: a receipt is a success, whatever it says. *)
ReceiptIsEnough(t) == FALSE

(* EvmPlatform.sendWait() throws at the first transaction that failed. *)
FailureSeen(t) == signer \in {"EvmNativeSigner", "CeloSigner"} /\ status[t] = "reverted"

(* Confirmed as executed, with or without an error. *)
Confirmed(t) == /\ call[t] = "confirm" /\ status[t] \in {"ok", "reverted"}
                /\ call' = [call EXCEPT ![t] = IF FailureSeen(t) THEN "threw" ELSE "returned"]
                /\ UNCHANGED <<attempts, status>> /\ ClientOnly

(* Who waits until the block hash of a transaction is too old. *)
SeesExpiry == signer \in {"SolanaSendSigner", "SolanaSigner"}

Expired(t) == /\ SeesExpiry
              /\ call[t] = "confirm" /\ status[t] = "expired"
              /\ Failing(t, TRUE)
              /\ UNCHANGED status /\ ClientOnly

(* Confirming, or sending once more, fails; the transaction may land all the same. *)
ConfirmFails(t) == /\ call[t] = "confirm"
                   /\ Failing(t, FALSE)
                   /\ UNCHANGED status /\ ClientOnly

(* Mutant: nobody waits with a timeout. *)
NoTimeout == FALSE

(* Who waits for a certain time: waitForTransaction(), or a client that gives up. *)
HasTimeout == signer \in {"CeloSigner", "SuiSigner"}

TimesOut(t) == HasTimeout /\ ConfirmFails(t)

AllReturned == \A k \in 1 .. Len(batch) : call[batch[k]] \in {"returned", "skipped"}

(* Mutant: a transaction that reverted is taken for a success. *)
NoneWatched == TRUE

(* The Solana signers look at all that were confirmed in the end.  Nobody looks whether the
   Sui transactions failed. *)
NoneReverted == signer \in {"SolanaSendSigner", "SolanaSigner"} =>
                    \A k \in 1 .. Len(batch) : status[batch[k]] # "reverted"

Signatures == IF Tries THEN batch ELSE <<>>

(* Mutant: the signatures of a batch are put before those there are. *)
CollectedFirst(sigs) == sigs \o txids

Collected(sigs) == txids \o sigs

SignSendReturns ==
    /\ pc = "send"
    /\ AllReturned /\ NoneReverted
    /\ txids' = Collected(Signatures)
    /\ \/ held # 0 /\ HandOver(<<held>>)
       \/ held = 0 /\ batch' = <<>> /\ pc' = "pull"
    /\ held' = 0
    /\ UNCHANGED <<parallelizable, signer, yielded, txbuff, call, attempts, status>>

(* The others of a sendWait() go on by themselves after the first throws. *)
SignSendThrows ==
    /\ pc = "send"
    /\ \/ \E k \in 1 .. Len(batch) : call[batch[k]] = "threw"
       \/ AllReturned /\ ~ NoneReverted
    /\ pc' = "threw"
    /\ UNCHANGED <<parallelizable, signer, yielded, txbuff, batch, held, txids, call, attempts, status>>

(* The final confirmation of signAndSend() fails. *)
FinalConfirmFails ==
    /\ pc = "send" /\ signer = "SolanaSendSigner" /\ Tries
    /\ AllReturned
    /\ pc' = "threw"
    /\ UNCHANGED <<parallelizable, signer, yielded, txbuff, batch, held, txids, call, attempts, status>>
-----------------------------------------------------------------------------
(* The chain.  A transaction whose prerequisites are not there reverts; others may too.
   One whose block hash is too old, or that the nodes have dropped, never executes. *)

Chain(t, s) == /\ status[t] = "flight"
               /\ status' = [status EXCEPT ![t] = s]
               /\ UNCHANGED <<call, attempts>> /\ ClientOnly

Executes(t) == (\A u \in Needs(t) : status[u] = "ok") /\ Chain(t, "ok")

Reverts(t) == Chain(t, "reverted")

Expires(t) == Chain(t, "expired")

Client(t) == Rejected(t) \/ Accepted(t) \/ Confirmed(t) \/ Expired(t) \/ ConfirmFails(t)

World(t) == Executes(t) \/ Reverts(t) \/ Expires(t)

Ssw == \/ Pull \/ GeneratorThrows \/ Drain \/ Sign \/ SignFails \/ NextOfBatch
       \/ SignSendReturns \/ SignSendThrows \/ FinalConfirmFails

Init == /\ signer \in Signers
        /\ parallelizable \in [Tx -> IF signer \in {"SolanaSendSigner", "SolanaSigner"}
                                     THEN BOOLEAN ELSE {FALSE}]
        /\ yielded = 0
        /\ txbuff = <<>>
        /\ batch = <<>>
        /\ held = 0
        /\ txids = <<>>
        /\ pc = "pull"
        /\ call = [t \in Tx |-> "idle"]
        /\ attempts = [t \in Tx |-> 0]
        /\ status = [t \in Tx |-> "new"]

Next == Ssw \/ \E t \in Tx : Client(t) \/ World(t)

Spec == Init /\ [][Next]_vars

(* A wait that may end does; that it may fail is no promise that it will. *)
Answered(t) == Rejected(t) \/ Accepted(t) \/ Confirmed(t) \/ Expired(t) \/ TimesOut(t)

(* A block hash gets too old; elsewhere a transaction may stay where it is for ever. *)
Outlived(t) == SeesExpiry /\ World(t)

Fairness == /\ WF_vars(Ssw)
            /\ \A t \in Tx : WF_vars(Answered(t)) /\ WF_vars(Outlived(t))

FairSpec == Spec /\ Fairness
-----------------------------------------------------------------------------
TypeOK == /\ parallelizable \in [Tx -> BOOLEAN] /\ signer \in Signers
          /\ yielded \in 0 .. N
          /\ txbuff \in Seq(Tx) /\ batch \in Seq(Tx) /\ txids \in Seq(Tx)
          /\ held \in 0 .. N
          /\ pc \in {"pull", "sign", "send", "done", "threw"}
          /\ call \in [Tx -> {"idle", "send", "confirm", "returned", "threw", "skipped"}]
          /\ attempts \in [Tx -> {0} \cup 0 .. (MaxResubmits - 1)]
          /\ status \in [Tx -> {"new", "flight", "ok", "reverted", "expired"}]

(* What a caller may take for executed: SuiSigner.signAndSend() and XrplSigner say so of a
   transaction that failed, too. *)
Passed(t) == status[t] = "ok" \/ (signer = "SuiSigner" /\ status[t] = "reverted")

(* No transaction is submitted before those it depends on are executed, and success means
   that all are: SignSendWait implements OrderedSubmission. *)
Order == INSTANCE OrderedSubmission
         WITH submitted <- {t \in Tx : status[t] # "new"},
              landed    <- {t \in Tx : Passed(t)},
              outcome   <- IF pc = "done" THEN "done" ELSE IF pc = "threw" THEN "threw" ELSE "pending"

ImplementsOrder == Order!Spec

(* The txids come in the order of the transactions, none missing: fetchAttestation() takes
   the last one for the transaction with the message (tokenTransfer.ts:261). *)
LastIsLast == pc = "done" => txids = [k \in Tx |-> k]

(* EvmPlatform.sendWait() waits for a receipt that does not come. *)
Hangs(t) == /\ signer = "EvmNativeSigner"
            /\ call[t] = "confirm" /\ status[t] \in {"flight", "expired"}

(* A submission ends, whatever the nodes and the chain do, unless it waits for an EVM
   transaction that is never mined: txRes.wait() has no timeout (platform.ts:193). *)
Settles == <>(pc \in {"done", "threw"}) \/ <>[](\E t \in Tx : Hangs(t))
=============================================================================
