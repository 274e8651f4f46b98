-------------------------- MODULE SubmissionProofs --------------------------
(***************************************************************************)
(* Theorems about SignSendWait, for any number of transactions, any plan   *)
(* of parallelizable ones and any number of resubmissions.                 *)
(***************************************************************************)
EXTENDS SignSendWait, TLAPS

(* The signers of an instance try to send at least once. *)
Trying == "SolanaSendSigner" \notin Signers \/ MaxResubmits > 0

LEMMA TryingTries == Trying /\ TypeOK => Tries
  BY DEF Trying, TypeOK, Tries

(* A signer that does not try anything leaves the calls alone. *)
TriesInv == ~ Tries => \A t \in Tx : call[t] \in {"idle", "skipped"}

LEMMA FailingTyped ==
    ASSUME TypeOK, Tries, NEW t \in Tx, NEW r \in BOOLEAN, Failing(t, r)
    PROVE  /\ call' \in [Tx -> {"idle", "send", "confirm", "returned", "threw", "skipped"}]
           /\ attempts' \in [Tx -> {0} \cup 0 .. (MaxResubmits - 1)]
<1> USE SubmissionAssumption DEF TypeOK
<1>1. CASE ~ Resubmits(t, r)
  BY <1>1 DEF Failing
<1>2. CASE Resubmits(t, r)
  <2>1. MaxResubmits > 0 /\ attempts[t] \in 0 .. (MaxResubmits - 1) /\ attempts[t] # MaxResubmits - 1
    BY <1>2 DEF Resubmits, Tries
  <2>2. NextAttempt(attempts[t]) \in 0 .. (MaxResubmits - 1)
    BY <2>1 DEF NextAttempt
  <2>3. /\ call' = [call EXCEPT ![t] = "send"]
        /\ attempts' = [attempts EXCEPT ![t] = NextAttempt(attempts[t])]
    BY <1>2 DEF Failing
  <2> QED
    BY <2>2, <2>3
<1> QED
  BY <1>1, <1>2

LEMMA ClientTyped ==
    ASSUME TypeOK, TriesInv, NEW t \in Tx, Client(t) \/ World(t)
    PROVE  TypeOK' /\ TriesInv'
<1>1. UNCHANGED <<parallelizable, signer, yielded, txbuff, batch, held, txids, pc>>
  BY DEF Client, World, Rejected, Accepted, Confirmed, Expired, ConfirmFails, Executes, Reverts,
         Expires, Chain, ClientOnly
<1>2. CASE Client(t)
  <2>1. call[t] \in {"send", "confirm"} /\ Tries
    BY <1>2 DEF TriesInv, Client, Rejected, Accepted, Confirmed, Expired, ConfirmFails
  <2>2. TriesInv'
    BY <1>1, <2>1 DEF TriesInv, Tries
  <2>3. CASE Rejected(t) \/ Expired(t) \/ ConfirmFails(t)
    <3>1. PICK r \in BOOLEAN : Failing(t, r)
      BY <2>3 DEF Rejected, Expired, ConfirmFails
    <3>2. UNCHANGED status
      BY <2>3 DEF Rejected, Expired, ConfirmFails
    <3> QED
      BY <1>1, <2>1, <2>2, <3>1, <3>2, FailingTyped DEF TypeOK
  <2>4. CASE Accepted(t) \/ Confirmed(t)
    BY <1>1, <2>2, <2>4 DEF Accepted, Confirmed, FailureSeen, TypeOK
  <2> QED
    BY <1>2, <2>3, <2>4 DEF Client
<1>3. CASE World(t)
  <2>1. PICK s \in {"ok", "reverted", "expired"} : Chain(t, s)
    BY <1>3 DEF World, Executes, Reverts, Expires
  <2> QED
    BY <1>1, <2>1 DEF Chain, TypeOK, TriesInv, Tries
<1> QED
  BY <1>2, <1>3

LEMMA SswTyped ==
    ASSUME TypeOK, TriesInv, Ssw
    PROVE  TypeOK' /\ TriesInv'
<1> USE SubmissionAssumption DEF TypeOK, TriesInv, Tries
<1>1. CASE Pull
  <2>1. yielded + 1 \in Tx /\ yielded' = yielded + 1
    BY <1>1 DEF Pull, Tx
  <2>2. CASE /\ txbuff' = Append(txbuff, yielded + 1)
             /\ UNCHANGED <<batch, held, pc>>
    BY <1>1, <2>1, <2>2 DEF Pull, Tx
  <2>3. CASE FlushBefore(yielded + 1)
    <3>1. <<yielded + 1>> \in Seq(Tx) /\ <<>> \in Seq(Tx)
      BY <2>1
    <3>2. batch' \in Seq(Tx) /\ txbuff' \in Seq(Tx)
      BY <2>3, <3>1 DEF FlushBefore, HandOver
    <3>3. held' \in 0 .. N /\ pc' = "sign" /\ yielded' \in 0 .. N
      BY SMTT(30), <2>1, <2>3 DEF FlushBefore, HandOver, Tx
    <3>4. UNCHANGED <<parallelizable, signer, txids, call, attempts, status>>
      BY <1>1 DEF Pull
    <3> QED
      BY <3>2, <3>3, <3>4
  <2> QED
    BY <1>1, <2>2, <2>3 DEF Pull
<1>2. CASE GeneratorThrows
  BY <1>2 DEF GeneratorThrows
<1>3. CASE Drain
  <2>1. <<>> \in Seq(Tx)
    OBVIOUS
  <2>2. batch' \in Seq(Tx) /\ txbuff' \in Seq(Tx) /\ pc' \in {"sign", "done"}
    BY <1>3, <2>1 DEF Drain, HandOver
  <2>3. UNCHANGED <<parallelizable, signer, yielded, held, txids, call, attempts, status>>
    BY <1>3 DEF Drain
  <2> QED
    BY <2>2, <2>3
<1>4. CASE Sign
  <2>1. call' \in [Tx -> {"idle", "send", "skipped"}]
    BY <1>4 DEF Sign
  <2>2. ~ Tries => call' \in [Tx -> {"skipped"}]
    BY <1>4 DEF Sign
  <2>3. attempts' \in [Tx -> {0}]
    BY <1>4 DEF Sign
  <2>4. /\ pc' = "send"
        /\ UNCHANGED <<parallelizable, signer, yielded, txbuff, batch, held, txids, status>>
    BY <1>4 DEF Sign
  <2> QED
    BY <2>1, <2>2, <2>3, <2>4 DEF Tries
<1>5. CASE SignFails
  BY <1>5 DEF SignFails
<1>6. CASE NextOfBatch
  <2>1. PICK k \in 2 .. Len(batch) :
            /\ call[batch[k - 1]] = "returned"
            /\ call' = [call EXCEPT ![batch[k]] = "send"]
    BY <1>6 DEF NextOfBatch
  <2>2. batch[k - 1] \in Tx
    OBVIOUS
  <2>3. Tries
    BY <2>1, <2>2
  <2> QED
    BY <1>6, <2>1, <2>3 DEF NextOfBatch, Tries
<1>7. CASE SignSendReturns
  <2>1. txids' \in Seq(Tx)
    BY <1>7 DEF SignSendReturns, Collected, Signatures
  <2>2. held # 0 => held \in Tx
    BY DEF Tx
  <2>3. held # 0 => <<held>> \in Seq(Tx)
    BY <2>2
  <2>4. <<>> \in Seq(Tx)
    OBVIOUS
  <2>5. batch' \in Seq(Tx)
    BY <1>7, <2>3, <2>4 DEF SignSendReturns, HandOver
  <2> QED
    BY <1>7, <2>1, <2>5 DEF SignSendReturns, HandOver
<1>8. CASE SignSendThrows
  BY <1>8 DEF SignSendThrows
<1>9. CASE FinalConfirmFails
  BY <1>9 DEF FinalConfirmFails
<1> QED
  BY <1>1, <1>2, <1>3, <1>4, <1>5, <1>6, <1>7, <1>8, <1>9 DEF Ssw

LEMMA InitTyped == Init => TypeOK /\ TriesInv
<1> SUFFICES ASSUME Init PROVE TypeOK /\ TriesInv
  OBVIOUS
<1>1. parallelizable \in [Tx -> BOOLEAN]
  BY DEF Init
<1> QED
  BY <1>1, SubmissionAssumption DEF Init, TypeOK, TriesInv

LEMMA NextTyped == TypeOK /\ TriesInv /\ [Next]_vars => TypeOK' /\ TriesInv'
<1> SUFFICES ASSUME TypeOK, TriesInv, [Next]_vars PROVE TypeOK' /\ TriesInv'
  OBVIOUS
<1>1. CASE UNCHANGED vars
  BY <1>1 DEF vars, TypeOK, TriesInv, Tries
<1> QED
  BY <1>1, ClientTyped, SswTyped DEF Next

(* Every sequence holds transactions, no attempt is made past the last one. *)
THEOREM SubmissionTypeOK == Spec => []TypeOK
  BY InitTyped, NextTyped, PTL DEF Spec
-----------------------------------------------------------------------------
(* The transactions, in the order of the generator, are first those collected, then those
   of the batch, then the one held back or those in the buffer, then the rest. *)

Gathered == Len(txids)

USE DEF Passed

PrefixInv == /\ Gathered <= yielded
             /\ \A k \in 1 .. Gathered : txids[k] = k /\ Passed(k)

PullInv == pc = "pull" =>
             /\ held = 0
             /\ yielded = Gathered + Len(txbuff)
             /\ \A k \in 1 .. Len(txbuff) :
                   txbuff[k] = Gathered + k /\ parallelizable[Gathered + k]

BatchInv == pc \in {"sign", "send"} =>
             /\ txbuff = <<>> /\ batch # <<>>
             /\ yielded = Gathered + Len(batch) + (IF held = 0 THEN 0 ELSE 1)
             /\ held # 0 => held = yielded
             /\ \A k \in 1 .. Len(batch) : batch[k] = Gathered + k
             /\ Len(batch) = 1 \/ \A k \in 1 .. Len(batch) : parallelizable[Gathered + k]

DoneInv == pc = "done" => Gathered = N

(* What is not handed over, or whose turn has not come, is new. *)
FreshInv == \A t \in Tx :
              t > Gathered /\ (pc \in {"pull", "sign"} \/ (pc = "send" /\ call[t] = "idle"))
                => status[t] = "new"

(* The client's side of a transaction fits the chain's, and is idle outside the batch. *)
CallInv == \A t \in Tx :
             /\ call[t] = "send" => status[t] \in {"new", "expired"}
             /\ call[t] = "confirm" => status[t] # "new"
             /\ call[t] = "returned" => status[t] \in {"ok", "reverted"}
             /\ call[t] = "returned" /\ signer \in {"EvmNativeSigner", "CeloSigner"} => status[t] = "ok"
             /\ call[t] # "skipped"
             /\ pc \in {"pull", "sign", "done"} => call[t] \notin {"send", "confirm"}
             /\ pc = "send" /\ call[t] # "idle" => t \in Gathered + 1 .. Gathered + Len(batch)

Ready(t) == \A u \in Needs(t) : Passed(u)

ReadyInv == \A t \in Tx : status[t] # "new" \/ call[t] = "send" => Ready(t)

Structure == PrefixInv /\ PullInv /\ BatchInv /\ DoneInv

IInv == TypeOK /\ TriesInv /\ Structure /\ FreshInv /\ CallInv /\ ReadyInv

LEMMA InitOrder == Trying /\ Init => IInv
<1> SUFFICES ASSUME Trying, Init PROVE IInv
  OBVIOUS
<1>1. TypeOK /\ TriesInv
  BY InitTyped
<1> QED
  BY <1>1, SubmissionAssumption
     DEF Init, IInv, Structure, PrefixInv, PullInv, BatchInv, DoneInv, FreshInv, CallInv, ReadyInv,
         Gathered

(* A batch is one transaction, or all its transactions are parallelizable: either way what
   its transactions need has been collected before. *)
LEMMA BatchReady ==
    ASSUME IInv, pc \in {"sign", "send"}, NEW k \in 1 .. Len(batch)
    PROVE  batch[k] \in Tx /\ Ready(batch[k])
<1> USE DEF IInv, Structure, TypeOK
<1>1. batch[k] = Gathered + k /\ batch[k] \in Tx /\ Gathered \in Nat /\ Len(batch) \in Nat
  BY DEF BatchInv, Gathered
<1> SUFFICES ASSUME NEW u \in Needs(batch[k]) PROVE Passed(u)
  BY <1>1 DEF Ready
<1>2. u \in Nat /\ u >= 1 /\ u < Gathered + k
  BY <1>1 DEF Needs
<1>3. CASE u <= Gathered
  BY <1>2, <1>3 DEF PrefixInv
<1>4. CASE u > Gathered
  <2>1. Len(batch) # 1
    BY <1>1, <1>2, <1>4
  <2>2. \A j \in 1 .. Len(batch) : parallelizable[Gathered + j]
    BY <2>1 DEF BatchInv
  <2>3. PICK x \in u .. (Gathered + k) : ~ parallelizable[x]
    BY <1>1 DEF Needs
  <2>4. x - Gathered \in 1 .. Len(batch) /\ Gathered + (x - Gathered) = x
    BY <1>1, <1>2, <1>4, <2>3
  <2> QED
    BY <2>2, <2>3, <2>4
<1> QED
  BY <1>1, <1>2, <1>3, <1>4

Frame == UNCHANGED <<parallelizable, signer, yielded, txbuff, batch, held, txids, pc>>

(* An executed transaction stays executed. *)
OkStays == \A t \in Tx : Passed(t) => Passed(t)'

LEMMA StructureStays ==
    ASSUME IInv, Frame, OkStays
    PROVE  Structure'
<1>1. \A k \in 1 .. Gathered : k \in Tx
  BY SubmissionAssumption DEF IInv, Structure, TypeOK, PrefixInv, Gathered, Tx
<1> QED
  BY <1>1 DEF IInv, Structure, PrefixInv, PullInv, BatchInv, DoneInv, Gathered, Frame, OkStays

LEMMA ReadyStays ==
    ASSUME TypeOK, UNCHANGED parallelizable, OkStays, NEW t \in Tx, Ready(t)
    PROVE  Ready(t)'
<1>1. \A u \in Needs(t) : u \in Tx
  BY SubmissionAssumption DEF Needs, Tx
<1>2. UNCHANGED Needs(t)
  BY DEF Needs
<1> QED
  BY <1>1, <1>2 DEF Ready, OkStays

(* The steps of one transaction. *)
LEMMA TxKeepsOrder ==
    ASSUME IInv, NEW t \in Tx, Client(t) \/ World(t)
    PROVE  Structure' /\ FreshInv' /\ CallInv' /\ ReadyInv'
<1>1. Frame
  BY DEF Client, World, Rejected, Accepted, Confirmed, Expired, ConfirmFails, Executes, Reverts,
         Expires, Chain, ClientOnly, Frame
<1>2. TypeOK /\ CallInv /\ FreshInv /\ ReadyInv
  BY DEF IInv
<1>3. ASSUME NEW c \in {"send", "confirm", "returned", "threw"}, call[t] \in {"send", "confirm"},
             call' = [call EXCEPT ![t] = c],
             NEW s \in {"new", "flight", "ok", "reverted", "expired"},
             status' = [status EXCEPT ![t] = s],
             s = "new" => status[t] = "new",
             status[t] \in {"ok", "reverted"} => s = status[t],
             c = "send" => s \in {"new", "expired"},
             c = "confirm" => s # "new",
             c = "returned" => s \in {"ok", "reverted"},
             c = "returned" /\ signer \in {"EvmNativeSigner", "CeloSigner"} => s = "ok",
             status[t] # "new" \/ call[t] = "send"
      PROVE  Structure' /\ FreshInv' /\ CallInv' /\ ReadyInv'
  <2>1. OkStays
    BY <1>1, <1>2, <1>3 DEF Frame, OkStays, TypeOK
  <2>2. Structure'
    BY <1>1, <2>1, StructureStays
  <2>3. FreshInv'
    BY <1>1, <1>2, <1>3 DEF FreshInv, CallInv, TypeOK, Frame, Gathered
  <2>4. CallInv'
    BY <1>1, <1>2, <1>3 DEF CallInv, TypeOK, Frame, Gathered
  <2>5. Ready(t)
    BY <1>2, <1>3 DEF ReadyInv
  <2>6. ReadyInv'
    <3> SUFFICES ASSUME NEW v \in Tx, status'[v] # "new" \/ call'[v] = "send" PROVE Ready(v)'
      BY DEF ReadyInv
    <3>1. Ready(v)
      BY <1>2, <1>3, <2>5 DEF ReadyInv, TypeOK
    <3> QED
      BY <1>1, <1>2, <2>1, <3>1, ReadyStays DEF Frame
  <2> QED
    BY <2>2, <2>3, <2>4, <2>6
<1>4. status = [status EXCEPT ![t] = status[t]] /\ call = [call EXCEPT ![t] = call[t]]
  BY <1>2 DEF TypeOK
<1>5. status[t] \in {"new", "flight", "ok", "reverted", "expired"}
  BY <1>2 DEF TypeOK
<1>6. CASE Rejected(t) \/ Expired(t) \/ ConfirmFails(t)
  <2>1. UNCHANGED status /\ call[t] \in {"send", "confirm"}
    BY <1>6 DEF Rejected, Expired, ConfirmFails
  <2>2. \/ call' = [call EXCEPT ![t] = "threw"]
        \/ /\ call' = [call EXCEPT ![t] = "send"]
           /\ call[t] = "send" \/ status[t] = "expired"
    BY <1>6 DEF Rejected, Expired, ConfirmFails, Failing, Resubmits
  <2> QED
    BY <1>2, <1>3, <1>4, <1>5, <2>1, <2>2 DEF CallInv
<1>7. CASE Accepted(t)
  BY <1>2, <1>3, <1>7 DEF Accepted, CallInv
<1>8. CASE Confirmed(t)
  <2>1. /\ call[t] = "confirm" /\ status[t] \in {"ok", "reverted"} /\ UNCHANGED status
        /\ \/ call' = [call EXCEPT ![t] = "threw"]
           \/ /\ call' = [call EXCEPT ![t] = "returned"]
              /\ signer \in {"EvmNativeSigner", "CeloSigner"} => status[t] = "ok"
    BY <1>8 DEF Confirmed, FailureSeen
  <2> QED
    BY <1>2, <1>3, <1>4, <1>5, <2>1
<1>9. CASE World(t)
  <2>1. PICK s \in {"ok", "reverted", "expired"} : Chain(t, s)
    BY <1>9 DEF World, Executes, Reverts, Expires
  <2>2. status[t] = "flight" /\ status' = [status EXCEPT ![t] = s] /\ UNCHANGED call
    BY <2>1 DEF Chain
  <2>3. OkStays
    BY <1>1, <1>2, <2>2 DEF Frame, OkStays, TypeOK
  <2>4. Structure'
    BY <1>1, <2>3, StructureStays
  <2>5. FreshInv' /\ CallInv'
    BY <1>1, <1>2, <2>2 DEF FreshInv, CallInv, TypeOK, Frame, Gathered
  <2>6. ReadyInv'
    <3> SUFFICES ASSUME NEW v \in Tx, status'[v] # "new" \/ call'[v] = "send" PROVE Ready(v)'
      BY DEF ReadyInv
    <3>1. Ready(v)
      BY <1>2, <2>2 DEF ReadyInv, TypeOK
    <3> QED
      BY <1>1, <1>2, <2>3, <3>1, ReadyStays DEF Frame
  <2> QED
    BY <2>4, <2>5, <2>6
<1> QED
  BY <1>6, <1>7, <1>8, <1>9 DEF Client

(* The steps of ssw() and of the loop over a batch. *)
LEMMA SswKeepsOrder ==
    ASSUME IInv, Tries, Ssw
    PROVE  Structure' /\ FreshInv' /\ CallInv' /\ ReadyInv'
<1>0. /\ TypeOK /\ PrefixInv /\ PullInv /\ BatchInv /\ DoneInv /\ FreshInv /\ CallInv /\ ReadyInv
      /\ Gathered \in Nat /\ Len(batch) \in Nat /\ Len(txbuff) \in Nat
      /\ yielded \in Nat /\ N \in Nat
  BY SubmissionAssumption DEF IInv, Structure, TypeOK, Gathered
<1> USE <1>0 DEF TypeOK, Structure
<1>1. ASSUME UNCHANGED <<parallelizable, signer, status, call>> PROVE ReadyInv'
  BY <1>1 DEF ReadyInv, Ready, Needs
<1>2. CASE Pull
  <2>1. /\ yielded' = yielded + 1 /\ yielded + 1 \in Tx /\ held = 0
        /\ pc = "pull" /\ yielded = Gathered + Len(txbuff)
        /\ UNCHANGED <<parallelizable, signer, txids, call, attempts, status>>
    BY <1>2 DEF Pull, PullInv, Tx
  <2>2. PrefixInv' /\ ReadyInv' /\ UNCHANGED Gathered
    BY <1>1, <2>1 DEF PrefixInv, Gathered
  <2>3. CASE /\ parallelizable[yielded + 1]
             /\ txbuff' = Append(txbuff, yielded + 1)
             /\ UNCHANGED <<batch, held, pc>>
    <3>1. /\ Len(txbuff') = Len(txbuff) + 1
          /\ txbuff'[Len(txbuff) + 1] = yielded + 1
          /\ \A k \in 1 .. Len(txbuff) : txbuff'[k] = txbuff[k]
      BY <2>1, <2>3
    <3>2. ASSUME NEW k \in 1 .. Len(txbuff')
          PROVE  txbuff'[k] = Gathered + k /\ parallelizable[Gathered + k]
      <4>1. CASE k = Len(txbuff) + 1
        BY <2>1, <2>3, <3>1, <4>1
      <4>2. CASE k \in 1 .. Len(txbuff)
        BY <2>1, <3>1, <4>2 DEF PullInv
      <4> QED
        BY <3>1, <3>2, <4>1, <4>2
    <3>4. PullInv'
      BY <2>1, <2>2, <2>3, <3>1, <3>2 DEF PullInv
    <3>3. BatchInv' /\ DoneInv' /\ FreshInv' /\ CallInv'
      BY <2>1, <2>2, <2>3 DEF BatchInv, DoneInv, FreshInv, CallInv
    <3> QED
      BY <2>2, <3>4, <3>3
  <2>4. CASE FlushBefore(yielded + 1)
    <3>1. PullInv' /\ DoneInv' /\ FreshInv' /\ CallInv'
      BY <2>1, <2>2, <2>4 DEF FlushBefore, HandOver, PullInv, DoneInv, FreshInv, CallInv
    <3>2. CASE txbuff # <<>>
      <4>1. batch' = txbuff /\ held' = yielded + 1 /\ txbuff' = <<>>
        BY <2>4, <3>2 DEF FlushBefore, HandOver
      <4>2. \A k \in 1 .. Len(txbuff) :
                txbuff[k] = Gathered + k /\ parallelizable[Gathered + k]
        BY <2>1 DEF PullInv
      <4>3. yielded' = Gathered + Len(txbuff) + 1 /\ held' # 0
        BY <2>1, <4>1
      <4>4. BatchInv'
        BY <2>1, <2>2, <3>2, <4>1, <4>2, <4>3 DEF BatchInv
      <4> QED
        BY <2>2, <3>1, <4>4
    <3>3. CASE txbuff = <<>>
      <4>1. batch' = <<yielded + 1>> /\ held' = 0 /\ txbuff' = <<>>
        BY <2>1, <2>4, <3>3 DEF FlushBefore, HandOver
      <4>2. Len(batch') = 1 /\ batch'[1] = Gathered + 1 /\ yielded' = Gathered + 1
        BY <2>1, <3>3, <4>1
      <4>3. BatchInv'
        BY <2>2, <4>1, <4>2 DEF BatchInv
      <4> QED
        BY <2>2, <3>1, <4>3
    <3> QED
      BY <3>2, <3>3
  <2> QED
    BY <1>2, <2>3, <2>4 DEF Pull
<1>3. CASE GeneratorThrows \/ SignFails \/ SignSendThrows \/ FinalConfirmFails
  <2>1. /\ pc' = "threw"
        /\ UNCHANGED <<parallelizable, signer, yielded, txbuff, batch, held, txids, call, status>>
    BY <1>3 DEF GeneratorThrows, SignFails, SignSendThrows, FinalConfirmFails
  <2> QED
    BY <1>1, <2>1 DEF PrefixInv, PullInv, BatchInv, DoneInv, FreshInv, CallInv, Gathered
<1>4. CASE Drain
  <2>1. /\ pc = "pull" /\ yielded = N /\ held = 0 /\ N = Gathered + Len(txbuff)
        /\ UNCHANGED <<parallelizable, signer, yielded, held, txids, call, attempts, status>>
    BY <1>4 DEF Drain, PullInv
  <2>2. PrefixInv' /\ ReadyInv' /\ UNCHANGED Gathered
    BY <1>1, <2>1 DEF PrefixInv, Gathered
  <2>3. CASE txbuff # <<>> /\ batch' = txbuff /\ pc' = "sign" /\ txbuff' = <<>>
    <3>1. BatchInv'
      BY <2>1, <2>2, <2>3 DEF BatchInv, PullInv
    <3> QED
      BY <2>1, <2>2, <2>3, <3>1 DEF PullInv, DoneInv, FreshInv, CallInv
  <2>4. CASE txbuff = <<>> /\ pc' = "done" /\ UNCHANGED <<batch, txbuff>>
    BY <2>1, <2>2, <2>4 DEF PullInv, BatchInv, DoneInv, FreshInv, CallInv
  <2> QED
    BY <1>4, <2>3, <2>4 DEF Drain, HandOver
<1>5. CASE Sign
  <2>1. /\ pc = "sign" /\ pc' = "send"
        /\ \A t \in Tx : call'[t] = IF Starts(t) THEN "send" ELSE "idle"
        /\ UNCHANGED <<parallelizable, signer, yielded, txbuff, batch, held, txids, status>>
    BY <1>5 DEF Sign
  <2>2. Structure' /\ UNCHANGED Gathered
    BY <2>1 DEF PrefixInv, PullInv, BatchInv, DoneInv, Gathered
  <2>3. Len(batch) >= 1
    <3>1. batch # <<>> /\ batch \in Seq(Tx)
      BY <2>1 DEF BatchInv
    <3> QED
      BY <3>1
  <2>4. ASSUME NEW t \in Tx, Starts(t)
        PROVE  \E k \in 1 .. Len(batch) : t = batch[k]
    BY <2>3, <2>4 DEF Starts, InBatch
  <2>5. ASSUME NEW t \in Tx, Starts(t)
        PROVE  t \in Gathered + 1 .. Gathered + Len(batch) /\ status[t] = "new" /\ Ready(t)
    <3>1. PICK k \in 1 .. Len(batch) : t = batch[k]
      BY <2>4, <2>5
    <3>2. t = Gathered + k /\ Ready(t)
      BY <2>1, <3>1, BatchReady DEF BatchInv
    <3> QED
      BY <2>1, <3>2 DEF FreshInv
  <2>6. FreshInv'
    BY <2>1, <2>2 DEF FreshInv
  <2>7. CallInv'
    BY <2>1, <2>2, <2>5 DEF CallInv
  <2>8. ReadyInv'
    <3> SUFFICES ASSUME NEW t \in Tx, status[t] # "new" \/ Starts(t) PROVE Ready(t)'
      BY <2>1 DEF ReadyInv
    <3>1. Ready(t)
      BY <2>5 DEF ReadyInv
    <3> QED
      BY <2>1, <3>1 DEF Ready, Needs
  <2> QED
    BY <2>2, <2>6, <2>7, <2>8
<1>6. CASE NextOfBatch
  <2>1. PICK k \in 2 .. Len(batch) :
            /\ call[batch[k]] = "idle"
            /\ call' = [call EXCEPT ![batch[k]] = "send"]
    BY <1>6 DEF NextOfBatch
  <2>2. /\ pc = "send"
        /\ UNCHANGED <<parallelizable, signer, yielded, txbuff, batch, held, txids, pc, attempts, status>>
    BY <1>6 DEF NextOfBatch
  <2>3. batch[k] \in Tx /\ Ready(batch[k]) /\ batch[k] = Gathered + k
    BY <2>1, <2>2, BatchReady DEF BatchInv
  <2>4. status[batch[k]] = "new"
    BY <2>1, <2>2, <2>3 DEF FreshInv
  <2>5. Structure' /\ UNCHANGED Gathered
    BY <2>2 DEF PrefixInv, PullInv, BatchInv, DoneInv, Gathered
  <2>6. FreshInv'
    BY <2>1, <2>2, <2>3, <2>4, <2>5 DEF FreshInv
  <2>7. CallInv'
    BY <2>1, <2>2, <2>3, <2>4, <2>5 DEF CallInv
  <2>8. ReadyInv'
    <3> SUFFICES ASSUME NEW t \in Tx, status[t] # "new" \/ call'[t] = "send" PROVE Ready(t)'
      BY <2>2 DEF ReadyInv
    <3>1. Ready(t)
      BY <2>1, <2>3 DEF ReadyInv
    <3> QED
      BY <2>2, <3>1 DEF Ready, Needs
  <2> QED
    BY <2>5, <2>6, <2>7, <2>8
<1>7. CASE SignSendReturns
  <2>1. /\ pc = "send" /\ AllReturned /\ NoneReverted /\ txids' = txids \o batch /\ held' = 0
        /\ UNCHANGED <<parallelizable, signer, yielded, txbuff, call, attempts, status>>
    BY <1>7 DEF SignSendReturns, Collected, Signatures
  <2>2. /\ txbuff = <<>>
        /\ yielded = Gathered + Len(batch) + (IF held = 0 THEN 0 ELSE 1)
        /\ held # 0 => held = yielded
        /\ \A k \in 1 .. Len(batch) : batch[k] = Gathered + k /\ batch[k] \in Tx
    BY <2>1 DEF BatchInv
  <2>3. \A k \in 1 .. Len(batch) : Passed(Gathered + k) /\ call[Gathered + k] = "returned"
    <3> SUFFICES ASSUME NEW k \in 1..Len(batch)
                 PROVE  Passed(Gathered + k) /\ call[Gathered + k] = "returned"
      OBVIOUS
    <3>1. Gathered + k \in Tx /\ batch[k] = Gathered + k
      BY <2>2
    <3>2. call[Gathered + k] = "returned"
      BY <2>1, <3>1 DEF AllReturned, CallInv
    <3>3. status[Gathered + k] = "ok"
          \/ /\ status[Gathered + k] = "reverted"
             /\ signer \notin {"EvmNativeSigner", "CeloSigner"}
      BY <3>1, <3>2 DEF CallInv
    <3>4. signer \in {"SolanaSendSigner", "SolanaSigner"} => status[Gathered + k] # "reverted"
      BY <2>1, <3>1 DEF NoneReverted
    <3>5. signer \in {"SolanaSendSigner", "SolanaSigner", "EvmNativeSigner", "CeloSigner",
                        "SuiSigner"}
      BY SubmissionAssumption
    <3> QED
      BY <3>2, <3>3, <3>4, <3>5 DEF Passed
  <2>4. /\ Len(txids') = Gathered + Len(batch)
        /\ \A k \in 1 .. Gathered : txids'[k] = txids[k]
        /\ \A k \in 1 .. Len(batch) : txids'[Gathered + k] = batch[k]
    BY <2>1 DEF Gathered
  <2>5. \A k \in 1 .. Len(txids') : txids'[k] = k /\ Passed(k)
    <3> SUFFICES ASSUME NEW k \in 1 .. Len(txids'), k > Gathered
                 PROVE  txids'[k] = k /\ Passed(k)
      BY <2>4 DEF PrefixInv
    <3>1. k - Gathered \in 1 .. Len(batch) /\ Gathered + (k - Gathered) = k
      BY <2>4
    <3> QED
      BY ZenonT(40), <2>2, <2>3, <2>4, <3>1
  <2>6. PrefixInv' /\ ReadyInv'
    BY <1>1, <2>1, <2>2, <2>4, <2>5 DEF PrefixInv, Gathered
  <2>7. \A t \in Tx : call[t] \notin {"send", "confirm"}
    <3> SUFFICES ASSUME NEW t \in Tx, call[t] # "idle" PROVE call[t] = "returned"
      OBVIOUS
    <3>1. t \in Gathered + 1 .. Gathered + Len(batch)
      BY <2>1 DEF CallInv
    <3>2. t - Gathered \in 1 .. Len(batch) /\ Gathered + (t - Gathered) = t
      BY <3>1
    <3> QED
      BY <2>3, <3>2
  <2>8. \A t \in Tx : t > Gathered + Len(batch) => status[t] = "new"
    <3> SUFFICES ASSUME NEW t \in Tx, t > Gathered + Len(batch) PROVE status[t] = "new"
      OBVIOUS
    <3>1. call[t] = "idle" /\ t > Gathered
      BY <2>1 DEF CallInv, Tx
    <3> QED
      BY <2>1, <3>1 DEF FreshInv
  <2>9. CASE held # 0 /\ batch' = <<held>> /\ pc' = "sign"
    <3>1. Len(batch') = 1 /\ batch'[1] = Len(txids') + 1 /\ yielded = Len(txids') + 1
      BY <2>2, <2>4, <2>9
    <3>2. BatchInv'
      BY <2>1, <2>2, <2>9, <3>1 DEF BatchInv, Gathered
    <3>3. PullInv' /\ DoneInv' /\ FreshInv' /\ CallInv'
      BY <2>1, <2>4, <2>7, <2>8, <2>9 DEF PullInv, DoneInv, FreshInv, CallInv, Gathered
    <3> QED
      BY <2>6, <3>2, <3>3
  <2>10. CASE held = 0 /\ batch' = <<>> /\ pc' = "pull"
    <3>1. PullInv' /\ DoneInv' /\ BatchInv'
      BY <2>1, <2>2, <2>4, <2>10 DEF PullInv, DoneInv, BatchInv, Gathered
    <3>2. FreshInv' /\ CallInv'
      BY <2>1, <2>4, <2>7, <2>8, <2>10 DEF FreshInv, CallInv, Gathered
    <3> QED
      BY <2>6, <3>1, <3>2
  <2> QED
    BY <1>7, <2>9, <2>10 DEF SignSendReturns, HandOver
<1> QED
  BY <1>2, <1>3, <1>4, <1>5, <1>6, <1>7 DEF Ssw

LEMMA NextOrder == Trying /\ IInv /\ [Next]_vars => IInv'
<1> SUFFICES ASSUME Trying, IInv, [Next]_vars PROVE IInv'
  OBVIOUS
<1>1. TypeOK' /\ TriesInv'
  BY NextTyped DEF IInv
<1>2. CASE UNCHANGED vars
  BY <1>1, <1>2 DEF vars, IInv, Structure, PrefixInv, PullInv, BatchInv, DoneInv, FreshInv,
                    CallInv, ReadyInv, Ready, Needs, Gathered
<1> QED
  BY <1>1, <1>2, TryingTries, TxKeepsOrder, SswKeepsOrder DEF Next, IInv
-----------------------------------------------------------------------------
(* Refinement. *)

Submitted == {t \in Tx : status[t] # "new"}
Executed  == {t \in Tx : Passed(t)}

LEMMA InitRefines == Init => Order!Init
  BY DEF Init, Order!Init, Order!Tx, Tx

LEMMA TxRefines ==
    ASSUME IInv, NEW t \in Tx, Client(t) \/ World(t)
    PROVE  [Order!Next]_(Order!orderVars)
<1> DEFINE outcome == IF pc = "done" THEN "done" ELSE IF pc = "threw" THEN "threw" ELSE "pending"
<1>1. UNCHANGED <<parallelizable, signer, pc, outcome>>
  BY DEF Client, World, Rejected, Accepted, Confirmed, Expired, ConfirmFails, Executes, Reverts,
         Expires, Chain, ClientOnly
<1>2. TypeOK
  BY DEF IInv
<1>3. CASE UNCHANGED status
  BY <1>1, <1>3 DEF Order!orderVars
<1>4. CASE Accepted(t)
  <2>1. Ready(t) /\ status[t] \notin {"ok", "reverted"} /\ pc # "done"
    BY <1>4 DEF Accepted, IInv, ReadyInv, CallInv
  <2>2. Submitted' = Submitted \cup {t} /\ UNCHANGED Executed
    BY <1>1, <1>2, <1>4, <2>1 DEF Accepted, Submitted, Executed, TypeOK
  <2>3. \A u \in Needs(t) : u \in Tx
    BY SubmissionAssumption DEF Needs, Tx
  <2>4. Order!Needs(t) \subseteq Executed
    BY <2>1, <2>3 DEF Order!Needs, Needs, Ready, Executed
  <2>5. Order!Submit(t)
    BY <1>1, <2>1, <2>2, <2>4 DEF Order!Submit, Submitted, Executed
  <2> QED
    BY <2>5 DEF Order!Next, Order!Tx, Tx
<1>5. CASE World(t)
  <2>1. PICK s \in {"ok", "reverted", "expired"} : Chain(t, s)
    BY <1>5 DEF World, Executes, Reverts, Expires
  <2>2. status[t] = "flight" /\ status' = [status EXCEPT ![t] = s]
    BY <2>1 DEF Chain
  <2>3. UNCHANGED Submitted /\ t \in Submitted
    BY <1>2, <2>2 DEF Submitted, TypeOK
  <2>4. CASE s = "ok" \/ (s = "reverted" /\ signer = "SuiSigner")
    <3>1. Executed' = Executed \cup {t}
      BY <1>1, <1>2, <2>2, <2>4 DEF Executed, TypeOK
    <3>2. Order!Land(t)
      BY <1>1, <2>3, <3>1 DEF Order!Land, Submitted, Executed
    <3> QED
      BY <3>2 DEF Order!Next, Order!Tx, Tx
  <2>5. CASE ~ (s = "ok" \/ (s = "reverted" /\ signer = "SuiSigner"))
    <3>1. UNCHANGED Executed
      BY <1>1, <1>2, <2>2, <2>5 DEF Executed, TypeOK
    <3> QED
      BY <1>1, <2>3, <3>1 DEF Order!orderVars, Submitted, Executed
  <2> QED
    BY <2>4, <2>5
<1> QED
  BY <1>3, <1>4, <1>5 DEF Client, Rejected, Confirmed, Expired, ConfirmFails

LEMMA SswRefines ==
    ASSUME IInv, Ssw
    PROVE  [Order!Next]_(Order!orderVars)
<1>1. UNCHANGED <<parallelizable, signer, status>>
  BY DEF Ssw, Pull, GeneratorThrows, Drain, Sign, SignFails, NextOfBatch, SignSendReturns,
         SignSendThrows, FinalConfirmFails
<1>2. \/ pc' \in {"pull", "sign", "send"} /\ pc \in {"pull", "sign", "send"}
      \/ pc' = "threw" /\ pc \in {"pull", "sign", "send"}
      \/ pc' = "done" /\ Drain
  BY DEF Ssw, Pull, FlushBefore, HandOver, GeneratorThrows, Drain, Sign, SignFails, NextOfBatch,
         SignSendReturns, SignSendThrows, FinalConfirmFails
<1>3. CASE pc' \in {"pull", "sign", "send"} /\ pc \in {"pull", "sign", "send"}
  BY <1>1, <1>3 DEF Order!orderVars
<1>4. CASE pc' = "threw" /\ pc \in {"pull", "sign", "send"}
  <2>1. Order!Fail
    BY <1>1, <1>4 DEF Order!Fail
  <2> QED
    BY <2>1 DEF Order!Next
<1>5. CASE pc' = "done" /\ Drain
  <2>1. /\ pc = "pull" /\ yielded = N /\ Gathered + Len(txbuff) = yielded /\ txbuff = <<>>
    BY <1>5 DEF Drain, HandOver, IInv, Structure, PullInv
  <2>2. Gathered = N
    BY <2>1 DEF Gathered, IInv, TypeOK
  <2>3. Executed = Tx
    BY <2>2 DEF Executed, Tx, IInv, Structure, PrefixInv
  <2>4. Order!Finish
    BY <1>1, <1>5, <2>1, <2>3 DEF Order!Finish, Order!Tx, Tx, Executed
  <2> QED
    BY <2>4 DEF Order!Next
<1> QED
  BY <1>2, <1>3, <1>4, <1>5

(* Whatever the nodes, the chain and the generator do, a signer that tries at all submits
   a transaction only when what it depends on is executed, and succeeds only with all. *)
THEOREM SubmissionImplementsOrder == Trying /\ Spec => ImplementsOrder
<1> SUFFICES ASSUME Trying PROVE Spec => ImplementsOrder
  OBVIOUS
<1>1. Init => IInv /\ Order!Init
  BY InitOrder, InitRefines
<1>2. IInv /\ [Next]_vars => IInv'
  BY NextOrder
<1>3. IInv /\ [Next]_vars => [Order!Next]_(Order!orderVars)
  <2>1. UNCHANGED vars => UNCHANGED Order!orderVars
    BY DEF vars, Order!orderVars
  <2> QED
    BY <2>1, TxRefines, SswRefines DEF Next
<1> QED
  BY <1>1, <1>2, <1>3, PTL DEF Spec, ImplementsOrder, Order!Spec

(* The txids of a call that succeeds are those of all transactions, in their order, so the
   last one is that of the transaction with the message. *)
THEOREM SubmissionLastIsLast == Trying /\ Spec => []LastIsLast
<1> SUFFICES ASSUME Trying PROVE Spec => []LastIsLast
  OBVIOUS
<1>1. Init => IInv
  BY InitOrder
<1>2. IInv /\ [Next]_vars => IInv'
  BY NextOrder
<1>3. IInv => LastIsLast
  BY DEF IInv, Structure, PrefixInv, DoneInv, Gathered, TypeOK, LastIsLast, Tx
<1> QED
  BY <1>1, <1>2, <1>3, PTL DEF Spec
=============================================================================
