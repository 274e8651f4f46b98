----------------------------- MODULE RetryProofs -----------------------------
(***************************************************************************)
(* Theorems about Retry, for every timeout, interval and latency.          *)
(***************************************************************************)
EXTENDS Retry, FiniteSetTheorems, TLAPS

(* Answered retries are counted, and nothing else is: the calls behind `retries`. *)
Counted == {c \in Calls \ {0} : call[c] \in {"null", "value"}}

(* The timer runs exactly between a first null and the settling of the promise. *)
TimerInv == /\ timer = "set" => outcome = Pending /\ call[0] = "null"
            /\ outcome = Pending => timer # "cleared"
            /\ timer = "unset" => ticks = 0
            /\ timer = "unset" /\ outcome = Pending => call[0] = "running"
            /\ call[0] = "running" => timer = "unset" /\ outcome = Pending

(* Callbacks start one call each; as long as the promise is pending, none said anything. *)
CallInv == /\ \A c \in Calls : c > ticks => call[c] = "idle"
           /\ call[0] # "idle"
           /\ outcome = Pending =>
                \A c \in 0 .. ticks : call[c] \in {"running", "null"}

(* No call in flight is older than Latency intervals. *)
AgeInv == \A c \in Running : ticks <= c + Latency

CountInv == retries = Cardinality(Counted)

IInv == TypeOK /\ TimerInv /\ CallInv /\ AgeInv /\ CountInv /\ Deadline
-----------------------------------------------------------------------------
LEMMA MaxRetriesNat == MaxRetries \in Nat /\ MaxTicks \in Nat
  BY RetryAssumption, SMT DEF MaxRetries, MaxTicks

LEMMA CallsFinite == IsFiniteSet(Calls)
  BY MaxRetriesNat, FS_Interval DEF Calls

(* `retries` has reached the limit as soon as that many calls have answered null. *)
LEMMA AllNullIsExhausted ==
    ASSUME TypeOK, CountInv, \A c \in 1 .. MaxRetries : call[c] = "null"
    PROVE  Exhausted
<1>1. 1 .. MaxRetries \subseteq Counted
  BY MaxRetriesNat, RetryAssumption DEF Counted, Calls, MaxTicks
<1>2. IsFiniteSet(Counted)
  BY CallsFinite, FS_Subset DEF Counted
<1>3. Cardinality(1 .. MaxRetries) = MaxRetries
  BY FS_Interval, MaxRetriesNat
<1>4. Cardinality(1 .. MaxRetries) <= Cardinality(Counted)
  BY <1>1, <1>2, FS_Subset
<1> QED
  BY <1>3, <1>4 DEF CountInv, Exhausted

(* There are no more retries than callbacks. *)
LEMMA CountBound == Cardinality(Counted') \in 0 .. MaxTicks
<1>1. Counted' \subseteq 1 .. MaxTicks
  BY MaxRetriesNat DEF Counted, Calls
<1>2. IsFiniteSet(1 .. MaxTicks) /\ Cardinality(1 .. MaxTicks) = MaxTicks
  BY FS_Interval, MaxRetriesNat
<1>3. IsFiniteSet(Counted') /\ Cardinality(Counted') <= MaxTicks
  BY <1>1, <1>2, FS_Subset
<1> QED
  BY <1>3, FS_CardinalityType

(* What one answered retry adds to Counted. *)
LEMMA CountOne ==
    ASSUME TypeOK, CountInv, NEW c \in Calls, NEW a \in Answers, call[c] = "running",
           call' = [call EXCEPT ![c] = a], c # 0,
           retries' = RetriesAfter(a)
    PROVE  CountInv'
<1>1. IsFiniteSet(Counted)
  BY CallsFinite, FS_Subset DEF Counted
<1>2. c \notin Counted
  BY DEF Counted
<1>3. CASE a = "error"
  <2>1. Counted' = Counted
    BY <1>3 DEF Counted, TypeOK
  <2> QED
    BY <1>3, <2>1 DEF CountInv, RetriesAfter
<1>4. CASE a # "error"
  <2>1. Counted' = Counted \cup {c}
    BY <1>4 DEF Counted, TypeOK, Answers
  <2>2. Cardinality(Counted') = Cardinality(Counted) + 1
    BY <1>1, <1>2, <2>1, FS_AddElement
  <2> QED
    BY <1>4, <2>2 DEF CountInv, RetriesAfter
<1> QED
  BY <1>3, <1>4

LEMMA InitIInv == Init => IInv
<1> SUFFICES ASSUME Init PROVE IInv
  OBVIOUS
<1> USE MaxRetriesNat, RetryAssumption
<1>1. TypeOK
  BY DEF Init, TypeOK, Calls, Answers, Pending
<1>2. TimerInv /\ CallInv /\ AgeInv /\ Deadline
  BY DEF Init, TimerInv, CallInv, AgeInv, Deadline, Running, Calls, Pending
<1>3. CountInv
  <2>1. Counted = {}
    BY DEF Init, Counted
  <2> QED
    BY <2>1, FS_EmptySet DEF Init, CountInv
<1> QED
  BY <1>1, <1>2, <1>3 DEF IInv

LEMMA NextIInv == IInv /\ [Next]_vars => IInv'
<1> SUFFICES ASSUME IInv, [Next]_vars PROVE IInv'
  OBVIOUS
<1> USE MaxRetriesNat, RetryAssumption
<1>1. CASE UNCHANGED vars
  BY <1>1 DEF IInv, TypeOK, TimerInv, CallInv, AgeInv, CountInv, Counted, Deadline, Running, vars
<1>2. CASE Tick
  <2>1. ticks + 1 \in Calls
    BY <1>2 DEF Tick, IInv, TypeOK, Calls
  <2>2. TypeOK'
    BY <1>2, <2>1 DEF Tick, IInv, TypeOK, Settle, GaveUp, Pending, Answers, Calls
  <2>3. TimerInv'
    BY <1>2, <2>1 DEF Tick, IInv, TypeOK, TimerInv, Settle, GaveUp, Pending, Calls
  <2>4. CallInv'
    BY <1>2, <2>1 DEF Tick, IInv, TypeOK, TimerInv, CallInv, Settle, GaveUp, Pending, Calls
  <2>5. AgeInv'
    BY <1>2, <2>1 DEF Tick, IInv, TypeOK, CallInv, AgeInv, Running, Calls
  <2>6. CountInv'
    <3>1. call[ticks + 1] = "idle"
      BY <2>1 DEF IInv, TypeOK, CallInv
    <3>2. Counted' = Counted
      BY <1>2, <2>1, <3>1 DEF Tick, Counted, IInv, TypeOK
    <3> QED
      BY <1>2, <3>2 DEF Tick, CountInv, IInv
  <2>7. Deadline'
    <3> SUFFICES ASSUME ticks' = MaxTicks PROVE Exhausted
      BY <1>2, <2>2 DEF Tick, TypeOK, Deadline, Settle, GaveUp, Pending, MaxTicks, IInv, TimerInv
    <3>1. ASSUME NEW c \in 1 .. MaxRetries PROVE call[c] = "null"
      <4>1. c \in Calls /\ c \in 0 .. ticks
        BY <1>2 DEF Tick, Calls, MaxTicks, IInv, TypeOK
      <4>2. c \notin Running
        BY <1>2 DEF Tick, MaxTicks, IInv, TypeOK
      <4>3. outcome = Pending
        BY <1>2 DEF Tick, IInv, TimerInv
      <4> QED
        BY <4>1, <4>2, <4>3 DEF IInv, CallInv, Running
    <3> QED
      BY <3>1, AllNullIsExhausted DEF IInv
  <2> QED
    BY <2>2, <2>3, <2>4, <2>5, <2>6, <2>7 DEF IInv
<1>3. ASSUME NEW a \in Answers, FirstAnswers(a) PROVE IInv'
  <2>1. TypeOK'
    BY <1>3 DEF FirstAnswers, IInv, TypeOK, Settle, Answers, Pending, Calls
  <2>2. TimerInv'
    BY <1>3 DEF FirstAnswers, IInv, TypeOK, TimerInv, Settle, Answers, Pending, Calls
  <2>3. CallInv'
    BY <1>3 DEF FirstAnswers, IInv, TypeOK, TimerInv, CallInv, Settle, Answers, Pending, Calls
  <2>4. AgeInv' /\ Deadline'
    BY <1>3 DEF FirstAnswers, IInv, TypeOK, AgeInv, Running, Deadline, Settle, Answers, Pending, Calls
  <2>5. CountInv'
    <3>1. Counted' = Counted
      BY <1>3 DEF FirstAnswers, Counted, IInv, TypeOK
    <3> QED
      BY <1>3, <3>1 DEF FirstAnswers, CountInv, IInv
  <2> QED
    BY <2>1, <2>2, <2>3, <2>4, <2>5 DEF IInv
<1>4. ASSUME NEW c \in Calls, NEW a \in Answers, RetryAnswers(c, a) PROVE IInv'
  <2>5. CountInv'
    BY <1>4, CountOne DEF RetryAnswers, TimerAfter, IInv
  <2>1. TypeOK'
    <3>1. call' \in [Calls -> {"idle", "running"} \cup Answers]
      BY <1>4 DEF RetryAnswers, TimerAfter, IInv, TypeOK
    <3>2. retries' \in 0 .. MaxTicks
      BY <1>4, <2>5, CountBound DEF RetryAnswers, TimerAfter, IInv, TypeOK, CountInv
    <3> QED
      BY <1>4, <3>1, <3>2 DEF RetryAnswers, TimerAfter, IInv, TypeOK, Settle, Answers, Pending
  <2>2. TimerInv'
    BY <1>4 DEF RetryAnswers, TimerAfter, IInv, TypeOK, TimerInv, CallInv, Settle, Answers, Pending, Calls
  <2>3. CallInv'
    BY <1>4 DEF RetryAnswers, TimerAfter, IInv, TypeOK, CallInv, Settle, Answers, Pending, Calls
  <2>4. AgeInv' /\ Deadline'
    BY <1>4 DEF RetryAnswers, TimerAfter, IInv, TypeOK, AgeInv, Running, Deadline, Settle, Answers, Pending
  <2> QED
    BY <2>1, <2>2, <2>3, <2>4, <2>5 DEF IInv
<1> QED
  BY <1>1, <1>2, <1>3, <1>4 DEF Next, CallAnswers

THEOREM RetryInvariant == Spec => []IInv
  BY InitIInv, NextIInv, PTL DEF Spec

(* The variables of retry() keep their types, and the bound MaxTicks is never exceeded. *)
THEOREM RetryTypeOK == Spec => []TypeOK
<1>1. IInv => TypeOK
  BY DEF IInv
<1> QED
  BY <1>1, RetryInvariant, PTL

(* The promise of retry() is settled after at most MaxRetries + Latency + 1 callbacks. *)
THEOREM RetryDeadline == Spec => []Deadline
<1>1. IInv => Deadline
  BY DEF IInv
<1> QED
  BY <1>1, RetryInvariant, PTL

(* A settled retry() is quiet: the task is not called again. *)
THEOREM RetryQuiet == Spec => NoCallAfterSettled
<1> DEFINE Quiet == outcome # Pending => \A c \in Calls : call[c] = "idle" => call'[c] = "idle"
<1>1. IInv /\ [Next]_vars => [Quiet]_vars
  <2> SUFFICES ASSUME IInv, Next, outcome # Pending, NEW c \in Calls, call[c] = "idle"
               PROVE  call'[c] = "idle"
    BY DEF Quiet
  <2>1. ~ Tick
    BY DEF Tick, IInv, TimerInv
  <2>2. ASSUME NEW a \in Answers, FirstAnswers(a) PROVE call'[c] = "idle"
    BY <2>2 DEF FirstAnswers, IInv, TypeOK
  <2>3. ASSUME NEW d \in Calls, NEW a \in Answers, RetryAnswers(d, a) PROVE call'[c] = "idle"
    BY <2>3 DEF RetryAnswers, IInv, TypeOK
  <2> QED
    BY <2>1, <2>2, <2>3 DEF Next, CallAnswers
<1> QED
  BY <1>1, RetryInvariant, PTL DEF Spec, NoCallAfterSettled

(* retry() implements RetryContract: it settles with the first answer that is not null,
   or with null after more than MaxRetries null answers. *)
THEOREM RetryImplementsContract == Spec => ImplementsContract
<1> DEFINE said == [c \in Calls |-> IF call[c] \in Answers THEN call[c] ELSE "none"]
<1>1. Init => Contract!Init
  BY DEF Init, Contract!Init, Pending, Contract!Pending, Answers
<1>2. IInv /\ [Next]_vars => [Contract!Next]_(Contract!contractVars)
  <2> SUFFICES ASSUME IInv, [Next]_vars PROVE [Contract!Next]_(Contract!contractVars)
    OBVIOUS
  <2> USE DEF Contract!Pending, Pending, GaveUp, Contract!GaveUp, Answers, Contract!Answers
  <2>1. CASE UNCHANGED vars
    BY <2>1 DEF vars, Contract!contractVars
  <2>2. CASE Tick /\ ~ Exhausted
    <3>1. ticks + 1 \in Calls /\ call[ticks + 1] = "idle"
      BY <2>2, MaxRetriesNat DEF Tick, IInv, TypeOK, CallInv, Calls
    <3>2. said' = said
      BY <2>2, <3>1 DEF Tick, IInv, TypeOK
    <3> QED
      BY <2>2, <3>2 DEF Tick, Contract!contractVars
  <2>3. CASE Tick /\ Exhausted
    <3>1. IsFiniteSet(Counted)
      BY CallsFinite, FS_Subset DEF Counted
    <3>2. outcome = Pending /\ call[0] = "null"
      BY <2>3 DEF Tick, IInv, TimerInv
    <3>3. Contract!NullAnswers = Counted \cup {0}
      <4>1. \A c \in Calls : call[c] # "value"
        BY <3>2, MaxRetriesNat DEF IInv, TypeOK, CallInv, Calls
      <4> QED
        BY <4>1, <3>2, MaxRetriesNat DEF Contract!NullAnswers, Counted, Calls
    <3>4. Cardinality(Contract!NullAnswers) = retries + 1
      <4>1. 0 \notin Counted
        BY DEF Counted
      <4> QED
        BY <3>1, <3>3, <4>1, FS_AddElement DEF IInv, CountInv
    <3>5. Cardinality(Contract!NullAnswers) > MaxRetries
      BY <2>3, <3>4, MaxRetriesNat DEF Exhausted, IInv, TypeOK
    <3>6. Contract!Cardinality(Contract!NullAnswers) = Cardinality(Contract!NullAnswers)
      BY Zenon DEF Contract!Cardinality, Cardinality
    <3>7. Contract!GiveUp
      BY <2>3, <3>2, <3>5, <3>6 DEF Contract!GiveUp, Tick, Settle
    <3> QED
      BY <3>7 DEF Contract!Next
  <2>4. ASSUME NEW a \in Answers, FirstAnswers(a)
        PROVE  Contract!Answer(0, a)
    <3>1. 0 \in Calls
      BY MaxRetriesNat DEF Calls
    <3> QED
      BY <2>4, <3>1 DEF FirstAnswers, Contract!Answer, Settle, IInv, TypeOK
  <2>5. ASSUME NEW c \in Calls, NEW a \in Answers, RetryAnswers(c, a)
        PROVE  Contract!Answer(c, a)
    BY <2>5 DEF RetryAnswers, Contract!Answer, Settle, IInv, TypeOK
  <2>6. 0 \in Calls
    BY MaxRetriesNat DEF Calls
  <2> QED
    BY <2>1, <2>2, <2>3, <2>4, <2>5, <2>6 DEF Next, CallAnswers, Contract!Next
<1> QED
  BY <1>1, <1>2, RetryInvariant, PTL DEF Spec, ImplementsContract, Contract!Spec
=============================================================================
