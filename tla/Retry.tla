------------------------------- MODULE Retry -------------------------------
(***************************************************************************)
(* retry() of connect/src/tasks.ts: the polling loop under every network   *)
(* lookup of the SDK (VAAs, transaction status, Circle attestations, IBC   *)
(* transfers, messages in a transaction).                                  *)
(*                                                                         *)
(* The task is called once at once.  If it answers null an interval timer  *)
(* is set, whose ASYNCHRONOUS callback calls the task again and counts the *)
(* retry when the call has answered, not when it starts.  The timer does   *)
(* not wait for the callback, so a task slower than the interval has       *)
(* several calls in flight, whose answers arrive in any order.             *)
(*                                                                         *)
(* Time is counted in intervals of the timer.  Latency bounds the duration *)
(* of one call of the task: a call begun by callback number c has answered *)
(* before callback number c + Latency + 1 runs (0: calls never overlap).   *)
(* The code sets no such bound: it is an assumption about the task.        *)
(***************************************************************************)
EXTENDS Naturals, FiniteSets

CONSTANTS Timeout,   \* argument `timeout`
          Interval,  \* argument `interval`, in the same unit
          Latency    \* longest duration of a call of the task, in intervals

ASSUME RetryAssumption == /\ Timeout \in Nat
                          /\ Interval \in Nat \ {0}
                          /\ Latency \in Nat

MaxRetries == Timeout \div Interval

(* Bound on the timer callbacks; Deadline shows that it is never what stops the timer. *)
MaxTicks == MaxRetries + Latency + 1

Calls == 0 .. MaxTicks      \* call 0 is the one before the timer, call c the one of callback c

VARIABLES call,     \* call[c]: "idle", "running", or what the call answered
          ticks,    \* callbacks of the timer so far
          retries,  \* the local variable `retries`
          timer,    \* "unset", "set" or "cleared"
          outcome   \* how the returned promise is settled

vars == <<call, ticks, retries, timer, outcome>>

Answers == {"null", "value", "error"}
Pending == [kind |-> "pending", by |-> 0]
GaveUp  == [kind |-> "null", by |-> 0]

Running == {c \in Calls : call[c] = "running"}

(* resolve() and reject(): only the first one counts. *)
Settle(o) == outcome' = IF outcome = Pending THEN o ELSE outcome

Init == /\ call = [c \in Calls |-> IF c = 0 THEN "running" ELSE "idle"]
        /\ ticks = 0
        /\ retries = 0
        /\ timer = "unset"
        /\ outcome = Pending

(* The first call answers: null sets the timer, an answer or a rejection settles. *)
FirstAnswers(a) ==
    /\ call[0] = "running"
    /\ call' = [call EXCEPT ![0] = a]
    /\ IF a = "null"
       THEN timer' = "set" /\ UNCHANGED outcome
       ELSE Settle([kind |-> a, by |-> 0]) /\ UNCHANGED timer
    /\ UNCHANGED <<ticks, retries>>

(* Mutants: attempts are counted when they start; one attempt too many. *)
ExhaustedByStarted == ticks >= MaxRetries
ExhaustedOneLate   == retries > MaxRetries

Exhausted == retries >= MaxRetries

(* One callback of the timer, up to its await. *)
Tick ==
    /\ timer = "set"
    /\ ticks < MaxTicks
    /\ \A c \in Running : ticks + 1 <= c + Latency
    /\ ticks' = ticks + 1
    /\ IF Exhausted
       THEN /\ timer' = "cleared"
            /\ Settle(GaveUp)
            /\ UNCHANGED call
       ELSE /\ call' = [call EXCEPT ![ticks + 1] = "running"]
            /\ UNCHANGED <<timer, outcome>>
    /\ UNCHANGED retries

(* Mutants: a null is not counted, or is counted before and after the await. *)
NullNotCounted(a)   == IF a = "value" THEN retries + 1 ELSE retries
NullCountedTwice(a) == IF a = "error" THEN retries ELSE retries + 2

(* `retries` after an answered callback: a rejection returns before the increment. *)
RetriesAfter(a) == IF a = "error" THEN retries ELSE retries + 1

(* Mutant: the timer survives a rejection. *)
OnlyValueClears(a) == IF a = "value" THEN "cleared" ELSE timer

TimerAfter(a) == IF a = "null" THEN timer ELSE "cleared"

(* The rest of callback c, when its call answers. *)
RetryAnswers(c, a) ==
    /\ c # 0
    /\ call[c] = "running"
    /\ call' = [call EXCEPT ![c] = a]
    /\ timer' = TimerAfter(a)
    /\ retries' = RetriesAfter(a)
    /\ IF a = "null" THEN UNCHANGED outcome ELSE Settle([kind |-> a, by |-> c])
    /\ UNCHANGED ticks

CallAnswers(c, a) == \/ c = 0 /\ FirstAnswers(a)
                     \/ RetryAnswers(c, a)

Next == Tick \/ \E c \in Calls, a \in Answers : CallAnswers(c, a)

(* The event loop runs a due timer, and a call whose answer is due resumes its callback. *)
Fairness == WF_vars(Tick) /\ \A c \in Calls : WF_vars(\E a \in Answers : CallAnswers(c, a))

Spec == Init /\ [][Next]_vars
FairSpec == Spec /\ Fairness
-----------------------------------------------------------------------------
TypeOK == /\ call \in [Calls -> {"idle", "running"} \cup Answers]
          /\ ticks \in 0 .. MaxTicks
          /\ retries \in 0 .. MaxTicks
          /\ timer \in {"unset", "set", "cleared"}
          /\ outcome \in [kind : {"pending"} \cup Answers, by : Calls]

(* The promise is settled no later than callback MaxRetries + Latency + 1: slow calls
   stretch the timeout of retry() by their latency, and by nothing more. *)
Deadline == outcome = Pending => ticks <= MaxRetries + Latency

(* Once the promise is settled the task is never called again: every path that settles
   it (answer, rejection, giving up) has stopped the timer. *)
NoCallAfterSettled ==
    [][outcome # Pending => \A c \in Calls : call[c] = "idle" => call'[c] = "idle"]_vars

(* The caller of retry() is not left waiting. *)
Settles == <>(outcome # Pending)

(* Retry implements its contract; a call that has not answered yet says nothing. *)
Contract == INSTANCE RetryContract
    WITH Quota <- MaxRetries,
         answer <- [c \in Calls |-> IF call[c] \in Answers THEN call[c] ELSE "none"]

ImplementsContract == Contract!Spec
=============================================================================
