---------------------------- MODULE RetryContract ----------------------------
(***************************************************************************)
(* What a caller of retry() may rely on (connect/src/tasks.ts).  The       *)
(* promise is settled at most once.  It carries the first answer of the    *)
(* task that is not null, or it carries null, and then the task had said   *)
(* null more than Quota times (the first call and Quota retries) and had   *)
(* not yet said anything else.                                             *)
(*                                                                         *)
(* There is no timer here, and no order in which calls are started: calls  *)
(* answer in any order, and the ones that answer late change nothing.      *)
(***************************************************************************)
EXTENDS Naturals, FiniteSets

CONSTANTS Calls,   \* identities of the calls of the task
          Quota    \* number of retries that must have failed before giving up

VARIABLES answer,  \* answer[c]: what call c has answered, or "none"
          outcome  \* how the promise is settled

contractVars == <<answer, outcome>>

Answers == {"null", "value", "error"}

Pending == [kind |-> "pending", by |-> 0]
GaveUp  == [kind |-> "null", by |-> 0]

NullAnswers == {c \in Calls : answer[c] = "null"}

Init == /\ answer = [c \in Calls |-> "none"]
        /\ outcome = Pending

(* A null answer asks for another attempt; any other answer settles the promise, once. *)
Answer(c, a) ==
    /\ answer[c] = "none"
    /\ answer' = [answer EXCEPT ![c] = a]
    /\ outcome' = IF a # "null" /\ outcome = Pending
                  THEN [kind |-> a, by |-> c]
                  ELSE outcome

GiveUp ==
    /\ outcome = Pending
    /\ Cardinality(NullAnswers) > Quota
    /\ outcome' = GaveUp
    /\ UNCHANGED answer

Next == GiveUp \/ \E c \in Calls, a \in Answers : Answer(c, a)

Spec == Init /\ [][Next]_contractVars

=============================================================================
