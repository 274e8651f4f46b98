------------------------- MODULE OrderedSubmission -------------------------
(***************************************************************************)
(* What handing a list of transactions to signSendWait() promises: "If     *)
(* order matters, [parallelizable] will be false to ensure ordered         *)
(* execution" (core/definitions/src/unsignedTransaction.ts).  The first    *)
(* submission of a transaction finds everything it depends on executed,    *)
(* and success means that everything is.  A failure promises nothing: what *)
(* was under way may still be submitted, or land, later.                   *)
(***************************************************************************)
EXTENDS Integers

CONSTANT N   \* how many transactions the generator yields

VARIABLES parallelizable,  \* the flag of each transaction
          submitted,       \* the transactions a node has accepted
          landed,          \* the transactions executed with success
          outcome          \* of the call

orderVars == <<parallelizable, submitted, landed, outcome>>

Tx == 1 .. N

(* The order matters between two transactions unless they, and all between them, are
   parallelizable. *)
Needs(t) == {u \in 1 .. (t - 1) : \E x \in u .. t : ~ parallelizable[x]}

Init == /\ parallelizable \in [Tx -> BOOLEAN]
        /\ submitted = {}
        /\ landed = {}
        /\ outcome = "pending"

Submit(t) == /\ outcome # "done"
             /\ Needs(t) \subseteq landed
             /\ submitted' = submitted \cup {t}
             /\ UNCHANGED <<parallelizable, landed, outcome>>

Land(t) == /\ t \in submitted
           /\ landed' = landed \cup {t}
           /\ UNCHANGED <<parallelizable, submitted, outcome>>

Finish == /\ outcome = "pending"
          /\ landed = Tx
          /\ outcome' = "done"
          /\ UNCHANGED <<parallelizable, submitted, landed>>

Fail == /\ outcome = "pending"
        /\ outcome' = "threw"
        /\ UNCHANGED <<parallelizable, submitted, landed>>

Next == (\E t \in Tx : Submit(t) \/ Land(t)) \/ Finish \/ Fail

Spec == Init /\ [][Next]_orderVars
=============================================================================
