-------------------------- MODULE AtomicOperation --------------------------
(***************************************************************************)
(* What the caller of an operation of a protocol client counts on, however *)
(* many transactions the operation takes: each run of it moves the tokens  *)
(* (or registers the asset) at most once, and one that returns has done    *)
(* so.  A run that throws may have moved them, or may do so later.         *)
(***************************************************************************)
CONSTANT Runs

VARIABLES began,    \* the runs that were started
          moved,    \* those that moved the tokens
          returned  \* those that returned to their caller

vars == <<began, moved, returned>>

Init == began = {} /\ moved = {} /\ returned = {}

Begin(r) == /\ r \notin began
            /\ began' = began \cup {r}
            /\ UNCHANGED <<moved, returned>>

Move(r) == /\ r \in began \ (moved \cup returned)
           /\ moved' = moved \cup {r}
           /\ UNCHANGED <<began, returned>>

Return(r) == /\ r \in moved \ returned
             /\ returned' = returned \cup {r}
             /\ UNCHANGED <<began, moved>>

Next == \E r \in Runs : Begin(r) \/ Move(r) \/ Return(r)

Spec == Init /\ [][Next]_vars
=============================================================================
