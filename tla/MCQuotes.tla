------------------------------ MODULE MCQuotes -------------------------------
(* Instances of RouteQuotes for TLC. *)
EXTENDS RouteQuotes

(* Nothing, less than the bridge carries, less than the fee, just more than *)
(* it, with dust and without, and "007.", ".4" and "12.040".                *)
SomeTexts == {[whole |-> w, partial |-> p] :
                 w \in {<<>>, <<0, 0, 7>>, <<2, 1>>, <<1, 2>>},
                 p \in {<<>>, <<4>>, <<0, 4, 0>>, <<3, 9, 5>>, <<0, 0, 1>>}}
=============================================================================
