------------------------------- MODULE MCEvents -------------------------------
(***************************************************************************)
(* A small instance of Events: partition k1 holds a malformed message and  *)
(* the delivery of an order of two products, k2 an event that delivers     *)
(* nothing and the delivery of an order of the first product again.  Two   *)
(* calls review that product.                                              *)
(***************************************************************************)
EXTENDS Events, TLC

CONSTANTS k1, k2, x1, x2

SomeSize      == (k1 :> 2) @@ (k2 :> 2)
SomeDelivers  == [m \in Messages |-> IF m = <<k1, 2>> THEN {x1, x2}
                                     ELSE IF m = <<k2, 2>> THEN {x1} ELSE {}]
SomeMalformed == {<<k1, 1>>}
SomeIdOf      == [c \in Calls |-> x1]
==============================================================================
