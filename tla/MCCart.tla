------------------------------- MODULE MCCart ---------------------------------
(***************************************************************************)
(* A small instance of Cart: two adds of p1 that do not fit together, the   *)
(* removal of p1, and the batch removal after an order of p1 and p2.       *)
(***************************************************************************)
EXTENDS Cart, TLC

CONSTANTS a1, a2, d1, b1, p1, p2

AllOpOf    == (a1 :> "add") @@ (a2 :> "add") @@ (d1 :> "remove") @@ (b1 :> "batch")
AllItemsOf == (a1 :> {p1}) @@ (a2 :> {p1}) @@ (d1 :> {p1}) @@ (b1 :> {p1, p2})
SomeOpOf    == [c \in Calls |-> AllOpOf[c]]
SomeItemsOf == [c \in Calls |-> AllItemsOf[c]]
SomeQtyOf   == [c \in Calls |-> IF c = a2 THEN 2 ELSE 1]
==============================================================================
