----------------------------- MODULE MCCheckout ------------------------------
(***************************************************************************)
(* Small instances of Checkout.  Two requests share an idempotency key (a  *)
(* client retry) and one order has two lines, so that a partial            *)
(* reservation can fail; stock is too short for every order.               *)
(***************************************************************************)
EXTENDS CheckoutInvariant, TLC

CONSTANTS r1, r2, r3, k1, k2, p1, p2

Line(p, q) == [prod |-> p, qty |-> q]

\* r1 and its retry r2 on k1; r3 on k2 competes for p1 and p2.
RetryKeyOf  == (r1 :> k1) @@ (r2 :> k1) @@ (r3 :> k2)
RetryLines  == (r1 :> <<Line(p1, 1), Line(p2, 1)>>) @@ (r2 :> <<Line(p2, 1), Line(p1, 1)>>)
                 @@ (r3 :> <<Line(p1, 1)>>)

\* One order each on two keys.
PairKeyOf   == (r1 :> k1) @@ (r3 :> k2)
PairLines   == (r1 :> <<Line(p1, 1), Line(p2, 1)>>) @@ (r3 :> <<Line(p2, 1)>>)

\* One order of two lines of one product; the retry asks for more of it.
OneKeyOf    == (r1 :> k1) @@ (r2 :> k1)
OneLines    == (r1 :> <<Line(p1, 1), Line(p1, 1)>>) @@ (r2 :> <<Line(p1, 2), Line(p1, 1)>>)

ShortStock  == (p1 :> 1) @@ (p2 :> 1)
OneStock    == [p \in Products |-> 2]
==============================================================================
