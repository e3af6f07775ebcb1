------------------------------ MODULE MCPayment -------------------------------
(***************************************************************************)
(* Small instances of Payment: three charges and one GET of one key race,  *)
(* and a fifth call uses a key of its own.                                 *)
(***************************************************************************)
EXTENDS Payment, TLC

CONSTANTS c1, c2, c3, c4, c5, k1, k2

AllKeyOf == (c1 :> k1) @@ (c2 :> k1) @@ (c3 :> k1) @@ (c4 :> k1) @@ (c5 :> k2)

Sameness == Permutations({c1, c2, c3})
==============================================================================
