------------------------------ MODULE MCCatalog -------------------------------
(***************************************************************************)
(* Small instances of Catalog: two reserves of p1 that do not fit          *)
(* together, one of which waits for a release, a reader of p1 and one of   *)
(* the list, and a call that names a product that is not there.            *)
(***************************************************************************)
EXTENDS Catalog, TLC

CONSTANTS w1, w2, w3, g1, l1, m1, p1, p2, none

AllOpOf == (w1 :> "reserve") @@ (w2 :> "reserve") @@ (w3 :> "release")
           @@ (g1 :> "get") @@ (l1 :> "list") @@ (m1 :> "release")
AllProductOf == (w1 :> p1) @@ (w2 :> p1) @@ (w3 :> p1)
                @@ (g1 :> p1) @@ (l1 :> none) @@ (m1 :> none)
AllQtyOf == (w1 :> 3) @@ (w2 :> 1) @@ (w3 :> 1) @@ (g1 :> 1) @@ (l1 :> 1) @@ (m1 :> 1)
Only(f)   == [c \in Calls |-> f[c]]
SomeOpOf      == Only(AllOpOf)
SomeProductOf == Only(AllProductOf)
SomeQtyOf     == Only(AllQtyOf)
TwoStock  == (p1 :> 2) @@ (p2 :> 1)
==============================================================================
