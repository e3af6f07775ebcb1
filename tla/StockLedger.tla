----------------------------- MODULE StockLedger -----------------------------
(***************************************************************************)
(* What catalog-service promises its callers about stock: each reserve or  *)
(* release is one atomic step, a reserve that does not fit is refused and  *)
(* changes nothing, and a release is always accepted.  The ledger does not *)
(* remember who reserved what: orderId is echoed, never stored, so two     *)
(* releases for one reserve are two additions.                             *)
(*                                                                         *)
(* Catalog implements this specification; Checkout is written against it.  *)
(***************************************************************************)
EXTENDS Integers

CONSTANTS Products,    \* the rows of the products table
          InitStock,   \* stock of each product at the start
          Quantities   \* the quantities a call may name (Field(gt=0))

VARIABLE stock         \* products.stock

Init == stock = InitStock

Reserve(p, q) == /\ stock[p] >= q
                 /\ stock' = [stock EXCEPT ![p] = @ - q]

Refuse(p, q) == /\ stock[p] < q
                /\ UNCHANGED stock

Release(p, q) == stock' = [stock EXCEPT ![p] = @ + q]

Next == \E p \in Products, q \in Quantities : Reserve(p, q) \/ Refuse(p, q) \/ Release(p, q)

Spec == Init /\ [][Next]_stock
==============================================================================
