--------------------------- MODULE OrderLifecycle ----------------------------
(***************************************************************************)
(* What a client of order-service may rely on about one order, whatever    *)
(* threads, retries and background passes do: it is opened once per        *)
(* idempotency key, decided once, paid for only if the decision is PAID,   *)
(* and delivered only after that, once.  This is the state diagram of the  *)
(* status and delivered columns (models.py).                               *)
(***************************************************************************)
CONSTANT Keys          \* idempotency keys; an order is named by its key

VARIABLE phase

Phases == {"absent", "pending", "paid", "failed", "delivered"}

Init == phase = [k \in Keys |-> "absent"]

Become(k, from, to) == /\ phase[k] = from
                       /\ phase' = [phase EXCEPT ![k] = to]

Open(k)    == Become(k, "absent", "pending")
Pay(k)     == Become(k, "pending", "paid")
Fail(k)    == Become(k, "pending", "failed")
Deliver(k) == Become(k, "paid", "delivered")

Next == \E k \in Keys : Open(k) \/ Pay(k) \/ Fail(k) \/ Deliver(k)

Spec == Init /\ [][Next]_phase
==============================================================================
