----------------------------- MODULE ChargeOnce ------------------------------
(***************************************************************************)
(* What payment-service promises its callers: a charge for an idempotency  *)
(* key is settled at most once, and every later call for that key gets the *)
(* answer the first one settled.                                           *)
(*                                                                         *)
(* Payment implements this specification for as long as no key's record    *)
(* expires; Checkout is written against it.                                *)
(***************************************************************************)
CONSTANT Keys          \* idempotency keys

VARIABLE result        \* what each key settled to

Outcomes == {"charged", "declined"}

Init == result = [k \in Keys |-> "none"]

\* The first call settles the key, any other replays what was settled.
Charge(k, o) == /\ result[k] \in {"none", o}
                /\ result' = [result EXCEPT ![k] = o]

Next == \E k \in Keys, o \in Outcomes : Charge(k, o)

Spec == Init /\ [][Next]_result
==============================================================================
