-------------------------- MODULE CheckoutLifecycle --------------------------
(***************************************************************************)
(* Checkout implements OrderLifecycle: whatever requests, retries, passes, *)
(* late calls and crashes do, an order is opened once, decided once, and   *)
(* delivered once if it was paid.  From that follows what the topic may    *)
(* say of an order and when its items may leave the cart.                  *)
(***************************************************************************)
EXTENDS CheckoutProofs

\* The changes a row may go through.
RowMove(a, b) ==
  \/ a.status = "NONE" /\ b.status = "PENDING" /\ ~b.delivered
  \/ a.status = "PENDING" /\ b.status \in {"PENDING", "PAID", "FAILED"} /\ b.delivered = a.delivered
  \/ a.status = "PAID" /\ b.status = "PAID" /\ b.delivered
OneMove(k) == /\ RowMove(orders[k], orders'[k])
              /\ orders'[k] \in Row
              /\ orders' = [orders EXCEPT ![k] = orders'[k]]

\* Only a PAID order is delivered.
DeliveredPaid == \A k \in Keys : orders[k].delivered => orders[k].status = "PAID"

LInv == IInv /\ DeliveredPaid

LEMMA RowsType == ASSUME IInv PROVE orders \in [Keys -> Row]
  BY DEF IInv, Ownership, TypeOK, OrdersOK

\* Updating one row is a move of that row if the new row is one.
LEMMA UpdateMoves ==
  ASSUME IInv, NEW k \in Keys, NEW row \in Row, orders' = [orders EXCEPT ![k] = row],
         RowMove(orders[k], row)
  PROVE  OneMove(k)
<1>1. orders'[k] = row BY RowsType
<1> QED BY <1>1 DEF OneMove

-----------------------------------------------------------------------------
(* The actions that write the orders table *)

LEMMA InsertMoves ==
  ASSUME IInv, NEW r \in Requests, Insert(r)
  PROVE  UNCHANGED orders \/ OneMove(KeyOf[r])
<1>1. CASE KeyTaken(KeyOf[r]) BY <1>1 DEF Insert
<1>2. CASE ~KeyTaken(KeyOf[r])
  <2>1. /\ orders[KeyOf[r]].status = "NONE" /\ KeyOf[r] \in Keys
        /\ orders' = [orders EXCEPT ![KeyOf[r]] = Pending(r)]
    BY <1>2, Constants DEF Insert, KeyTaken
  <2>2. Pending(r) \in Row /\ Pending(r).status = "PENDING" /\ ~Pending(r).delivered
    BY DEF Pending, NoRow, Row, Statuses, Reasons
  <2> HIDE DEF Pending
  <2>3. RowMove(orders[KeyOf[r]], Pending(r)) BY <2>1, <2>2 DEF RowMove
  <2> QED BY <2>1, <2>2, <2>3, UpdateMoves
<1> QED BY <1>1, <1>2

\* The three commits of a saga write an order that is PENDING.
LEMMA SagaCommitMoves ==
  ASSUME IInv, NEW r \in Requests, SetStockReserved(r) \/ CommitFailed(r) \/ CommitPaid(r)
  PROVE  UNCHANGED orders \/ OneMove(KeyOf[r])
<1> DEFINE k == KeyOf[r]
<1>1. k \in Keys /\ orders[k] \in Row /\ req[r] \in RequestState
  BY Constants, RowsType DEF IInv, Ownership, TypeOK, ReqOK
<1>2. orders[k].status = "PENDING"
  BY DEF IInv, Progress, SagaPending, SagaPcs, SetStockReserved, CommitFailed, CommitPaid, At
<1>3. CASE UNCHANGED orders BY <1>3
<1>4. CASE orders' = [orders EXCEPT ![k].flag = TRUE]
  <2> DEFINE row == [orders[k] EXCEPT !.flag = TRUE]
  <2>1. row \in Row /\ row.status = "PENDING" /\ row.delivered = orders[k].delivered
    BY <1>1, <1>2 DEF Row
  <2>2. orders' = [orders EXCEPT ![k] = row] BY <1>4
  <2> HIDE DEF row
  <2>3. RowMove(orders[k], row) BY <1>2, <2>1 DEF RowMove
  <2> QED BY <1>1, <2>1, <2>2, <2>3, UpdateMoves
<1>5. CASE orders' = [orders EXCEPT ![k] = [@ EXCEPT !.status = "FAILED", !.reason = req[r].why]]
  <2> DEFINE row == [orders[k] EXCEPT !.status = "FAILED", !.reason = req[r].why]
  <2>1. row \in Row /\ row.status = "FAILED" /\ row.delivered = orders[k].delivered
    BY <1>1 DEF Row, RequestState, Statuses
  <2>2. orders' = [orders EXCEPT ![k] = row] BY <1>5
  <2> HIDE DEF row
  <2>3. RowMove(orders[k], row) BY <1>2, <2>1 DEF RowMove
  <2> QED BY <1>1, <2>1, <2>2, <2>3, UpdateMoves
<1>6. CASE orders' = [orders EXCEPT ![k].status = "PAID"]
  <2> DEFINE row == [orders[k] EXCEPT !.status = "PAID"]
  <2>1. row \in Row /\ row.status = "PAID" /\ row.delivered = orders[k].delivered
    BY <1>1 DEF Row, Statuses
  <2>2. orders' = [orders EXCEPT ![k] = row] BY <1>6
  <2> HIDE DEF row
  <2>3. RowMove(orders[k], row) BY <1>2, <2>1 DEF RowMove
  <2> QED BY <1>1, <2>1, <2>2, <2>3, UpdateMoves
<1> QED BY <1>3, <1>4, <1>5, <1>6 DEF SetStockReserved, CommitFailed, CommitPaid

\* The passes write orders that still have the status they selected.
LEMMA PassCommitMoves ==
  ASSUME IInv, ReconcileCommit \/ DeliverCommit
  PROVE  UNCHANGED orders \/ \E k \in Keys : OneMove(k)
<1> DEFINE k == loop.cur
<1>1. k \in Keys /\ orders[k] \in Row
  BY RowsType DEF IInv, Ownership, LoopOnOrders, TypeOK, LoopOK, LoopState, ReconcileCommit, DeliverCommit
<1>2. CASE UNCHANGED orders BY <1>2
<1>3. CASE ReconcileCommit /\ ~UNCHANGED orders
  <2> DEFINE row == [orders[k] EXCEPT !.status = "FAILED", !.reason = "RECONCILIATION_TIMEOUT"]
  <2>1. row \in Row /\ row.status = "FAILED" /\ row.delivered = orders[k].delivered
    BY <1>1 DEF Row, Statuses, Reasons
  <2>2. orders' = [orders EXCEPT ![k] = row] BY <1>3 DEF ReconcileCommit
  <2>3. orders[k].status = "PENDING" BY <1>3 DEF IInv, Progress, LoopAlone, ReconcileCommit
  <2> HIDE DEF row
  <2>4. RowMove(orders[k], row) BY <2>1, <2>3 DEF RowMove
  <2>5. OneMove(k) BY <1>1, <2>1, <2>2, <2>4, UpdateMoves
  <2> QED BY <1>1, <2>5
<1>4. CASE DeliverCommit /\ ~UNCHANGED orders
  <2> DEFINE row == [orders[k] EXCEPT !.delivered = TRUE]
  <2>1. row \in Row /\ row.status = orders[k].status /\ row.delivered
    BY <1>1 DEF Row
  <2>2. orders' = [orders EXCEPT ![k] = row] BY <1>4 DEF DeliverCommit
  <2>3. orders[k].status = "PAID" BY <1>4 DEF IInv, Progress, LoopAlone, DeliverCommit
  <2> HIDE DEF row
  <2>4. RowMove(orders[k], row) BY <2>1, <2>3 DEF RowMove
  <2>5. OneMove(k) BY <1>1, <2>1, <2>2, <2>4, UpdateMoves
  <2> QED BY <1>1, <2>5
<1> QED BY <1>2, <1>3, <1>4

LEMMA StepMoves ==
  ASSUME IInv, [Next]_vars
  PROVE  UNCHANGED orders \/ \E k \in Keys : OneMove(k)
<1>1. ASSUME NEW r \in Requests, Lookup(r) \/ Work(r) \/ Abort(r)
      PROVE  UNCHANGED orders \/ \E k \in Keys : OneMove(k)
  <2>1. KeyOf[r] \in Keys BY Constants
  <2>2. CASE Insert(r) BY <2>1, <2>2, InsertMoves
  <2>3. CASE SetStockReserved(r) \/ CommitFailed(r) \/ CommitPaid(r) BY <2>1, <2>3, SagaCommitMoves
  <2>4. \/ Insert(r) \/ SetStockReserved(r) \/ CommitFailed(r) \/ CommitPaid(r) \/ UNCHANGED orders
    BY <1>1 DEF Work, Lookup, Abort, Reject, AnnounceCreated, ReserveLine, ReserveRefused,
       ReserveLost, Reload, Charge, ChargeLost, ReleaseLine, AnnounceOutcome, ClearCart
  <2> QED BY <2>2, <2>3, <2>4
<1>2. CASE Reconcile \/ Delivery \/ AbortPass
  <2>1. ReconcileCommit \/ DeliverCommit \/ UNCHANGED orders
    BY <1>2 DEF Reconcile, Delivery, AbortPass, StartReconciliation, ReconcileRelease,
       ReconcileAnnounce, ReconcileClear, StartDelivery, AnnounceDelivered
  <2> QED BY <2>1, PassCommitMoves
<1>3. ASSUME NEW c \in late, ExecuteLate(c) \/ DropLate(c) PROVE UNCHANGED orders
  BY <1>3 DEF ExecuteLate, DropLate
<1>4. ASSUME NEW k \in Keys, NEW e \in unsent[k], FlushUnsent(k, e) \/ ExpireUnsent(k, e)
      PROVE  UNCHANGED orders
  BY <1>4 DEF FlushUnsent, ExpireUnsent
<1>5. CASE Crash BY <1>5 DEF Crash
<1>6. CASE UNCHANGED vars BY <1>6 DEF vars
<1> QED BY <1>1, <1>2, <1>3, <1>4, <1>5, <1>6 DEF Next

-----------------------------------------------------------------------------
(* The refinement *)

LEMMA DeliveredPaidStep == ASSUME LInv, [Next]_vars PROVE DeliveredPaid'
<1>1. CASE UNCHANGED orders BY <1>1 DEF LInv, DeliveredPaid
<1>2. ASSUME NEW k \in Keys, OneMove(k) PROVE DeliveredPaid'
  <2>1. orders'[k].delivered => orders'[k].status = "PAID"
    BY <1>2 DEF LInv, DeliveredPaid, OneMove, RowMove
  <2>2. \A j \in Keys : j # k => orders'[j] = orders[j] BY <1>2, RowsType DEF LInv, OneMove
  <2> QED BY <2>1, <2>2 DEF LInv, DeliveredPaid
<1> QED BY <1>1, <1>2, StepMoves DEF LInv

LEMMA MoveIsLifecycleStep ==
  ASSUME LInv, NEW k \in Keys, OneMove(k)
  PROVE  [Lifecycle!Next]_Phase
<1>1. /\ orders[k] \in Row /\ orders'[k] \in Row
      /\ \A j \in Keys : j # k => orders'[j] = orders[j]
  BY RowsType DEF LInv, OneMove
<1>2. \A j \in Keys : j # k => Phase'[j] = Phase[j] BY <1>1 DEF Phase
<1>3. Phase' = [Phase EXCEPT ![k] = Phase'[k]]
  <2>1. Phase = [j \in Keys |-> Phase[j]] BY DEF Phase
  <2>2. Phase' = [j \in Keys |-> Phase'[j]] BY DEF Phase
  <2> QED BY <1>2, <2>1, <2>2
<1>4. \/ Phase'[k] = Phase[k]
      \/ Phase[k] = "absent" /\ Phase'[k] = "pending"
      \/ Phase[k] = "pending" /\ Phase'[k] \in {"paid", "failed"}
      \/ Phase[k] = "paid" /\ Phase'[k] = "delivered"
  <2>1. \/ orders[k].status = "NONE" /\ orders'[k].status = "PENDING"
        \/ /\ orders[k].status = "PENDING" /\ ~orders[k].delivered /\ ~orders'[k].delivered
           /\ orders'[k].status \in {"PENDING", "PAID", "FAILED"}
        \/ orders[k].status = "PAID" /\ orders'[k].status = "PAID" /\ orders'[k].delivered
    BY <1>1 DEF LInv, DeliveredPaid, OneMove, RowMove, Row
  <2> QED BY <2>1 DEF Phase
<1>5. CASE Phase'[k] = Phase[k]
  <2>1. Phase' = Phase BY <1>3, <1>5 DEF Phase
  <2> QED BY <2>1
<1>6. CASE Phase'[k] # Phase[k]
  BY <1>3, <1>4, <1>6
  DEF Lifecycle!Next, Lifecycle!Open, Lifecycle!Pay, Lifecycle!Fail, Lifecycle!Deliver, Lifecycle!Become
<1> QED BY <1>5, <1>6

\* Every order goes through the life cycle clients rely on: once decided it
\* stays decided, the saga and the passes never decide it twice, and only paid
\* orders are delivered.
THEOREM ImplementsLifecycle == ASSUME "slow" \notin Faults PROVE Spec => LifecycleSpec
<1>1. Init => Lifecycle!Init
  BY DEF Init, NoRow, Lifecycle!Init, Phase
<1>2. Init => DeliveredPaid BY DEF Init, NoRow, DeliveredPaid
<1>3. IInv /\ DeliveredPaid /\ [Next]_vars => DeliveredPaid' BY DeliveredPaidStep DEF LInv
<1>4. IInv /\ DeliveredPaid /\ [Next]_vars => [Lifecycle!Next]_Phase
  <2> SUFFICES ASSUME IInv, DeliveredPaid, [Next]_vars PROVE [Lifecycle!Next]_Phase OBVIOUS
  <2>1. CASE UNCHANGED orders BY <2>1 DEF Phase
  <2>2. CASE \E k \in Keys : OneMove(k) BY <2>2, MoveIsLifecycleStep DEF LInv
  <2> QED BY <2>1, <2>2, StepMoves
<1> QED BY <1>1, <1>2, <1>3, <1>4, InductiveInvariant, PTL DEF Spec, LifecycleSpec, Lifecycle!Spec

-----------------------------------------------------------------------------
(* What is told of an order, and when its items leave the cart *)

\* A saga that has not failed has no reason, one that has does; what it tells
\* is what it committed.
LocalTrue(s, row) ==
  /\ s.pc \in FrontPcs \cup Forward => s.why = "none"
  /\ s.pc \in {"undo", "fail"} => s.why # "none"
  /\ s.pc = "tell" => row.status = IF s.why = "none" THEN "PAID" ELSE "FAILED"
  /\ s.pc = "clear" => row.status \in {"PAID", "FAILED"}
SagasTrue == \A r \in Requests : LocalTrue(req[r], orders[KeyOf[r]])

PassTrue == /\ loop.pc \in {"tell", "clear"} => orders[loop.cur].status = "FAILED"
            /\ loop.pc = "announce" => /\ orders[loop.cur].status = "PAID"
                                       /\ orders[loop.cur].delivered

\* A removal from the cart is under way, or done, for decided orders only.
ClearsTrue == ClearedAfterDecision /\ \A c \in late : c.op = "clear" => Decided(c.key)

Carried(k) == unsent[k] \cup {topic[k][i] : i \in DOMAIN topic[k]}
SaysTrue(e, row) == /\ e = "paid" => row.status = "PAID"
                    /\ e = "failed" => row.status = "FAILED"
                    /\ e = "delivered" => row.status = "PAID" /\ row.delivered

OInv == SagasTrue /\ PassTrue /\ ClearsTrue /\ EventsTruthful

LEMMA OInvInit == Init => OInv
  BY DEF Init, OInv, SagasTrue, LocalTrue, PassTrue, ClearsTrue, ClearedAfterDecision, EventsTruthful,
     Fresh, Idle

\* What was decided stays, and so does what was said of it.
LEMMA StatusStays ==
  ASSUME LInv, [Next]_vars, NEW k \in Keys, Decided(k)
  PROVE  /\ orders'[k].status = orders[k].status /\ Decided(k)'
         /\ orders[k].delivered => orders'[k].delivered
<1>1. CASE UNCHANGED orders BY <1>1 DEF Decided
<1>2. ASSUME NEW j \in Keys, OneMove(j) PROVE /\ orders'[k].status = orders[k].status
                                              /\ orders[k].delivered => orders'[k].delivered
  <2>1. CASE j = k BY <1>2, <2>1 DEF OneMove, RowMove, Decided
  <2>2. CASE j # k BY <1>2, <2>2, RowsType DEF OneMove, LInv
  <2> QED BY <2>1, <2>2
<1> QED BY <1>1, <1>2, StepMoves DEF LInv, Decided

LEMMA SaidStays ==
  ASSUME LInv, [Next]_vars, NEW k \in Keys, NEW e, SaysTrue(e, orders[k])
  PROVE  SaysTrue(e, orders'[k])
  BY StatusStays DEF SaysTrue, Decided

LEMMA LocalStays ==
  ASSUME LInv, [Next]_vars, NEW k \in Keys, NEW s, LocalTrue(s, orders[k])
  PROVE  LocalTrue(s, orders'[k])
  BY StatusStays DEF LocalTrue, Decided

\* One thread moved: its new locals have to be true.
LEMMA MovedSaga ==
  ASSUME LInv, [Next]_vars, SagasTrue, NEW r \in Requests, NEW s, req' = [req EXCEPT ![r] = s],
         LocalTrue(s, orders'[KeyOf[r]])
  PROVE  SagasTrue'
<1>1. req \in [Requests -> RequestState] BY DEF LInv, IInv, Ownership, TypeOK, ReqOK
<1>2. req'[r] = s /\ \A q \in Requests : q # r => req'[q] = req[q] BY <1>1
<1>3. ASSUME NEW q \in Requests PROVE LocalTrue(req'[q], orders'[KeyOf[q]])
  <2>1. CASE q = r BY <1>2, <2>1
  <2>2. CASE q # r BY <1>2, <2>2, LocalStays, Constants DEF SagasTrue
  <2> QED BY <2>1, <2>2
<1> QED BY <1>3 DEF SagasTrue

\* The three ways a saga goes on: it ends, it goes on to reserve and charge, or
\* it compensates.
LEMMA StoppedSaga ==
  ASSUME LInv, [Next]_vars, SagasTrue, NEW r \in Requests,
         NEW s, req' = [req EXCEPT ![r] = s], s.pc \in {"done", "dead"}
  PROVE  SagasTrue'
<1>1. LocalTrue(s, orders'[KeyOf[r]]) BY DEF LocalTrue, FrontPcs, Forward
<1> QED BY <1>1, MovedSaga

LEMMA EndedSaga ==
  ASSUME LInv, [Next]_vars, SagasTrue, NEW r \in Requests,
         req' = Die(r) \/ \E a : req' = Finish(r, a)
  PROVE  SagasTrue'
<1>1. CASE req' = Die(r)
  <2> DEFINE s == [Fresh EXCEPT !.pc = "dead"]
  <2>1. s.pc = "dead" /\ req' = [req EXCEPT ![r] = s] BY <1>1 DEF Die, Fresh
  <2> HIDE DEF s
  <2> QED BY <2>1, StoppedSaga
<1>2. ASSUME NEW a, req' = Finish(r, a) PROVE SagasTrue'
  <2> DEFINE s == [Fresh EXCEPT !.pc = "done", !.answer = a]
  <2>1. s.pc = "done" /\ req' = [req EXCEPT ![r] = s] BY <1>2 DEF Finish, Fresh
  <2> HIDE DEF s
  <2> QED BY <2>1, StoppedSaga
<1> QED BY <1>1, <1>2

LEMMA ForwardSaga ==
  ASSUME LInv, [Next]_vars, SagasTrue, NEW r \in Requests, req[r].pc \in FrontPcs \cup Forward,
         NEW s, req' = [req EXCEPT ![r] = s], s.pc \in FrontPcs \cup Forward, s.why = req[r].why
  PROVE  SagasTrue'
<1>1. LocalTrue(s, orders'[KeyOf[r]]) BY DEF SagasTrue, LocalTrue, FrontPcs, Forward
<1> QED BY <1>1, MovedSaga

LEMMA UndoneSaga ==
  ASSUME LInv, [Next]_vars, SagasTrue, NEW r \in Requests,
         NEW s, req' = [req EXCEPT ![r] = s], s.pc \in {"undo", "fail"}, s.why # "none"
  PROVE  SagasTrue'
<1>1. LocalTrue(s, orders'[KeyOf[r]]) BY DEF LocalTrue, FrontPcs, Forward
<1> QED BY <1>1, MovedSaga

LEMMA GoneOn ==
  ASSUME LInv, [Next]_vars, SagasTrue, NEW r \in Requests, req[r].pc \in FrontPcs \cup Forward,
         NEW pc \in FrontPcs \cup Forward, req' = Goto(r, pc)
  PROVE  SagasTrue'
<1> DEFINE s == [req[r] EXCEPT !.pc = pc]
<1>1. req[r] \in RequestState BY DEF LInv, IInv, Ownership, TypeOK, ReqOK
<1>2. s.pc = pc /\ s.why = req[r].why BY <1>1 DEF RequestState
<1>3. req' = [req EXCEPT ![r] = s] BY DEF Goto
<1> HIDE DEF s
<1> QED BY <1>2, <1>3, ForwardSaga

LEMMA Compensating ==
  ASSUME LInv, [Next]_vars, SagasTrue, NEW r \in Requests, NEW n, NEW why, why # "none",
         req' = Undo(r, n, why)
  PROVE  SagasTrue'
<1> DEFINE s == [req[r] EXCEPT !.pc = IF n = 0 THEN "fail" ELSE "undo",
                               !.line = 1, !.upto = n, !.why = why]
<1>1. req[r] \in RequestState BY DEF LInv, IInv, Ownership, TypeOK, ReqOK
<1>2. s.pc \in {"undo", "fail"} /\ s.why = why BY <1>1 DEF RequestState
<1>3. req' = [req EXCEPT ![r] = s] BY DEF Undo
<1> HIDE DEF s
<1> QED BY <1>2, <1>3, UndoneSaga

LEMMA SagaStep ==
  ASSUME LInv, [Next]_vars, SagasTrue, NEW r \in Requests, Lookup(r) \/ Work(r) \/ Abort(r)
  PROVE  SagasTrue'
<1>1. /\ req[r] \in RequestState /\ LocalTrue(req[r], orders[KeyOf[r]]) /\ KeyOf[r] \in Keys
      /\ orders \in [Keys -> Row]
  BY Constants, RowsType DEF LInv, IInv, Ownership, TypeOK, ReqOK, SagasTrue
<1>2. CASE Lookup(r)
  <2>1. req' = Goto(r, "insert") \/ \E a : req' = Finish(r, a) BY <1>2 DEF Lookup
  <2> QED BY <1>2, <2>1, GoneOn, EndedSaga DEF Lookup, At, FrontPcs
<1>3. CASE Reject(r) BY <1>3, EndedSaga DEF Reject
<1>4. CASE Insert(r)
  <2>1. req' = Goto(r, "created") \/ \E a : req' = Finish(r, a) BY <1>4 DEF Insert
  <2> QED BY <1>4, <2>1, GoneOn, EndedSaga DEF Insert, At, FrontPcs, Forward
<1>5. CASE AnnounceCreated(r)
  <2> DEFINE s == [req[r] EXCEPT !.pc = "reserve", !.line = 1, !.seen = orders[KeyOf[r]]]
  <2>1. s.pc = "reserve" /\ s.why = req[r].why BY <1>1 DEF RequestState
  <2>2. req' = [req EXCEPT ![r] = s] BY <1>5 DEF AnnounceCreated
  <2> HIDE DEF s
  <2> QED BY <1>5, <2>1, <2>2, ForwardSaga DEF AnnounceCreated, At, Forward
<1>6. CASE ReserveLine(r)
  <2> DEFINE s == IF req[r].line < Size(r) THEN [req[r] EXCEPT !.line = @ + 1]
                  ELSE [req[r] EXCEPT !.pc = "flag", !.line = 1]
  <2>1. s.pc \in {"reserve", "flag"} /\ s.why = req[r].why
    BY <1>1, <1>6 DEF RequestState, ReserveLine, At
  <2>2. req' = [req EXCEPT ![r] = s] BY <1>6 DEF ReserveLine, NextLine
  <2> HIDE DEF s
  <2> QED BY <1>6, <2>1, <2>2, ForwardSaga DEF ReserveLine, At, Forward
<1>7. CASE ReserveRefused(r) BY <1>7, Compensating DEF ReserveRefused
<1>8. CASE ReserveLost(r) BY <1>8, Compensating DEF ReserveLost
<1>9. CASE SetStockReserved(r)
  <2>1. req' = Die(r) \/ req' = Goto(r, "reload") BY <1>9 DEF SetStockReserved
  <2> QED BY <1>9, <2>1, EndedSaga, GoneOn DEF SetStockReserved, At, Forward
<1>10. CASE Reload(r)
  <2> DEFINE s == [req[r] EXCEPT !.pc = "charge", !.seen = orders[KeyOf[r]]]
  <2>1. s.pc = "charge" /\ s.why = req[r].why BY <1>1 DEF RequestState
  <2>2. req' = [req EXCEPT ![r] = s] BY <1>10 DEF Reload
  <2> HIDE DEF s
  <2> QED BY <1>10, <2>1, <2>2, ForwardSaga DEF Reload, At, Forward
<1>11. CASE Charge(r)
  <2>1. req' = Goto(r, "pay") \/ req' = Undo(r, Size(r), "PAYMENT_DECLINED")
    BY <1>11 DEF Charge, AfterCharge
  <2> QED BY <1>11, <2>1, GoneOn, Compensating DEF Charge, At, Forward
<1>12. CASE ChargeLost(r) BY <1>12, Compensating DEF ChargeLost
<1>13. CASE ReleaseLine(r)
  <2> DEFINE s == IF req[r].line < req[r].upto THEN [req[r] EXCEPT !.line = @ + 1]
                  ELSE [req[r] EXCEPT !.pc = "fail", !.line = 1]
  <2>1. s.pc \in {"undo", "fail"} /\ s.why # "none"
    BY <1>1, <1>13 DEF RequestState, ReleaseLine, At, LocalTrue
  <2>2. req' = [req EXCEPT ![r] = s] BY <1>13 DEF ReleaseLine, NextLine
  <2> HIDE DEF s
  <2> QED BY <2>1, <2>2, UndoneSaga
<1>14. ASSUME NEW st, req' = Goto(r, "tell"), orders'[KeyOf[r]].status = st,
              st = IF req[r].why = "none" THEN "PAID" ELSE "FAILED"
       PROVE  SagasTrue'
  <2> DEFINE s == [req[r] EXCEPT !.pc = "tell"]
  <2>1. s.pc = "tell" /\ s.why = req[r].why BY <1>1 DEF RequestState
  <2>2. req' = [req EXCEPT ![r] = s] BY <1>14 DEF Goto
  <2> HIDE DEF s
  <2>3. LocalTrue(s, orders'[KeyOf[r]]) BY <1>14, <2>1 DEF LocalTrue, FrontPcs, Forward
  <2> QED BY <2>2, <2>3, MovedSaga
<1>15. CASE CommitFailed(r)
  <2>1. CASE req' = Die(r) BY <2>1, EndedSaga
  <2>2. CASE req' # Die(r)
    <3>1. /\ req' = Goto(r, "tell") /\ req[r].why # "none"
          /\ orders' = [orders EXCEPT ![KeyOf[r]] = [@ EXCEPT !.status = "FAILED", !.reason = req[r].why]]
      BY <1>1, <1>15, <2>2 DEF CommitFailed, At, LocalTrue
    <3>2. orders'[KeyOf[r]].status = "FAILED" BY <1>1, <3>1 DEF Row
    <3> QED BY <1>14, <3>1, <3>2
  <2> QED BY <2>1, <2>2
<1>16. CASE CommitPaid(r)
  <2>1. CASE req' = Die(r) BY <2>1, EndedSaga
  <2>2. CASE req' # Die(r)
    <3>1. /\ req' = Goto(r, "tell") /\ req[r].why = "none"
          /\ orders' = [orders EXCEPT ![KeyOf[r]].status = "PAID"]
      BY <1>1, <1>16, <2>2 DEF CommitPaid, At, LocalTrue, Forward
    <3>2. orders'[KeyOf[r]].status = "PAID" BY <1>1, <3>1 DEF Row
    <3> QED BY <1>14, <3>1, <3>2
  <2> QED BY <2>1, <2>2
<1>17. CASE AnnounceOutcome(r)
  <2> DEFINE s == [req[r] EXCEPT !.pc = "clear", !.seen = orders[KeyOf[r]]]
  <2>1. s.pc = "clear" BY <1>1 DEF RequestState
  <2>2. req' = [req EXCEPT ![r] = s] /\ UNCHANGED orders BY <1>17 DEF AnnounceOutcome
  <2> HIDE DEF s
  <2>3. LocalTrue(s, orders'[KeyOf[r]])
    BY <1>1, <1>17, <2>1, <2>2 DEF AnnounceOutcome, At, LocalTrue, FrontPcs, Forward
  <2> QED BY <2>2, <2>3, MovedSaga
<1>18. CASE ClearCart(r) BY <1>18, EndedSaga DEF ClearCart
<1>19. CASE Abort(r) BY <1>19, EndedSaga DEF Abort
<1> QED BY <1>2, <1>3, <1>4, <1>5, <1>6, <1>7, <1>8, <1>9, <1>10, <1>11, <1>12, <1>13, <1>15, <1>16,
           <1>17, <1>18, <1>19 DEF Work

\* A pass announces what it has just committed.
LEMMA PassStep == ASSUME LInv, [Next]_vars, OInv PROVE PassTrue'
<1>1. ASSUME loop'.pc \in {"idle", "release", "fail", "deliver"} PROVE PassTrue'
  BY <1>1 DEF PassTrue
<1>2. loop \in LoopState /\ PassTrue /\ Ownership /\ orders \in [Keys -> Row]
  BY RowsType DEF LInv, IInv, Ownership, TypeOK, LoopOK, OInv
<1>3. CASE UNCHANGED loop
  <2>1. CASE loop.pc \in {"tell", "clear", "announce"}
    <3>1. loop.cur \in Keys BY <1>2, <2>1, LoopFacts
    <3> QED BY <1>2, <1>3, <3>1, StatusStays DEF PassTrue, Decided
  <2>2. CASE loop.pc \notin {"tell", "clear", "announce"} BY <1>3, <2>2 DEF PassTrue
  <2> QED BY <2>1, <2>2
<1>4. CASE StartReconciliation \/ StartDelivery \/ AbortPass \/ Crash
  BY <1>1, <1>4 DEF StartReconciliation, StartDelivery, AbortPass, Crash, BeginRec, Begin, Idle
<1>5. CASE ReconcileRelease
  <2>1. loop'.pc \in {"release", "fail"} BY <1>2, <1>5 DEF ReconcileRelease, LoopGoto, LoopState
  <2> QED BY <1>1, <2>1
<1>6. CASE ReconcileCommit
  <2>1. loop.cur \in Keys BY <1>2, <1>6, LoopFacts DEF ReconcileCommit
  <2>2. CASE loop' = Idle BY <1>1, <2>2 DEF Idle
  <2>3. CASE loop' # Idle
    <3> DEFINE row == [orders[loop.cur] EXCEPT !.status = "FAILED", !.reason = "RECONCILIATION_TIMEOUT"]
    <3>1. orders' = [orders EXCEPT ![loop.cur] = row] /\ loop' = [loop EXCEPT !.pc = "tell"]
      BY <1>6, <2>3 DEF ReconcileCommit, LoopGoto
    <3>2. row.status = "FAILED" BY <1>2, <2>1 DEF Row
    <3> HIDE DEF row
    <3>3. orders'[loop.cur].status = "FAILED" BY <1>2, <2>1, <3>1, <3>2
    <3>4. loop'.pc = "tell" /\ loop'.cur = loop.cur BY <1>2, <3>1 DEF LoopState
    <3> QED BY <3>3, <3>4 DEF PassTrue
  <2> QED BY <2>2, <2>3
<1>7. CASE ReconcileAnnounce
  <2>1. loop'.pc = "clear" /\ loop'.cur = loop.cur /\ loop.pc = "tell" /\ UNCHANGED orders
    BY <1>2, <1>7 DEF ReconcileAnnounce, LoopGoto, LoopState
  <2> QED BY <1>2, <2>1 DEF PassTrue
<1>8. CASE ReconcileClear
  <2>1. loop'.pc \in {"idle", "release", "fail"} BY <1>8 DEF ReconcileClear, BeginRec, Begin, Idle
  <2> QED BY <1>1, <2>1
<1>9. CASE DeliverCommit
  <2>1. loop.cur \in Keys /\ orders[loop.cur].status = "PAID"
    BY <1>2, <1>9, LoopFacts DEF DeliverCommit, LInv, IInv, Progress, LoopAlone
  <2>2. CASE loop' = Idle BY <1>1, <2>2 DEF Idle
  <2>3. CASE loop' # Idle
    <3> DEFINE row == [orders[loop.cur] EXCEPT !.delivered = TRUE]
    <3>1. orders' = [orders EXCEPT ![loop.cur] = row] /\ loop' = [loop EXCEPT !.pc = "announce"]
      BY <1>9, <2>3 DEF DeliverCommit, LoopGoto
    <3>2. row.status = "PAID" /\ row.delivered BY <1>2, <2>1 DEF Row
    <3> HIDE DEF row
    <3>3. orders'[loop.cur] = row BY <1>2, <2>1, <3>1
    <3>4. loop'.pc = "announce" /\ loop'.cur = loop.cur BY <1>2, <3>1 DEF LoopState
    <3> QED BY <3>2, <3>3, <3>4 DEF PassTrue
  <2> QED BY <2>2, <2>3
<1>10. CASE AnnounceDelivered
  <2>1. loop'.pc \in {"idle", "deliver"} BY <1>10 DEF AnnounceDelivered, Begin, Idle
  <2> QED BY <1>1, <2>1
<1>11. \/ UNCHANGED loop \/ Reconcile \/ Delivery \/ AbortPass \/ Crash
  BY DEF Next, Lookup, Work, Abort, Reject, Insert, AnnounceCreated, ReserveLine, ReserveRefused,
     ReserveLost, SetStockReserved, Reload, Charge, ChargeLost, ReleaseLine, CommitFailed, CommitPaid,
     AnnounceOutcome, ClearCart, ExecuteLate, DropLate, FlushUnsent, ExpireUnsent, vars
<1> QED BY <1>3, <1>4, <1>5, <1>6, <1>7, <1>8, <1>9, <1>10, <1>11 DEF Reconcile, Delivery

-----------------------------------------------------------------------------
(* The cart *)

LEMMA ClearFrame ==
  ASSUME LInv, [Next]_vars, OInv,
         \A k \in cleared' : k \in cleared \/ (k \in Keys /\ Decided(k)),
         \A c \in late' : c \in late \/ c.op # "clear" \/ (c.key \in Keys /\ Decided(c.key))
  PROVE  ClearsTrue'
<1>1. /\ cleared \subseteq Keys /\ \A c \in late : c.key \in Keys
      /\ ClearedAfterDecision /\ \A c \in late : c.op = "clear" => Decided(c.key)
  BY DEF LInv, IInv, Ownership, TypeOK, WorldOK, LateOK, Calls, OInv, ClearsTrue
<1>2. \A k \in cleared' : Decided(k)' BY <1>1, StatusStays DEF ClearedAfterDecision
<1>3. \A c \in late' : c.op = "clear" => Decided(c.key)'
  <2> SUFFICES ASSUME NEW c \in late', c.op = "clear" PROVE Decided(c.key)' OBVIOUS
  <2>1. c.key \in Keys /\ Decided(c.key) BY <1>1
  <2> QED BY <2>1, StatusStays
<1> QED BY <1>2, <1>3 DEF ClearsTrue, ClearedAfterDecision

\* A removal for order k, answered or not.
LEMMA ClearItemsFrame ==
  ASSUME LInv, [Next]_vars, OInv, NEW k \in Keys, NEW from, Decided(k), ClearCartItems(k, from)
  PROVE  ClearsTrue'
<1>1. CASE DoClear(k) /\ UNCHANGED late BY <1>1, ClearFrame DEF DoClear
<1>2. CASE Lose(Call("clear", k, 0, from))
  <2>1. UNCHANGED cleared /\ late' = late \cup {Call("clear", k, 0, from)} BY <1>2 DEF Lose, world
  <2>2. Call("clear", k, 0, from).key = k BY DEF Call
  <2> QED BY <2>1, <2>2, ClearFrame
<1> QED BY <1>1, <1>2 DEF ClearCartItems

\* A call that is not a removal, lost or executed.
LEMMA OtherCallFrame ==
  ASSUME LInv, [Next]_vars, OInv, UNCHANGED cleared,
         NEW op \in {"reserve", "release", "charge"}, NEW k, NEW l, NEW from,
         late' = late \/ late' = late \cup {Call(op, k, l, from)}
  PROVE  ClearsTrue'
<1>1. Call(op, k, l, from).op # "clear" BY DEF Call
<1> QED BY <1>1, ClearFrame

LEMMA InProgressClears ==
  ASSUME LInv, OInv, NEW c \in InProgress, c.op = "clear"
  PROVE  c.key \in Keys /\ Decided(c.key)
<1>1. CASE \E r \in Requests : req[r].pc = "clear" /\ c.key = KeyOf[r]
  BY <1>1, Constants DEF OInv, SagasTrue, LocalTrue, Decided
<1>2. CASE loop.pc = "clear" /\ c.key = loop.cur
  BY <1>2, LoopFacts DEF LInv, IInv, OInv, PassTrue, Decided
<1>3. \/ \E r \in Requests : req[r].pc = "clear" /\ c.key = KeyOf[r]
      \/ loop.pc = "clear" /\ c.key = loop.cur
  BY DEF InProgress, Call
<1> QED BY <1>1, <1>2, <1>3

LEMMA ClearsStep == ASSUME LInv, [Next]_vars, OInv PROVE ClearsTrue'
<1>1. CASE UNCHANGED <<cleared, late>> BY <1>1, ClearFrame
<1>2. ASSUME NEW r \in Requests, ReserveLost(r) \/ ChargeLost(r) \/ ReleaseLine(r) PROVE ClearsTrue'
  BY <1>2, OtherCallFrame DEF ReserveLost, ChargeLost, ReleaseLine, ReleaseStock, DoRelease, Lose, world
<1>3. CASE ReconcileRelease
  BY <1>3, OtherCallFrame DEF ReconcileRelease, ReleaseStock, DoRelease, Lose, world
<1>4. ASSUME NEW r \in Requests, ClearCart(r) PROVE ClearsTrue'
  <2>1. KeyOf[r] \in Keys /\ Decided(KeyOf[r])
    BY <1>4, Constants DEF ClearCart, At, OInv, SagasTrue, LocalTrue, Decided
  <2> QED BY <1>4, <2>1, ClearItemsFrame DEF ClearCart
<1>5. CASE ReconcileClear
  <2>1. loop.cur \in Keys /\ Decided(loop.cur)
    BY <1>5, LoopFacts DEF ReconcileClear, LInv, IInv, OInv, PassTrue, Decided
  <2> QED BY <1>5, <2>1, ClearItemsFrame DEF ReconcileClear
<1>6. ASSUME NEW c \in late, ExecuteLate(c) PROVE ClearsTrue'
  <2>1. /\ late' = late \ {c} /\ c.key \in Keys
        /\ UNCHANGED cleared \/ (c.op = "clear" /\ cleared' = cleared \cup {c.key})
    BY <1>6 DEF ExecuteLate, DoReserve, DoRelease, DoCharge, DoClear, LInv, IInv, Ownership, TypeOK, LateOK, Calls
  <2>2. c.op = "clear" => Decided(c.key) BY DEF OInv, ClearsTrue
  <2> QED BY <2>1, <2>2, ClearFrame
<1>7. ASSUME NEW c \in late, DropLate(c) PROVE ClearsTrue'
  BY <1>7, ClearFrame DEF DropLate, world
<1>8. CASE Crash
  <2>1. UNCHANGED cleared /\ late' = late \cup InProgress BY <1>8 DEF Crash, world
  <2> QED BY <2>1, InProgressClears, ClearFrame
<1>9. ASSUME NEW r \in Requests, Lookup(r) \/ Work(r) \/ Abort(r)
      PROVE  \/ UNCHANGED <<cleared, late>> \/ ReserveLost(r) \/ ChargeLost(r) \/ ReleaseLine(r)
             \/ ClearCart(r)
  BY <1>9 DEF Lookup, Work, Abort, Reject, Insert, AnnounceCreated, ReserveLine, ReserveRefused,
     SetStockReserved, Reload, Charge, CommitFailed, CommitPaid, AnnounceOutcome, DoReserve, DoCharge, world
<1>10. CASE Reconcile \/ Delivery \/ AbortPass
  <2>1. UNCHANGED <<cleared, late>> \/ ReconcileRelease \/ ReconcileClear
    BY <1>10 DEF Reconcile, Delivery, AbortPass, StartReconciliation, ReconcileCommit,
       ReconcileAnnounce, StartDelivery, DeliverCommit, AnnounceDelivered, world
  <2> QED BY <1>1, <1>3, <1>5, <2>1
<1>11. ASSUME NEW k \in Keys, NEW e \in unsent[k], FlushUnsent(k, e) \/ ExpireUnsent(k, e)
       PROVE  UNCHANGED <<cleared, late>>
  BY <1>11 DEF FlushUnsent, ExpireUnsent, world
<1>12. CASE UNCHANGED vars BY <1>1, <1>12 DEF vars, world
<1> QED BY <1>1, <1>2, <1>4, <1>6, <1>7, <1>8, <1>9, <1>10, <1>11, <1>12 DEF Next
-----------------------------------------------------------------------------
(* The topic *)

LEMMA Truthful == EventsTruthful <=> \A k \in Keys : \A e \in Carried(k) : SaysTrue(e, orders[k])
  BY DEF EventsTruthful, Carried, SaysTrue

\* Messages that were carried before stay true; a new one has to be.
LEMMA CarriedFrame ==
  ASSUME LInv, [Next]_vars, OInv,
         \A k \in Keys : \A e \in unsent'[k] \cup {topic'[k][i] : i \in DOMAIN topic'[k]} :
           e \in Carried(k) \/ SaysTrue(e, orders'[k])
  PROVE  EventsTruthful'
<1>1. \A k \in Keys : \A e \in Carried(k) : SaysTrue(e, orders'[k])
  BY SaidStays, Truthful DEF OInv
<1>2. \A k \in Keys : \A e \in unsent'[k] \cup {topic'[k][i] : i \in DOMAIN topic'[k]} :
        SaysTrue(e, orders'[k])
  BY <1>1
<1> QED BY <1>2 DEF EventsTruthful, SaysTrue

\* Appending adds one message to what the topic carries.
LEMMA AppendCarries ==
  ASSUME KafkaOK, NEW k \in Keys, NEW e, topic' = [topic EXCEPT ![k] = Append(@, e)],
         NEW j \in Keys, NEW i \in DOMAIN topic'[j]
  PROVE  (j = k /\ topic'[j][i] = e) \/ topic'[j][i] \in {topic[j][n] : n \in DOMAIN topic[j]}
<1>1. topic \in [Keys -> Seq(Events)] BY DEF KafkaOK
<1>2. CASE j # k BY <1>1, <1>2
<1>3. CASE j = k
  <2> DEFINE t == topic[k]
  <2>1. t \in Seq(Events) /\ topic'[j] = Append(t, e) BY <1>1, <1>3
  <2>2. t = topic[j] BY <1>3
  <2> HIDE DEF t
  <2>3. DOMAIN topic'[j] = 1..(Len(t) + 1) /\ DOMAIN t = 1..Len(t) BY <2>1
  <2>4. CASE i = Len(t) + 1 BY <1>3, <2>1, <2>4
  <2>5. CASE i # Len(t) + 1
    <3>1. i \in DOMAIN t /\ topic'[j][i] = t[i] BY <2>1, <2>3, <2>5
    <3> QED BY <2>2, <3>1
  <2> QED BY <2>4, <2>5
<1> QED BY <1>2, <1>3

LEMMA PublishFrame ==
  ASSUME LInv, [Next]_vars, OInv, NEW k \in Keys, NEW e, Publish(k, e), SaysTrue(e, orders'[k])
  PROVE  EventsTruthful'
<1>1. KafkaOK BY DEF LInv, IInv, Ownership, TypeOK
<1>2. CASE topic' = [topic EXCEPT ![k] = Append(@, e)] /\ UNCHANGED unsent
  BY <1>1, <1>2, AppendCarries, CarriedFrame DEF Carried
<1>3. CASE unsent' = [unsent EXCEPT ![k] = @ \cup {e}] /\ UNCHANGED topic
  <2>1. \A j \in Keys : \A m \in unsent'[j] : m \in unsent[j] \/ (j = k /\ m = e)
    BY <1>1, <1>3 DEF KafkaOK
  <2> QED BY <1>3, <2>1, CarriedFrame DEF Carried
<1> QED BY <1>2, <1>3 DEF Publish

LEMMA EventsStep == ASSUME LInv, [Next]_vars, OInv PROVE EventsTruthful'
<1>1. CASE UNCHANGED kafka BY <1>1, CarriedFrame DEF Carried, kafka
<1>2. ASSUME NEW r \in Requests, AnnounceCreated(r) PROVE EventsTruthful'
  BY <1>2, Constants, PublishFrame DEF AnnounceCreated, SaysTrue
<1>3. ASSUME NEW r \in Requests, AnnounceOutcome(r) PROVE EventsTruthful'
  <2>1. /\ KeyOf[r] \in Keys /\ UNCHANGED orders
        /\ orders[KeyOf[r]].status = IF req[r].why = "none" THEN "PAID" ELSE "FAILED"
    BY <1>3, Constants DEF AnnounceOutcome, At, OInv, SagasTrue, LocalTrue
  <2>2. SaysTrue(OutcomeEvent(r), orders'[KeyOf[r]]) BY <2>1 DEF SaysTrue, OutcomeEvent
  <2> QED BY <1>3, <2>1, <2>2, PublishFrame DEF AnnounceOutcome
<1>4. CASE ReconcileAnnounce
  <2>1. /\ loop.cur \in Keys /\ UNCHANGED orders /\ orders[loop.cur].status = "FAILED"
    BY <1>4, LoopFacts DEF ReconcileAnnounce, LInv, IInv, OInv, PassTrue
  <2> QED BY <1>4, <2>1, PublishFrame DEF ReconcileAnnounce, SaysTrue
<1>5. CASE AnnounceDelivered
  <2>1. /\ loop.cur \in Keys /\ UNCHANGED orders /\ orders[loop.cur].status = "PAID"
        /\ orders[loop.cur].delivered
    BY <1>5, LoopFacts DEF AnnounceDelivered, LInv, IInv, OInv, PassTrue
  <2> QED BY <1>5, <2>1, PublishFrame DEF AnnounceDelivered, SaysTrue
<1>6. ASSUME NEW k \in Keys, NEW e \in unsent[k], FlushUnsent(k, e) PROVE EventsTruthful'
  <2>1. KafkaOK /\ topic' = [topic EXCEPT ![k] = Append(@, e)]
    BY <1>6 DEF FlushUnsent, LInv, IInv, Ownership, TypeOK
  <2>2. \A j \in Keys : \A i \in DOMAIN topic'[j] : topic'[j][i] \in Carried(j)
    BY <2>1, AppendCarries DEF Carried
  <2>3. \A j \in Keys : unsent'[j] \subseteq unsent[j] BY <1>6, <2>1 DEF FlushUnsent, KafkaOK
  <2> QED BY <2>2, <2>3, CarriedFrame DEF Carried
<1>7. ASSUME NEW k \in Keys, NEW e \in unsent[k], ExpireUnsent(k, e) PROVE EventsTruthful'
  <2>1. \A j \in Keys : unsent'[j] \subseteq unsent[j]
    BY <1>7 DEF ExpireUnsent, LInv, IInv, Ownership, TypeOK, KafkaOK
  <2> QED BY <1>7, <2>1, CarriedFrame DEF ExpireUnsent, Carried
<1>8. CASE Crash
  <2>1. UNCHANGED topic /\ \A k \in Keys : unsent'[k] = {} BY <1>8 DEF Crash
  <2> QED BY <2>1, CarriedFrame DEF Carried
<1>9. ASSUME NEW r \in Requests, Lookup(r) \/ Work(r) \/ Abort(r)
      PROVE  UNCHANGED kafka \/ AnnounceCreated(r) \/ AnnounceOutcome(r)
  BY <1>9 DEF Lookup, Work, Abort, Reject, Insert, ReserveLine, ReserveRefused, ReserveLost,
     SetStockReserved, Reload, Charge, ChargeLost, ReleaseLine, CommitFailed, CommitPaid, ClearCart
<1>10. CASE Reconcile \/ Delivery \/ AbortPass
  <2>1. UNCHANGED kafka \/ ReconcileAnnounce \/ AnnounceDelivered
    BY <1>10 DEF Reconcile, Delivery, AbortPass, StartReconciliation, ReconcileRelease,
       ReconcileCommit, ReconcileClear, StartDelivery, DeliverCommit
  <2> QED BY <1>1, <1>4, <1>5, <2>1
<1>11. ASSUME NEW c \in late, ExecuteLate(c) \/ DropLate(c) PROVE UNCHANGED kafka
  BY <1>11 DEF ExecuteLate, DropLate
<1>12. CASE UNCHANGED vars BY <1>1, <1>12 DEF vars
<1> QED BY <1>1, <1>2, <1>3, <1>6, <1>7, <1>8, <1>9, <1>10, <1>11, <1>12 DEF Next

-----------------------------------------------------------------------------
(* The theorems *)

LEMMA SagasStep == ASSUME LInv, [Next]_vars, OInv PROVE SagasTrue'
<1>1. SagasTrue BY DEF OInv
<1>2. CASE UNCHANGED req
  <2>1. \A r \in Requests : LocalTrue(req[r], orders'[KeyOf[r]])
    BY <1>1, LocalStays, Constants DEF SagasTrue
  <2> QED BY <1>2, <2>1 DEF SagasTrue
<1>3. ASSUME NEW r \in Requests, Lookup(r) \/ Work(r) \/ Abort(r) PROVE SagasTrue'
  BY <1>1, <1>3, SagaStep
<1>4. CASE Crash
  <2>1. ASSUME NEW r \in Requests PROVE LocalTrue(req'[r], orders'[KeyOf[r]])
    <3>1. CASE req[r].pc \in {"idle", "done", "dead"}
      <4>1. req'[r] = req[r] BY <1>4, <3>1 DEF Crash
      <4> QED BY <1>1, <4>1, LocalStays, Constants DEF SagasTrue
    <3>2. CASE req[r].pc \notin {"idle", "done", "dead"}
      <4>1. req'[r].pc = "dead" BY <1>4, <3>2 DEF Crash, Fresh
      <4> QED BY <4>1 DEF LocalTrue, FrontPcs, Forward
    <3> QED BY <3>1, <3>2
  <2> QED BY <2>1 DEF SagasTrue
<1>5. CASE Reconcile \/ Delivery \/ AbortPass
  BY <1>2, <1>5 DEF Reconcile, Delivery, AbortPass, StartReconciliation, ReconcileRelease,
     ReconcileCommit, ReconcileAnnounce, ReconcileClear, StartDelivery, DeliverCommit, AnnounceDelivered
<1>6. ASSUME NEW c \in late, ExecuteLate(c) \/ DropLate(c) PROVE UNCHANGED req
  BY <1>6 DEF ExecuteLate, DropLate
<1>7. ASSUME NEW k \in Keys, NEW e \in unsent[k], FlushUnsent(k, e) \/ ExpireUnsent(k, e)
      PROVE  UNCHANGED req
  BY <1>7 DEF FlushUnsent, ExpireUnsent
<1>8. CASE UNCHANGED vars BY <1>2, <1>8 DEF vars
<1> QED BY <1>2, <1>3, <1>4, <1>5, <1>6, <1>7, <1>8 DEF Next

LEMMA OInvStep == IInv /\ DeliveredPaid /\ OInv /\ [Next]_vars => OInv'
<1> SUFFICES ASSUME IInv, DeliveredPaid, OInv, [Next]_vars PROVE OInv' OBVIOUS
<1>1. LInv BY DEF LInv
<1> QED BY <1>1, SagasStep, PassStep, ClearsStep, EventsStep DEF OInv

\* What the locals, the cart and the topic say of the orders is true throughout.
THEOREM OutcomeInvariant == ASSUME "slow" \notin Faults PROVE Spec => []OInv
<1>1. Init => DeliveredPaid BY DEF Init, NoRow, DeliveredPaid
<1>2. IInv /\ DeliveredPaid /\ [Next]_vars => DeliveredPaid' BY DeliveredPaidStep DEF LInv
<1> QED BY <1>1, <1>2, OInvInit, OInvStep, InductiveInvariant, PTL DEF Spec

\* No event contradicts the orders table: the two outcomes are never both told
\* of an order, neither by a saga and a pass, nor by a message that librdkafka
\* delivers long after it was produced (orders.py:147, 180, 196, reconciliation.py:50).
THEOREM OnlyTruthIsTold == ASSUME "slow" \notin Faults PROVE Spec => []EventsTruthful
<1>1. OInv => EventsTruthful BY DEF OInv
<1> QED BY <1>1, OutcomeInvariant, PTL

\* The items of an order leave the cart only after its outcome is committed,
\* also when the removal is a lost call that arrives late or that outlives the
\* process that made it (orders.py:152, 185, 206, reconciliation.py:59).
THEOREM ClearedOnceDecided == ASSUME "slow" \notin Faults PROVE Spec => []ClearedAfterDecision
<1>1. OInv => ClearedAfterDecision BY DEF OInv, ClearsTrue
<1> QED BY <1>1, OutcomeInvariant, PTL

-----------------------------------------------------------------------------
(* The order of the topic, when the broker takes every message in time *)

Below(t, n) == \A i \in DOMAIN t : Stage(t[i]) <= n
InOrder(t)  == \A i, j \in DOMAIN t : i < j => Stage(t[i]) < Stage(t[j])

\* What has been said of an order leaves room for what its saga, or a pass, is
\* about to say.
RowRoom(row, t) == /\ row.status = "NONE" => Below(t, 0)
                   /\ row.status = "PENDING" => Below(t, 1)
                   /\ ~row.delivered => Below(t, 2)
SagaRoom(s, t)  == /\ s.pc = "created" => Below(t, 0)
                   /\ s.pc = "tell" => Below(t, 1)
LoopRoom(p, t)  == /\ p.pc = "tell" => Below(t, 1)
                   /\ p.pc = "announce" => Below(t, 2)
Room == /\ \A k \in Keys : RowRoom(orders[k], topic[k])
        /\ \A r \in Requests : SagaRoom(req[r], topic[KeyOf[r]])
        /\ loop.pc \in {"tell", "announce"} => LoopRoom(loop, topic[loop.cur])

\* The delivery pass works on orders that have not been delivered.
DueStill == /\ loop.pc = "deliver" => ~orders[loop.cur].delivered
            /\ loop.pc \in {"deliver", "announce"} => \A k \in loop.batch : ~orders[k].delivered

NothingUnsent == \A k \in Keys : unsent[k] = {}

TInv == NothingUnsent /\ TopicInOrder /\ Room /\ DueStill

LEMMA TInvInit == Init => TInv
<1> SUFFICES ASSUME Init PROVE TInv OBVIOUS
<1>1. \A k \in Keys : DOMAIN topic[k] = {} BY DEF Init
<1>2. \A k \in Keys : unsent[k] = {} BY DEF Init
<1>3. TopicInOrder BY <1>1 DEF TopicInOrder
<1>4. Room BY <1>1, Constants DEF Room, RowRoom, SagaRoom, Below, Init, Idle
<1>5. DueStill BY DEF DueStill, Init, Idle
<1> QED BY <1>2, <1>3, <1>4, <1>5 DEF TInv, NothingUnsent

LEMMA SaidMore ==
  ASSUME NEW t \in Seq(Events), NEW e \in Events, NEW n \in 0..2, Below(t, n), InOrder(t), Stage(e) = n + 1
  PROVE  InOrder(Append(t, e)) /\ Below(Append(t, e), n + 1)
<1> DEFINE u == Append(t, e)
<1>1. /\ DOMAIN u = 1..(Len(t) + 1) /\ DOMAIN t = 1..Len(t) /\ Len(t) \in Nat
      /\ u[Len(t) + 1] = e /\ \A i \in 1..Len(t) : u[i] = t[i] /\ t[i] \in Events
  OBVIOUS
<1>2. \A x \in Events : Stage(x) \in 1..3 BY DEF Events, Stage
<1> HIDE DEF u
<1>3. \A i \in 1..Len(t) : Stage(u[i]) <= n /\ Stage(u[i]) \in 1..3 BY <1>1, <1>2 DEF Below
<1>4. Below(u, n + 1)
  <2> SUFFICES ASSUME NEW i \in DOMAIN u PROVE Stage(u[i]) <= n + 1 BY DEF Below
  <2>1. CASE i = Len(t) + 1 BY <1>1, <2>1
  <2>2. CASE i # Len(t) + 1 BY <1>1, <1>3, <2>2
  <2> QED BY <2>1, <2>2
<1>5. InOrder(u)
  <2> SUFFICES ASSUME NEW i \in DOMAIN u, NEW j \in DOMAIN u, i < j PROVE Stage(u[i]) < Stage(u[j])
    BY DEF InOrder
  <2>1. i \in 1..Len(t) BY <1>1
  <2>2. CASE j = Len(t) + 1 BY <1>1, <1>3, <2>1, <2>2
  <2>3. CASE j # Len(t) + 1
    <3>1. j \in 1..Len(t) BY <1>1, <2>3
    <3> QED BY <1>1, <2>1, <3>1 DEF InOrder
  <2> QED BY <2>2, <2>3
<1> QED BY <1>4, <1>5 DEF u

LEMMA BelowMore ==
  ASSUME NEW t \in Seq(Events), NEW n \in 0..3, NEW m \in 0..3, n <= m, Below(t, n)
  PROVE  Below(t, m)
<1>1. \A i \in DOMAIN t : Stage(t[i]) \in 1..3 BY DEF Events, Stage
<1> QED BY <1>1 DEF Below

\* A key has one saga at most, and no pass works on it.
LEMMA OneWorker ==
  ASSUME LInv, NEW r \in Requests, req[r].pc \in SagaPcs \cup TailPcs
  PROVE  /\ \A q \in Requests : q # r /\ KeyOf[q] = KeyOf[r] => req[q].pc \notin SagaPcs \cup TailPcs
         /\ KeyOf[r] \in Keys /\ KeyOf[r] \notin loop.batch \cup {loop.cur}
<1>1. SagaOwnsRow /\ LoopAlone BY DEF LInv, IInv, Ownership, Progress
<1>2. \A q \in Requests : q # r /\ KeyOf[q] = KeyOf[r] => req[q].pc \notin SagaPcs \cup TailPcs
  BY <1>1 DEF SagaOwnsRow
<1>3. KeyOf[r] \in Keys BY Constants
<1>4. KeyOf[r] \notin loop.batch \cup {loop.cur} BY <1>1, <1>3 DEF LoopAlone, Live
<1> QED BY <1>2, <1>3, <1>4

\* Nothing is said: rows only move on, and a new speaker finds room.
LEMMA RoomFrame ==
  ASSUME LInv, TInv, [Next]_vars, UNCHANGED topic,
         \A r \in Requests :
           /\ req'[r].pc = "created" => req[r].pc = "created" \/ orders[KeyOf[r]].status = "NONE"
           /\ req'[r].pc = "tell" => req[r].pc = "tell" \/ orders[KeyOf[r]].status = "PENDING",
         loop'.pc = "tell" => \/ loop.pc = "tell" /\ loop'.cur = loop.cur
                              \/ loop'.cur \in Keys /\ orders[loop'.cur].status = "PENDING",
         loop'.pc = "announce" => \/ loop.pc = "announce" /\ loop'.cur = loop.cur
                                  \/ loop'.cur \in Keys /\ ~orders[loop'.cur].delivered
  PROVE  Room'
<1>1. /\ topic \in [Keys -> Seq(Events)] /\ orders \in [Keys -> Row]
      /\ \A k \in Keys : RowRoom(orders[k], topic[k])
  BY RowsType DEF LInv, IInv, Ownership, TypeOK, KafkaOK, TInv, Room
<1>2. \A k \in Keys : Below(topic[k], 0) => Below(topic[k], 1) BY <1>1, BelowMore
<1>3. ASSUME NEW k \in Keys PROVE RowRoom(orders'[k], topic[k])
  <2>1. CASE UNCHANGED orders BY <1>1, <2>1
  <2>2. ASSUME NEW j \in Keys, OneMove(j) PROVE RowRoom(orders'[k], topic[k])
    <3>1. CASE j # k BY <1>1, <2>2, <3>1 DEF OneMove
    <3>2. CASE j = k
      <4>1. RowMove(orders[k], orders'[k]) /\ orders'[k] \in Row /\ orders[k] \in Row
        BY <1>1, <2>2, <3>2 DEF OneMove
      <4> QED BY <1>1, <1>2, <4>1 DEF RowMove, RowRoom, Row, LInv, DeliveredPaid
    <3> QED BY <3>1, <3>2
  <2> QED BY <2>1, <2>2, StepMoves DEF LInv
<1>4. ASSUME NEW r \in Requests PROVE SagaRoom(req'[r], topic[KeyOf[r]])
  BY <1>1, Constants DEF SagaRoom, RowRoom, TInv, Room
<1>5. loop'.pc \in {"tell", "announce"} => LoopRoom(loop', topic[loop'.cur])
  BY <1>1 DEF LoopRoom, RowRoom, TInv, Room
<1> QED BY <1>3, <1>4, <1>5 DEF Room

\* The next thing is said of order k, and nobody is about to say more than that.
LEMMA SaidFrame ==
  ASSUME LInv, TInv, "outage" \notin Faults, UNCHANGED orders, NEW k \in Keys, NEW e \in Events,
         Publish(k, e), NEW n \in 0..2, Stage(e) = n + 1, Below(topic[k], n),
         orders[k].status # "NONE", orders[k].status = "PENDING" => n = 0,
         ~orders[k].delivered => n <= 1,
         \A r \in Requests : req'[r].pc \in {"created", "tell"} =>
                               req'[r].pc = req[r].pc /\ KeyOf[r] # k,
         loop'.pc \in {"tell", "announce"} => UNCHANGED loop /\ loop.cur # k
  PROVE  NothingUnsent' /\ TopicInOrder' /\ Room'
<1> DEFINE t == Append(topic[k], e)
<1>1. topic \in [Keys -> Seq(Events)] /\ topic' = [topic EXCEPT ![k] = t] /\ UNCHANGED unsent
  BY DEF Publish, LInv, IInv, Ownership, TypeOK, KafkaOK
<1>2. t \in Seq(Events) /\ InOrder(t) /\ Below(t, n + 1)
  BY <1>1, SaidMore DEF TInv, TopicInOrder, InOrder
<1> HIDE DEF t
<1>3. (n = 0 => Below(t, 1)) /\ (n <= 1 => Below(t, 2))
  <2>1. n = 0 => Below(t, 1) BY <1>2
  <2>2. n = 1 => Below(t, 2) BY <1>2
  <2>3. Below(t, 1) => Below(t, 2) BY <1>2, BelowMore
  <2> QED BY <2>1, <2>2, <2>3
<1>4. topic'[k] = t /\ \A j \in Keys : j # k => topic'[j] = topic[j] BY <1>1
<1>5. ASSUME NEW j \in Keys PROVE RowRoom(orders'[j], topic'[j])
  BY <1>3, <1>4 DEF RowRoom, TInv, Room
<1>6. ASSUME NEW r \in Requests PROVE SagaRoom(req'[r], topic'[KeyOf[r]])
  BY <1>4, Constants DEF SagaRoom, TInv, Room
<1>7. loop'.pc \in {"tell", "announce"} => LoopRoom(loop', topic'[loop'.cur])
  <2> SUFFICES ASSUME loop'.pc \in {"tell", "announce"} PROVE LoopRoom(loop', topic'[loop'.cur])
    OBVIOUS
  <2>1. loop.pc \in {"tell", "announce"} /\ loop.cur \in Keys /\ loop.cur # k
    BY LoopFacts DEF LInv, IInv
  <2> QED BY <1>4, <2>1 DEF LoopRoom, TInv, Room
<1>8. TopicInOrder'
  <2>1. ASSUME NEW j \in Keys PROVE InOrder(topic'[j])
    BY <1>2, <1>4 DEF TInv, TopicInOrder, InOrder
  <2> QED BY <2>1 DEF TopicInOrder, InOrder
<1> QED BY <1>1, <1>5, <1>6, <1>7, <1>8 DEF Room, TInv, NothingUnsent

\* Only the delivery pass delivers.
LEMMA NoNewDelivery ==
  ASSUME LInv, [Next]_vars, ~DeliverCommit, NEW k \in Keys, orders'[k].delivered
  PROVE  orders[k].delivered
<1>1. orders \in [Keys -> Row] BY RowsType DEF LInv
<1>2. ASSUME NEW r \in Requests, Lookup(r) \/ Work(r) \/ Abort(r) PROVE orders[k].delivered
  <2>1. CASE Insert(r) BY <1>1, <2>1 DEF Insert, Pending, NoRow
  <2>2. CASE SetStockReserved(r) BY <1>1, <2>2 DEF SetStockReserved, Row
  <2>3. CASE CommitFailed(r) BY <1>1, <2>3 DEF CommitFailed, Row
  <2>4. CASE CommitPaid(r) BY <1>1, <2>4 DEF CommitPaid, Row
  <2>5. \/ Insert(r) \/ SetStockReserved(r) \/ CommitFailed(r) \/ CommitPaid(r) \/ UNCHANGED orders
    BY <1>2 DEF Work, Lookup, Abort, Reject, AnnounceCreated, ReserveLine, ReserveRefused,
       ReserveLost, Reload, Charge, ChargeLost, ReleaseLine, AnnounceOutcome, ClearCart
  <2> QED BY <2>1, <2>2, <2>3, <2>4, <2>5
<1>3. CASE Reconcile \/ Delivery \/ AbortPass
  <2>1. CASE ReconcileCommit BY <1>1, <2>1 DEF ReconcileCommit, Row
  <2>2. ReconcileCommit \/ UNCHANGED orders
    BY <1>3 DEF Reconcile, Delivery, AbortPass, StartReconciliation, ReconcileRelease,
       ReconcileAnnounce, ReconcileClear, StartDelivery, AnnounceDelivered
  <2> QED BY <2>1, <2>2
<1>4. ASSUME NEW c \in late, ExecuteLate(c) \/ DropLate(c) PROVE UNCHANGED orders
  BY <1>4 DEF ExecuteLate, DropLate
<1>5. ASSUME NEW j \in Keys, NEW e \in unsent[j], FlushUnsent(j, e) \/ ExpireUnsent(j, e)
      PROVE  UNCHANGED orders
  BY <1>5 DEF FlushUnsent, ExpireUnsent
<1>6. CASE Crash BY <1>6 DEF Crash
<1>7. CASE UNCHANGED vars BY <1>7 DEF vars
<1> QED BY <1>2, <1>3, <1>4, <1>5, <1>6, <1>7 DEF Next

\* A saga is about to say something because of what it has just committed.
LEMMA NewSpeaker ==
  ASSUME LInv, NEW r \in Requests, Lookup(r) \/ Work(r) \/ Abort(r), NEW q \in Requests,
         ~AnnounceCreated(r), ~AnnounceOutcome(r)
  PROVE  /\ req'[q].pc = "created" => req[q].pc = "created" \/ orders[KeyOf[q]].status = "NONE"
         /\ req'[q].pc = "tell" => req[q].pc = "tell" \/ orders[KeyOf[q]].status = "PENDING"
<1>1. /\ ReqOK /\ req[r] \in RequestState /\ KeyOf[r] \in Keys /\ SagaPending
  BY Constants DEF LInv, IInv, Ownership, TypeOK, ReqOK, Progress
<1>2. ASSUME NEW s, req' = [req EXCEPT ![r] = s], s.pc \notin {"created", "tell"}
      PROVE  req'[q].pc \in {"created", "tell"} => req'[q].pc = req[q].pc
  BY <1>1, <1>2 DEF ReqOK
<1>3. ASSUME NEW pc, req' = Goto(r, pc)
      PROVE  IF q = r THEN req'[q].pc = pc ELSE req'[q] = req[q]
  BY <1>1, <1>3 DEF Goto, ReqOK, RequestState
<1>4. ASSUME req' = Die(r) \/ \E a : req' = Finish(r, a)
      PROVE  req'[q].pc \in {"created", "tell"} => req'[q].pc = req[q].pc
  <2>1. CASE req' = Die(r)
    <3> DEFINE s == [Fresh EXCEPT !.pc = "dead"]
    <3>1. s.pc = "dead" /\ req' = [req EXCEPT ![r] = s] BY <2>1 DEF Die, Fresh
    <3> HIDE DEF s
    <3> QED BY <1>2, <3>1
  <2>2. ASSUME NEW a, req' = Finish(r, a)
        PROVE  req'[q].pc \in {"created", "tell"} => req'[q].pc = req[q].pc
    <3> DEFINE s == [Fresh EXCEPT !.pc = "done", !.answer = a]
    <3>1. s.pc = "done" /\ req' = [req EXCEPT ![r] = s] BY <2>2 DEF Finish, Fresh
    <3> HIDE DEF s
    <3> QED BY <1>2, <3>1
  <2> QED BY <1>4, <2>1, <2>2
<1>5. ASSUME NEW n, NEW why, req' = Undo(r, n, why)
      PROVE  req'[q].pc \in {"created", "tell"} => req'[q].pc = req[q].pc
  <2> DEFINE s == [req[r] EXCEPT !.pc = IF n = 0 THEN "fail" ELSE "undo",
                                 !.line = 1, !.upto = n, !.why = why]
  <2>1. s.pc \in {"undo", "fail"} BY <1>1 DEF RequestState
  <2>2. req' = [req EXCEPT ![r] = s] BY <1>5 DEF Undo
  <2> HIDE DEF s
  <2> QED BY <1>2, <2>1, <2>2
<1>6. ASSUME NEW n, NEW pc, req' = NextLine(r, n, pc), req[r].pc \notin {"created", "tell"},
             pc \notin {"created", "tell"}
      PROVE  req'[q].pc \in {"created", "tell"} => req'[q].pc = req[q].pc
  <2> DEFINE s == IF req[r].line < n THEN [req[r] EXCEPT !.line = @ + 1]
                  ELSE [req[r] EXCEPT !.pc = pc, !.line = 1]
  <2>1. s.pc \in {req[r].pc, pc} BY <1>1 DEF RequestState
  <2>2. req' = [req EXCEPT ![r] = s] BY <1>6 DEF NextLine
  <2> HIDE DEF s
  <2> QED BY <1>2, <1>6, <2>1, <2>2
<1>7. CASE Lookup(r)
  <2>1. req' = Goto(r, "insert") \/ \E a : req' = Finish(r, a) BY <1>7 DEF Lookup
  <2> QED BY <1>3, <1>4, <2>1
<1>8. CASE Insert(r)
  <2>1. \/ req' = Goto(r, "created") /\ orders[KeyOf[r]].status = "NONE"
        \/ \E a : req' = Finish(r, a)
    BY <1>8 DEF Insert, KeyTaken
  <2> QED BY <1>3, <1>4, <2>1
<1>9. CASE SetStockReserved(r)
  <2>1. req' = Die(r) \/ req' = Goto(r, "reload") BY <1>9 DEF SetStockReserved
  <2> QED BY <1>3, <1>4, <2>1
<1>10. CASE CommitFailed(r) \/ CommitPaid(r)
  <2>1. orders[KeyOf[r]].status = "PENDING"
    BY <1>1, <1>10 DEF SagaPending, SagaPcs, CommitFailed, CommitPaid, At
  <2>2. req' = Die(r) \/ req' = Goto(r, "tell") BY <1>10 DEF CommitFailed, CommitPaid
  <2> QED BY <1>3, <1>4, <2>1, <2>2
<1>11. CASE Reload(r)
  <2> DEFINE s == [req[r] EXCEPT !.pc = "charge", !.seen = orders[KeyOf[r]]]
  <2>1. s.pc = "charge" BY <1>1 DEF RequestState
  <2>2. req' = [req EXCEPT ![r] = s] BY <1>11 DEF Reload
  <2> HIDE DEF s
  <2> QED BY <1>2, <2>1, <2>2
<1>12. CASE Charge(r)
  <2>1. req' = Goto(r, "pay") \/ req' = Undo(r, Size(r), "PAYMENT_DECLINED")
    BY <1>12 DEF Charge, AfterCharge
  <2> QED BY <1>3, <1>5, <2>1
<1>13. CASE ReserveLine(r) BY <1>6, <1>13 DEF ReserveLine, At
<1>14. CASE ReleaseLine(r) BY <1>6, <1>14 DEF ReleaseLine, At
<1>15. CASE ReserveRefused(r) \/ ReserveLost(r) \/ ChargeLost(r)
  BY <1>5, <1>15 DEF ReserveRefused, ReserveLost, ChargeLost
<1>16. CASE Reject(r) \/ ClearCart(r) \/ Abort(r) BY <1>4, <1>16 DEF Reject, ClearCart, Abort
<1> QED BY <1>7, <1>8, <1>9, <1>10, <1>11, <1>12, <1>13, <1>14, <1>15, <1>16 DEF Work

TopicTrue == NothingUnsent /\ TopicInOrder /\ Room

LEMMA SilentTopic ==
  ASSUME TInv, UNCHANGED topic, \A k \in Keys : unsent'[k] = {}, Room'
  PROVE  TopicTrue'
  BY DEF TInv, TopicTrue, NothingUnsent, TopicInOrder

LEMMA SilentSagaTopic ==
  ASSUME LInv, TInv, [Next]_vars, NEW r \in Requests, Lookup(r) \/ Work(r) \/ Abort(r),
         ~AnnounceCreated(r), ~AnnounceOutcome(r)
  PROVE  TopicTrue'
<1>1. UNCHANGED <<kafka, loop>>
  BY DEF Lookup, Work, Abort, Reject, Insert, ReserveLine, ReserveRefused, ReserveLost,
     SetStockReserved, Reload, Charge, ChargeLost, ReleaseLine, CommitFailed, CommitPaid, ClearCart
<1>2. Room' BY <1>1, NewSpeaker, RoomFrame DEF kafka
<1> QED BY <1>1, <1>2, SilentTopic DEF kafka, TInv, NothingUnsent

\* A saga says something and goes on to where it says nothing.
LEMMA SagaSays ==
  ASSUME LInv, TInv, "outage" \notin Faults, UNCHANGED <<orders, loop>>, NEW r \in Requests,
         req[r].pc \in SagaPcs \cup TailPcs, NEW s, req' = [req EXCEPT ![r] = s],
         s.pc \notin {"created", "tell"}, NEW e \in Events, Publish(KeyOf[r], e),
         NEW n \in 0..1, Stage(e) = n + 1, Below(topic[KeyOf[r]], n),
         orders[KeyOf[r]].status = "PENDING" => n = 0
  PROVE  TopicTrue'
<1> DEFINE k == KeyOf[r]
<1>1. /\ k \in Keys /\ k # loop.cur /\ ReqOK /\ n \in 0..2
      /\ \A q \in Requests : q # r /\ KeyOf[q] = k => req[q].pc \notin SagaPcs \cup TailPcs
  BY OneWorker DEF LInv, IInv, Ownership, TypeOK
<1>2. orders[k].status # "NONE" BY SagaFacts DEF LInv, IInv, Ownership, RowsOwned
<1>3. \A q \in Requests : req'[q].pc \in {"created", "tell"} => req'[q].pc = req[q].pc /\ KeyOf[q] # k
  <2> SUFFICES ASSUME NEW q \in Requests, req'[q].pc \in {"created", "tell"}
               PROVE  req'[q].pc = req[q].pc /\ KeyOf[q] # k
    OBVIOUS
  <2>1. q # r BY <1>1 DEF ReqOK
  <2>2. req'[q] = req[q] BY <1>1, <2>1 DEF ReqOK
  <2> QED BY <1>1, <2>1, <2>2 DEF SagaPcs, TailPcs
<1>4. n <= 1 OBVIOUS
<1> QED BY <1>1, <1>2, <1>3, <1>4, SaidFrame DEF TopicTrue

LEMMA AnnounceCreatedTopic ==
  ASSUME LInv, TInv, "outage" \notin Faults, NEW r \in Requests, AnnounceCreated(r)
  PROVE  TopicTrue'
<1> DEFINE s == [req[r] EXCEPT !.pc = "reserve", !.line = 1, !.seen = orders[KeyOf[r]]]
<1>1. /\ req[r] \in RequestState /\ req[r].pc = "created" /\ UNCHANGED <<orders, loop>>
      /\ req' = [req EXCEPT ![r] = s] /\ Publish(KeyOf[r], "created")
  BY DEF LInv, IInv, Ownership, TypeOK, ReqOK, AnnounceCreated, At
<1>2. s.pc \notin {"created", "tell"} BY <1>1 DEF RequestState
<1> HIDE DEF s
<1>3. Below(topic[KeyOf[r]], 0) BY <1>1 DEF TInv, Room, SagaRoom
<1>4. /\ "created" \in Events /\ Stage("created") = 0 + 1 /\ req[r].pc \in SagaPcs \cup TailPcs
      /\ 0 \in 0..1
  BY <1>1 DEF Events, Stage, SagaPcs
<1> QED BY <1>1, <1>2, <1>3, <1>4, SagaSays

LEMMA AnnounceOutcomeTopic ==
  ASSUME LInv, OInv, TInv, "outage" \notin Faults, NEW r \in Requests, AnnounceOutcome(r)
  PROVE  TopicTrue'
<1> DEFINE s == [req[r] EXCEPT !.pc = "clear", !.seen = orders[KeyOf[r]]]
<1>1. /\ req[r] \in RequestState /\ req[r].pc = "tell" /\ UNCHANGED <<orders, loop>>
      /\ req' = [req EXCEPT ![r] = s] /\ Publish(KeyOf[r], OutcomeEvent(r))
  BY DEF LInv, IInv, Ownership, TypeOK, ReqOK, AnnounceOutcome, At
<1>2. s.pc \notin {"created", "tell"} BY <1>1 DEF RequestState
<1> HIDE DEF s
<1>3. Below(topic[KeyOf[r]], 1) BY <1>1 DEF TInv, Room, SagaRoom
<1>4. /\ OutcomeEvent(r) \in Events /\ Stage(OutcomeEvent(r)) = 1 + 1
      /\ req[r].pc \in SagaPcs \cup TailPcs /\ 1 \in 0..1
  BY <1>1 DEF Events, Stage, TailPcs, OutcomeEvent
<1>5. orders[KeyOf[r]].status # "PENDING" BY <1>1 DEF OInv, SagasTrue, LocalTrue
<1> QED BY <1>1, <1>2, <1>3, <1>4, <1>5, SagaSays

LEMMA PassSays ==
  ASSUME LInv, OInv, TInv, "outage" \notin Faults, ReconcileAnnounce \/ AnnounceDelivered
  PROVE  TopicTrue'
<1> DEFINE k == loop.cur
<1>1. k \in Keys /\ loop \in LoopState /\ UNCHANGED <<req, orders>>
  BY LoopFacts DEF LInv, IInv, ReconcileAnnounce, AnnounceDelivered
<1>2. \A q \in Requests : req'[q].pc \in {"created", "tell"} => req'[q].pc = req[q].pc /\ KeyOf[q] # k
  BY <1>1, OneWorker DEF SagaPcs, TailPcs
<1>3. CASE ReconcileAnnounce
  <2>1. /\ loop'.pc = "clear" /\ Publish(k, "failed") /\ orders[k].status = "FAILED"
        /\ Below(topic[k], 1)
    BY <1>1, <1>3 DEF ReconcileAnnounce, LoopGoto, LoopState, OInv, PassTrue, TInv, Room, LoopRoom
  <2>2. "failed" \in Events /\ Stage("failed") = 1 + 1 /\ 1 \in 0..2 BY DEF Events, Stage
  <2> QED BY <1>1, <1>2, <2>1, <2>2, SaidFrame DEF TopicTrue
<1>4. CASE AnnounceDelivered
  <2>1. /\ loop'.pc \in {"idle", "deliver"} /\ Publish(k, "delivered") /\ orders[k].status = "PAID"
        /\ orders[k].delivered /\ Below(topic[k], 2)
    BY <1>4 DEF AnnounceDelivered, Begin, Idle, OInv, PassTrue, TInv, Room, LoopRoom
  <2>2. "delivered" \in Events /\ Stage("delivered") = 2 + 1 /\ 2 \in 0..2 BY DEF Events, Stage
  <2> QED BY <1>1, <1>2, <2>1, <2>2, SaidFrame DEF TopicTrue
<1> QED BY <1>3, <1>4

LEMMA SilentPassTopic ==
  ASSUME LInv, TInv, [Next]_vars, Reconcile \/ Delivery \/ AbortPass,
         ~ReconcileAnnounce, ~AnnounceDelivered
  PROVE  TopicTrue'
<1>1. UNCHANGED <<req, topic, unsent>>
  BY DEF Reconcile, Delivery, AbortPass, StartReconciliation, ReconcileRelease, ReconcileCommit,
     ReconcileClear, StartDelivery, DeliverCommit, kafka
<1>2. loop'.pc = "tell" => loop'.cur \in Keys /\ orders[loop'.cur].status = "PENDING"
  <2>1. CASE ReconcileCommit
    <3>1. loop' = Idle \/ loop' = [loop EXCEPT !.pc = "tell"] BY <2>1 DEF ReconcileCommit, LoopGoto
    <3>2. loop \in LoopState /\ loop.cur \in Keys /\ orders[loop.cur].status = "PENDING"
      BY <2>1, LoopFacts DEF ReconcileCommit, LInv, IInv, Progress, LoopAlone
    <3>3. loop' = Idle => loop'.pc = "idle" BY DEF Idle
    <3>4. loop' # Idle => loop'.cur = loop.cur BY <3>1, <3>2 DEF LoopState
    <3> QED BY <3>2, <3>3, <3>4
  <2>2. CASE ReconcileRelease
    <3>1. loop'.pc # "tell" BY <2>2 DEF ReconcileRelease, LoopGoto, LInv, IInv, Ownership, TypeOK, LoopOK, LoopState
    <3> QED BY <3>1
  <2>3. CASE DeliverCommit
    <3>1. loop'.pc # "tell" BY <2>3 DEF DeliverCommit, LoopGoto, LInv, IInv, Ownership, TypeOK, LoopOK, LoopState, Idle
    <3> QED BY <3>1
  <2>4. CASE StartReconciliation \/ ReconcileClear \/ StartDelivery \/ AbortPass
    <3>1. loop'.pc # "tell"
      BY <2>4 DEF StartReconciliation, ReconcileClear, StartDelivery, AbortPass, BeginRec, Begin, Idle
    <3> QED BY <3>1
  <2> QED BY <2>1, <2>2, <2>3, <2>4 DEF Reconcile, Delivery
<1>3. loop'.pc = "announce" => loop'.cur \in Keys /\ ~orders[loop'.cur].delivered
  <2>1. CASE DeliverCommit
    <3>1. loop' = Idle \/ loop' = [loop EXCEPT !.pc = "announce"] BY <2>1 DEF DeliverCommit, LoopGoto
    <3>2. loop \in LoopState /\ loop.cur \in Keys /\ ~orders[loop.cur].delivered
      BY <2>1, LoopFacts DEF DeliverCommit, LInv, IInv, TInv, DueStill
    <3>3. loop' = Idle => loop'.pc = "idle" BY DEF Idle
    <3>4. loop' # Idle => loop'.cur = loop.cur BY <3>1, <3>2 DEF LoopState
    <3> QED BY <3>2, <3>3, <3>4
  <2>2. CASE ReconcileRelease \/ ReconcileCommit
    <3>1. loop'.pc # "announce"
      BY <2>2 DEF ReconcileRelease, ReconcileCommit, LoopGoto, LInv, IInv, Ownership, TypeOK, LoopOK, LoopState, Idle
    <3> QED BY <3>1
  <2>3. CASE StartReconciliation \/ ReconcileClear \/ StartDelivery \/ AbortPass
    <3>1. loop'.pc # "announce"
      BY <2>3 DEF StartReconciliation, ReconcileClear, StartDelivery, AbortPass, BeginRec, Begin, Idle
    <3> QED BY <3>1
  <2> QED BY <2>1, <2>2, <2>3 DEF Reconcile, Delivery
<1>4. Room' BY <1>1, <1>2, <1>3, RoomFrame
<1> QED BY <1>1, <1>4, SilentTopic DEF TInv, NothingUnsent

LEMMA TopicStep ==
  ASSUME LInv, OInv, TInv, "outage" \notin Faults, [Next]_vars
  PROVE  TopicTrue'
<1>1. ASSUME NEW r \in Requests, Lookup(r) \/ Work(r) \/ Abort(r) PROVE TopicTrue'
  BY <1>1, AnnounceCreatedTopic, AnnounceOutcomeTopic, SilentSagaTopic
<1>2. CASE Reconcile \/ Delivery \/ AbortPass BY <1>2, PassSays, SilentPassTopic
<1>3. CASE UNCHANGED <<req, loop, kafka>>
  <2>1. Room' BY <1>3, RoomFrame DEF kafka
  <2> QED BY <1>3, <2>1, SilentTopic DEF kafka, TInv, NothingUnsent
<1>4. ASSUME NEW c \in late, ExecuteLate(c) \/ DropLate(c) PROVE UNCHANGED <<req, loop, kafka>>
  BY <1>4 DEF ExecuteLate, DropLate
<1>5. ASSUME NEW k \in Keys, NEW e \in unsent[k] PROVE FALSE BY <1>5 DEF TInv, NothingUnsent
<1>6. CASE Crash
  <2>1. \A r \in Requests : req'[r] = req[r] \/ req'[r].pc = "dead" BY <1>6 DEF Crash, Fresh
  <2>2. loop'.pc = "idle" /\ UNCHANGED topic /\ \A k \in Keys : unsent'[k] = {}
    BY <1>6 DEF Crash, Idle
  <2>3. Room' BY <2>1, <2>2, RoomFrame
  <2> QED BY <2>2, <2>3, SilentTopic
<1>7. CASE UNCHANGED vars BY <1>3, <1>7 DEF vars
<1> QED BY <1>1, <1>2, <1>3, <1>4, <1>5, <1>6, <1>7 DEF Next

LEMMA DueStep == ASSUME LInv, TInv, [Next]_vars PROVE DueStill'
<1>1. loop \in LoopState /\ Ownership /\ DueStill /\ loop.cur \notin loop.batch
  BY DEF LInv, IInv, Ownership, TypeOK, LoopOK, TInv, Progress, LoopAlone
<1>2. ASSUME loop'.pc \notin {"deliver", "announce"} PROVE DueStill' BY <1>2 DEF DueStill
<1>3. CASE UNCHANGED loop
  <2>1. CASE loop.pc \in {"deliver", "announce"}
    <3>1. loop.cur \in Keys /\ loop.batch \in SUBSET Keys BY <1>1, <2>1, LoopFacts
    <3>2. ~DeliverCommit BY <1>1, <1>3 DEF DeliverCommit, LoopGoto, LoopState, Idle
    <3> QED BY <1>1, <1>3, <3>1, <3>2, NoNewDelivery DEF DueStill
  <2>2. CASE loop.pc \notin {"deliver", "announce"} BY <1>2, <1>3, <2>2
  <2> QED BY <2>1, <2>2
<1>4. CASE StartReconciliation \/ ReconcileClear \/ AbortPass \/ Crash
  <2>1. loop'.pc \notin {"deliver", "announce"}
    BY <1>4 DEF StartReconciliation, ReconcileClear, AbortPass, Crash, BeginRec, Begin, Idle
  <2> QED BY <1>2, <2>1
<1>5. CASE ReconcileRelease \/ ReconcileCommit \/ ReconcileAnnounce
  <2>1. loop'.pc \notin {"deliver", "announce"}
    BY <1>1, <1>5 DEF ReconcileRelease, ReconcileCommit, ReconcileAnnounce, LoopGoto, LoopState, Idle
  <2> QED BY <1>2, <2>1
<1>6. CASE StartDelivery
  <2>1. PICK k \in Due : loop' = Begin(k, Due \ {k}, "deliver") BY <1>6 DEF StartDelivery
  <2>2. loop'.cur = k /\ loop'.batch \subseteq Due /\ UNCHANGED orders
    BY <1>6, <2>1 DEF StartDelivery, Begin
  <2> QED BY <2>2 DEF DueStill, Due
<1>7. CASE DeliverCommit
  <2>1. CASE loop' = Idle BY <1>2, <2>1 DEF Idle
  <2>2. CASE loop' # Idle
    <3> DEFINE row == [orders[loop.cur] EXCEPT !.delivered = TRUE]
    <3>1. orders' = [orders EXCEPT ![loop.cur] = row] /\ loop' = [loop EXCEPT !.pc = "announce"]
      BY <1>7, <2>2 DEF DeliverCommit, LoopGoto
    <3> HIDE DEF row
    <3>2. loop'.pc = "announce" /\ loop'.batch = loop.batch BY <1>1, <3>1 DEF LoopState
    <3>3. loop.batch \in SUBSET Keys /\ orders \in [Keys -> Row]
      BY <1>1, <1>7, LoopFacts, RowsType DEF DeliverCommit, LInv
    <3>4. \A k \in loop.batch : orders'[k] = orders[k] BY <1>1, <3>1, <3>3
    <3>5. \A k \in loop.batch : ~orders[k].delivered BY <1>1, <1>7 DEF DueStill, DeliverCommit
    <3> QED BY <3>2, <3>4, <3>5 DEF DueStill
  <2> QED BY <2>1, <2>2
<1>8. CASE AnnounceDelivered
  <2>1. \A k \in loop.batch : ~orders'[k].delivered BY <1>1, <1>8 DEF DueStill, AnnounceDelivered
  <2>2. CASE loop' = Idle BY <1>2, <2>2 DEF Idle
  <2>3. ASSUME NEW k \in loop.batch, loop' = Begin(k, loop.batch \ {k}, "deliver") PROVE DueStill'
    <3>1. loop'.cur = k /\ loop'.batch = loop.batch \ {k} BY <2>3 DEF Begin
    <3> QED BY <2>1, <3>1 DEF DueStill
  <2> QED BY <1>8, <2>2, <2>3 DEF AnnounceDelivered
<1>9. \/ UNCHANGED loop \/ Reconcile \/ Delivery \/ AbortPass \/ Crash
  BY DEF Next, Lookup, Work, Abort, Reject, Insert, AnnounceCreated, ReserveLine, ReserveRefused,
     ReserveLost, SetStockReserved, Reload, Charge, ChargeLost, ReleaseLine, CommitFailed, CommitPaid,
     AnnounceOutcome, ClearCart, ExecuteLate, DropLate, FlushUnsent, ExpireUnsent, vars
<1> QED BY <1>3, <1>4, <1>5, <1>6, <1>7, <1>8, <1>9 DEF Reconcile, Delivery

\* As long as the broker acknowledges in time, an order's events follow one
\* another as created, outcome, delivered, each at most once: crashes, exceptions
\* and late calls may leave a gap, and neither a pass nor a retry says anything
\* twice (orders.py:105, 147, 180, 196, delivery_simulator.py:40-42).
THEOREM EventsFollow == ASSUME {"slow", "outage"} \cap Faults = {} PROVE Spec => []TopicInOrder
<1>1. "slow" \notin Faults /\ "outage" \notin Faults OBVIOUS
<1>2. Init => DeliveredPaid BY DEF Init, NoRow, DeliveredPaid
<1>3. IInv /\ DeliveredPaid /\ [Next]_vars => DeliveredPaid' BY DeliveredPaidStep DEF LInv
<1>4. IInv /\ DeliveredPaid /\ OInv /\ TInv /\ [Next]_vars => TInv'
  <2> SUFFICES ASSUME IInv, DeliveredPaid, OInv, TInv, [Next]_vars PROVE TInv' OBVIOUS
  <2>1. LInv BY DEF LInv
  <2>2. TopicTrue' /\ DueStill' BY <1>1, <2>1, TopicStep, DueStep
  <2> QED BY <2>2 DEF TInv, TopicTrue
<1>5. TInv => TopicInOrder BY DEF TInv
<1> QED BY <1>1, <1>2, <1>3, <1>4, <1>5, TInvInit, InductiveInvariant, OutcomeInvariant, PTL DEF Spec
==============================================================================
