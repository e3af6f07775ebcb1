------------------------------- MODULE Checkout ------------------------------
(***************************************************************************)
(* order-service: the checkout saga of POST /orders (routers/orders.py),   *)
(* the reconciliation and delivery passes that share its event loop        *)
(* (reconciliation.py, delivery_simulator.py), its outbound calls          *)
(* (clients.py) and its Kafka producer (kafka_producer.py), over the stock *)
(* ledger catalog-service promises and the charge-once register            *)
(* payment-service promises.                                               *)
(*                                                                         *)
(* A request is a thread of the server's pool; each of its actions is the  *)
(* code between two points where another thread, another service or the    *)
(* event loop can act: a commit, an outbound call or a publish.  The two   *)
(* passes run synchronously on one event loop, so they interleave with     *)
(* requests and never with each other.                                     *)
(***************************************************************************)
EXTENDS Integers, Sequences, FiniteSetsExt

CONSTANTS
  Requests,          \* POST /orders calls that pass the header check
  Keys,              \* idempotency keys; the order of key k is named k
  Products,
  KeyOf,             \* the Idempotency-Key of each request
  Lines,             \* the items each request resolved: a sequence of [prod, qty]
  MaxLine,           \* bound on the number of items of a request
  InitStock,
  Faults,            \* which of "timeout", "crash", "abort", "outage", "slow" can happen
  MaxMishaps,        \* bound on the number of crashes and aborts
  SnapshotIsolation, \* innodb_snapshot_isolation of the orders database
  NoRequest, NoKey

LineNos == 1..MaxLine

ASSUME KeyOfAssumption == KeyOf \in [Requests -> Keys]
ASSUME KeysAssumption == IsFiniteSet(Keys)   \* VARCHAR(64)
ASSUME LinesAssumption ==
  /\ MaxLine \in Nat
  /\ Lines \in [Requests -> Seq([prod : Products, qty : Nat \ {0}])]
  /\ \A r \in Requests : Len(Lines[r]) \in LineNos
ASSUME StockAssumption == InitStock \in [Products -> Nat]
ASSUME FaultsAssumption == /\ Faults \subseteq {"timeout", "crash", "abort", "outage", "slow"}
                           /\ MaxMishaps \in Nat
                           /\ SnapshotIsolation \in BOOLEAN
ASSUME NoneAssumption == NoRequest \notin Requests /\ NoKey \notin Keys

VARIABLES
  req,      \* program counter and locals of each request
  orders,   \* the orders table: one row per key, with its items (those of request "by")
  loop,     \* the event loop: the pass it is running, if any
  stock,    \* catalog-service: products.stock
  pay,      \* payment-service: what each key settled to
  held,     \* history: reserves minus releases executed for each line of each order
  cleared,  \* history: orders whose items were removed from the cart
  late,     \* calls whose caller gave up and which may still be executed
  topic,    \* order-events, per order (the partition key is the order id)
  unsent,   \* messages librdkafka still holds, per order
  mishaps   \* crashes and aborts so far

world   == <<stock, pay, held, cleared>>
kafka   == <<topic, unsent>>
vars    == <<req, orders, loop, world, late, kafka, mishaps>>

Ledger  == INSTANCE StockLedger WITH Quantities <- Nat \ {0}
Payment == INSTANCE ChargeOnce WITH result <- pay

-----------------------------------------------------------------------------
(* Rows, requests and calls *)

Statuses == {"NONE", "PENDING", "PAID", "FAILED"}
Reasons  == {"none", "INSUFFICIENT_STOCK", "TRANSPORT_ERROR", "PAYMENT_DECLINED",
             "RECONCILIATION_TIMEOUT"}
Events   == {"created", "paid", "failed", "delivered"}

Row   == [status : Statuses, flag : BOOLEAN, delivered : BOOLEAN, reason : Reasons,
          by : Requests \cup {NoRequest}]
NoRow == [status |-> "NONE", flag |-> FALSE, delivered |-> FALSE, reason |-> "none",
          by |-> NoRequest]

FrontPcs == {"idle", "insert"}                       \* no row of its own yet
SagaPcs  == {"created", "reserve", "undo", "fail", "flag", "reload", "charge", "pay"}
TailPcs  == {"tell", "clear"}                        \* the outcome is committed
EndPcs   == {"done", "dead"}
Pcs      == FrontPcs \cup SagaPcs \cup TailPcs \cup EndPcs

RequestState == [pc : Pcs, line : 0..MaxLine, upto : 0..MaxLine, why : Reasons, seen : Row,
                 answer : Statuses \cup {"error"}]
Fresh == [pc |-> "idle", line |-> 0, upto |-> 0, why |-> "none", seen |-> NoRow,
          answer |-> "NONE"]

LoopState == [pc : {"idle", "release", "fail", "tell", "clear", "deliver", "announce"},
              batch : SUBSET Keys, cur : Keys \cup {NoKey}, seen : Row, line : 0..MaxLine]
Idle      == [pc |-> "idle", batch |-> {}, cur |-> NoKey, seen |-> NoRow, line |-> 0]

Size(r)    == Len(Lines[r])
Item(k, l) == Lines[orders[k].by][l]

\* A call is identified by its caller and by the mishaps before it: no caller
\* repeats a call unless a crash or an abort made it start over.
Calls == [op : {"reserve", "release", "charge", "clear"}, key : Keys, line : 0..MaxLine,
          from : Requests \cup {NoRequest}, at : 0..MaxMishaps]
Call(op, k, l, from) == [op |-> op, key |-> k, line |-> l, from |-> from, at |-> mishaps]

Init ==
  /\ req = [r \in Requests |-> Fresh]
  /\ orders = [k \in Keys |-> NoRow]
  /\ loop = Idle
  /\ Ledger!Init
  /\ Payment!Init
  /\ held = [k \in Keys |-> [l \in LineNos |-> 0]]
  /\ cleared = {}
  /\ late = {}
  /\ topic = [k \in Keys |-> << >>]
  /\ unsent = [k \in Keys |-> {}]
  /\ mishaps = 0

-----------------------------------------------------------------------------
(* What the other services do with a call *)

DoReserve(k, l) == /\ Ledger!Reserve(Item(k, l).prod, Item(k, l).qty)
                   /\ held' = [held EXCEPT ![k][l] = @ + 1]
                   /\ UNCHANGED <<pay, cleared>>
DoRelease(k, l) == /\ Ledger!Release(Item(k, l).prod, Item(k, l).qty)
                   /\ held' = [held EXCEPT ![k][l] = @ - 1]
                   /\ UNCHANGED <<pay, cleared>>
DoCharge(k, o)  == /\ Payment!Charge(k, o)
                   /\ UNCHANGED <<stock, held, cleared>>
DoClear(k)      == /\ cleared' = cleared \cup {k}
                   /\ UNCHANGED <<stock, pay, held>>

\* The caller's 3 s run out, or it gets an answer it does not understand: the
\* call may have been executed, may be executed later, or never.
Lose(call) == /\ "timeout" \in Faults
              /\ late' = late \cup {call}
              /\ UNCHANGED world

\* Best effort: release_stock and clear_cart_items ignore how the call ended.
ReleaseStock(k, l, from) == \/ DoRelease(k, l) /\ UNCHANGED late
                            \/ Lose(Call("release", k, l, from))
ClearCartItems(k, from)  == \/ DoClear(k) /\ UNCHANGED late
                            \/ Lose(Call("clear", k, 0, from))

\* produce and flush(5): acknowledged in time, or left in the producer's queue.
Publish(k, e) == \/ /\ topic' = [topic EXCEPT ![k] = Append(@, e)]
                    /\ UNCHANGED unsent
                 \/ /\ "outage" \in Faults
                    /\ unsent' = [unsent EXCEPT ![k] = @ \cup {e}]
                    /\ UNCHANGED topic

\* A commit of changes to row k by a session that read the row as "seen".
Conflict(k, seen) == SnapshotIsolation /\ orders[k] # seen

-----------------------------------------------------------------------------
(* POST /orders *)

At(r, pc)           == req[r].pc = pc
Finish(r, answer)   == [req EXCEPT ![r] = [Fresh EXCEPT !.pc = "done", !.answer = answer]]
Die(r)              == [req EXCEPT ![r] = [Fresh EXCEPT !.pc = "dead"]]
Goto(r, pc)         == [req EXCEPT ![r].pc = pc]
NextLine(r, n, pc)  == IF req[r].line < n THEN [req EXCEPT ![r].line = @ + 1]
                       ELSE [req EXCEPT ![r] = [@ EXCEPT !.pc = pc, !.line = 1]]
\* Mutant: with nothing to release, the FAILED status is not committed.
UndoUncommitted(r, n, why) ==
  [req EXCEPT ![r] = [@ EXCEPT !.pc = IF n = 0 THEN "tell" ELSE "undo",
                               !.line = 1, !.upto = n, !.why = why]]

\* Compensate the first n lines, then fail the order for the given reason.
Undo(r, n, why)     == [req EXCEPT ![r] = [@ EXCEPT !.pc = IF n = 0 THEN "fail" ELSE "undo",
                                                    !.line = 1, !.upto = n, !.why = why]]

\* The row a request inserts.
Pending(r) == [NoRow EXCEPT !.status = "PENDING", !.by = r]

\* The lookup that starts a request: an existing order is replayed as it is.
Lookup(r) ==
  /\ At(r, "idle")
  /\ req' = LET row == orders[KeyOf[r]] IN
            IF row.status # "NONE" THEN Finish(r, row.status) ELSE Goto(r, "insert")
  /\ UNCHANGED <<orders, loop, world, late, kafka, mishaps>>

\* Empty cart, unknown product, catalog or cart unavailable: nothing persisted.
Reject(r) ==
  /\ At(r, "insert")
  /\ req' = Finish(r, "error")
  /\ UNCHANGED <<orders, loop, world, late, kafka, mishaps>>

\* The unique constraint on idempotency_key admits one insert; whoever loses
\* the race rolls back, reads again and replays.
KeyTaken(k) == orders[k].status # "NONE"
Insert(r) ==
  LET k == KeyOf[r] IN
  /\ At(r, "insert")
  /\ IF KeyTaken(k)
       THEN req' = Finish(r, orders[k].status) /\ UNCHANGED orders
       ELSE /\ orders' = [orders EXCEPT ![k] = Pending(r)]
            /\ req' = Goto(r, "created")
  /\ UNCHANGED <<loop, world, late, kafka, mishaps>>

AnnounceCreated(r) ==
  /\ At(r, "created")
  /\ Publish(KeyOf[r], "created")
  /\ req' = [req EXCEPT ![r] = [@ EXCEPT !.pc = "reserve", !.line = 1,
                                         !.seen = orders[KeyOf[r]]]]
  /\ UNCHANGED <<orders, loop, world, late, mishaps>>

ReserveLine(r) ==
  /\ At(r, "reserve")
  /\ DoReserve(KeyOf[r], req[r].line)
  /\ req' = NextLine(r, Size(r), "flag")
  /\ UNCHANGED <<orders, loop, late, kafka, mishaps>>

ReserveRefused(r) ==
  LET item == Item(KeyOf[r], req[r].line) IN
  /\ At(r, "reserve")
  /\ Ledger!Refuse(item.prod, item.qty)
  /\ req' = Undo(r, req[r].line - 1, "INSUFFICIENT_STOCK")
  /\ UNCHANGED <<orders, loop, pay, held, cleared, late, kafka, mishaps>>

\* Mutant: the line whose reserve got no answer is released as well.
ReserveLostUndoAll(r) ==
  /\ At(r, "reserve")
  /\ Lose(Call("reserve", KeyOf[r], req[r].line, r))
  /\ req' = Undo(r, req[r].line, "TRANSPORT_ERROR")
  /\ UNCHANGED <<orders, loop, kafka, mishaps>>

ReserveLost(r) ==
  /\ At(r, "reserve")
  /\ Lose(Call("reserve", KeyOf[r], req[r].line, r))
  /\ req' = Undo(r, req[r].line - 1, "TRANSPORT_ERROR")
  /\ UNCHANGED <<orders, loop, kafka, mishaps>>

\* The commit of stock_reserved.
SetStockReserved(r) ==
  LET k == KeyOf[r] IN
  /\ At(r, "flag")
  /\ IF Conflict(k, req[r].seen)
       THEN req' = Die(r) /\ UNCHANGED orders
       ELSE orders' = [orders EXCEPT ![k].flag = TRUE] /\ req' = Goto(r, "reload")
  /\ UNCHANGED <<loop, world, late, kafka, mishaps>>

\* Reading order.id for the charge reloads the row the commit expired.
Reload(r) ==
  /\ At(r, "reload")
  /\ req' = [req EXCEPT ![r] = [@ EXCEPT !.pc = "charge", !.seen = orders[KeyOf[r]]]]
  /\ UNCHANGED <<orders, loop, world, late, kafka, mishaps>>

\* Mutants: the charged field is not looked at; a declined order keeps its last
\* line.
AfterChargeUnread(r, o)   == Goto(r, "pay")
AfterChargeShort(r, o)    == IF o = "charged" THEN Goto(r, "pay")
                             ELSE Undo(r, Size(r) - 1, "PAYMENT_DECLINED")
AfterCharge(r, o) == IF o = "charged" THEN Goto(r, "pay")
                     ELSE Undo(r, Size(r), "PAYMENT_DECLINED")
Charge(r) ==
  /\ At(r, "charge")
  /\ \E o \in Payment!Outcomes : DoCharge(KeyOf[r], o) /\ req' = AfterCharge(r, o)
  /\ UNCHANGED <<orders, loop, late, kafka, mishaps>>

ChargeLost(r) ==
  /\ At(r, "charge")
  /\ Lose(Call("charge", KeyOf[r], 0, r))
  /\ req' = Undo(r, Size(r), "TRANSPORT_ERROR")
  /\ UNCHANGED <<orders, loop, kafka, mishaps>>

ReleaseLine(r) ==
  /\ At(r, "undo")
  /\ ReleaseStock(KeyOf[r], req[r].line, r)
  /\ req' = NextLine(r, req[r].upto, "fail")
  /\ UNCHANGED <<orders, loop, kafka, mishaps>>

\* The commits of the two outcomes.  Only the columns named are written.
CommitFailed(r) ==
  LET k == KeyOf[r] IN
  /\ At(r, "fail")
  /\ IF Conflict(k, req[r].seen)
       THEN req' = Die(r) /\ UNCHANGED orders
       ELSE /\ orders' = [orders EXCEPT ![k] = [@ EXCEPT !.status = "FAILED", !.reason = req[r].why]]
            /\ req' = Goto(r, "tell")
  /\ UNCHANGED <<loop, world, late, kafka, mishaps>>

\* Mutant: the paid outcome is not announced.
CommitPaidSilent(r) ==
  LET k == KeyOf[r] IN
  /\ At(r, "pay")
  /\ orders' = [orders EXCEPT ![k].status = "PAID"] /\ req' = Goto(r, "clear")
  /\ UNCHANGED <<loop, world, late, kafka, mishaps>>

CommitPaid(r) ==
  LET k == KeyOf[r] IN
  /\ At(r, "pay")
  /\ IF Conflict(k, req[r].seen)
       THEN req' = Die(r) /\ UNCHANGED orders
       ELSE orders' = [orders EXCEPT ![k].status = "PAID"] /\ req' = Goto(r, "tell")
  /\ UNCHANGED <<loop, world, late, kafka, mishaps>>

\* Mutant: every outcome is announced as paid.
OutcomeAlwaysPaid(r) == "paid"
OutcomeEvent(r) == IF req[r].why = "none" THEN "paid" ELSE "failed"
AnnounceOutcome(r) ==
  /\ At(r, "tell")
  /\ Publish(KeyOf[r], OutcomeEvent(r))
  /\ req' = [req EXCEPT ![r] = [@ EXCEPT !.pc = "clear", !.seen = orders[KeyOf[r]]]]
  /\ UNCHANGED <<orders, loop, world, late, mishaps>>

ClearCart(r) ==
  /\ At(r, "clear")
  /\ ClearCartItems(KeyOf[r], r)
  /\ req' = Finish(r, req[r].seen.status)
  /\ UNCHANGED <<orders, loop, kafka, mishaps>>

\* A database or broker exception between two steps: the client gets a 500.
Abort(r) ==
  /\ "abort" \in Faults /\ mishaps < MaxMishaps
  /\ req[r].pc \in {"insert", "created", "flag", "reload", "fail", "pay", "tell"}
  /\ req' = Die(r)
  /\ mishaps' = mishaps + 1
  /\ UNCHANGED <<orders, loop, world, late, kafka>>

Work(r) ==
  \/ Reject(r) \/ Insert(r) \/ AnnounceCreated(r)
  \/ ReserveLine(r) \/ ReserveRefused(r) \/ ReserveLost(r) \/ SetStockReserved(r)
  \/ Reload(r) \/ Charge(r) \/ ChargeLost(r) \/ ReleaseLine(r)
  \/ CommitFailed(r) \/ CommitPaid(r) \/ AnnounceOutcome(r) \/ ClearCart(r)

-----------------------------------------------------------------------------
(* The event loop *)

Live(k) == \E r \in Requests : KeyOf[r] = k /\ req[r].pc \in SagaPcs \cup TailPcs

\* Mutant: the queries have no cutoff.
NoCutoff(k) == TRUE

\* The cutoffs on created_at (60 s) and updated_at (30 s) are longer than a
\* request takes, unless "slow" says that one may take longer.
Overdue(k) == "slow" \in Faults \/ ~Live(k)

\* Mutants: the query only takes orders that have stock to release; delivered
\* orders, or those not paid, are due.
StuckFlagged   == {k \in Keys : /\ orders[k].status = "PENDING" /\ orders[k].flag
                                /\ Overdue(k)}
DueAgain       == {k \in Keys : orders[k].status = "PAID" /\ Overdue(k)}
DueAnyStatus   == {k \in Keys : /\ orders[k].status # "NONE" /\ ~orders[k].delivered
                                /\ Overdue(k)}

Stuck == {k \in Keys : orders[k].status = "PENDING" /\ Overdue(k)}
Due   == {k \in Keys : /\ orders[k].status = "PAID"
                       /\ ~orders[k].delivered
                       /\ Overdue(k)}

\* Start on order k: its row is read now (the commit before expired it).
Begin(k, rest, pc) == [pc |-> pc, batch |-> rest, cur |-> k, seen |-> orders[k], line |-> 1]
BeginRec(k, rest)  == Begin(k, rest, IF orders[k].flag THEN "release" ELSE "fail")
LoopGoto(pc)       == [loop EXCEPT !.pc = pc]

StartReconciliation ==
  /\ loop.pc = "idle"
  /\ \E k \in Stuck : loop' = BeginRec(k, Stuck \ {k})
  /\ UNCHANGED <<req, orders, world, late, kafka, mishaps>>

ReconcileRelease ==
  /\ loop.pc = "release"
  /\ ReleaseStock(loop.cur, loop.line, NoRequest)
  /\ loop' = IF loop.line < Size(orders[loop.cur].by) THEN [loop EXCEPT !.line = @ + 1]
             ELSE LoopGoto("fail")
  /\ UNCHANGED <<req, orders, kafka, mishaps>>

\* The status is not read again before it is overwritten.
ReconcileCommit ==
  LET k == loop.cur IN
  /\ loop.pc = "fail"
  /\ IF Conflict(k, loop.seen)
       THEN loop' = Idle /\ UNCHANGED orders
       ELSE /\ orders' = [orders EXCEPT ![k] = [@ EXCEPT !.status = "FAILED",
                                                         !.reason = "RECONCILIATION_TIMEOUT"]]
            /\ loop' = LoopGoto("tell")
  /\ UNCHANGED <<req, world, late, kafka, mishaps>>

ReconcileAnnounce ==
  /\ loop.pc = "tell"
  /\ Publish(loop.cur, "failed")
  /\ loop' = LoopGoto("clear")
  /\ UNCHANGED <<req, orders, world, late, mishaps>>

ReconcileClear ==
  /\ loop.pc = "clear"
  /\ ClearCartItems(loop.cur, NoRequest)
  /\ IF loop.batch = {} THEN loop' = Idle
     ELSE \E k \in loop.batch : loop' = BeginRec(k, loop.batch \ {k})
  /\ UNCHANGED <<req, orders, kafka, mishaps>>

StartDelivery ==
  /\ loop.pc = "idle"
  /\ \E k \in Due : loop' = Begin(k, Due \ {k}, "deliver")
  /\ UNCHANGED <<req, orders, world, late, kafka, mishaps>>

DeliverCommit ==
  LET k == loop.cur IN
  /\ loop.pc = "deliver"
  /\ IF Conflict(k, loop.seen)
       THEN loop' = Idle /\ UNCHANGED orders
       ELSE /\ orders' = [orders EXCEPT ![k].delivered = TRUE]
            /\ loop' = LoopGoto("announce")
  /\ UNCHANGED <<req, world, late, kafka, mishaps>>

AnnounceDelivered ==
  /\ loop.pc = "announce"
  /\ Publish(loop.cur, "delivered")
  /\ IF loop.batch = {} THEN loop' = Idle
     ELSE \E k \in loop.batch : loop' = Begin(k, loop.batch \ {k}, "deliver")
  /\ UNCHANGED <<req, orders, world, late, mishaps>>

\* An exception ends the pass; the loop logs it and runs the next one.
AbortPass ==
  /\ "abort" \in Faults /\ mishaps < MaxMishaps
  /\ loop.pc \in {"fail", "tell", "deliver", "announce"}
  /\ loop' = Idle
  /\ mishaps' = mishaps + 1
  /\ UNCHANGED <<req, orders, world, late, kafka>>

Reconcile == \/ StartReconciliation \/ ReconcileRelease \/ ReconcileCommit
             \/ ReconcileAnnounce \/ ReconcileClear
Delivery  == StartDelivery \/ DeliverCommit \/ AnnounceDelivered

-----------------------------------------------------------------------------
(* The network, the broker and the process *)

\* A call whose caller gave up reaches its service after all.
ExecuteLate(c) ==
  /\ \/ c.op = "reserve" /\ DoReserve(c.key, c.line)
     \/ c.op = "release" /\ DoRelease(c.key, c.line)
     \/ c.op = "charge"  /\ \E o \in Payment!Outcomes : DoCharge(c.key, o)
     \/ c.op = "clear"   /\ DoClear(c.key)
  /\ late' = late \ {c}
  /\ UNCHANGED <<req, orders, loop, kafka, mishaps>>

\* It was lost on the way, refused, or its service failed before committing.
DropLate(c) ==
  /\ late' = late \ {c}
  /\ UNCHANGED <<req, orders, loop, world, kafka, mishaps>>

\* librdkafka delivers a message it still holds, or gives up on it: the
\* delivery report is only logged.
FlushUnsent(k, e) ==
  /\ topic' = [topic EXCEPT ![k] = Append(@, e)]
  /\ unsent' = [unsent EXCEPT ![k] = @ \ {e}]
  /\ UNCHANGED <<req, orders, loop, world, late, mishaps>>
ExpireUnsent(k, e) ==
  /\ unsent' = [unsent EXCEPT ![k] = @ \ {e}]
  /\ UNCHANGED <<req, orders, loop, world, late, topic, mishaps>>

\* The calls that are in progress: their service may have them already.
InProgress ==
  LET OpAt == [reserve |-> "reserve", undo |-> "release", charge |-> "charge", clear |-> "clear"]
      own  == {r \in Requests : req[r].pc \in DOMAIN OpAt}
      rec  == {"release", "clear"} \cap {loop.pc}
  IN {Call(OpAt[req[r].pc], KeyOf[r], IF req[r].pc \in {"charge", "clear"} THEN 0 ELSE req[r].line,
           r) : r \in own}
     \cup {Call(op, loop.cur, IF op = "clear" THEN 0 ELSE loop.line, NoRequest) : op \in rec}

\* The process dies and is started again: the database and the other services
\* keep what they have, every thread, the pass and the producer's queue go.
Crash ==
  /\ "crash" \in Faults /\ mishaps < MaxMishaps
  /\ req' = [r \in Requests |-> IF req[r].pc \in {"idle", "done", "dead"} THEN req[r]
                                ELSE [Fresh EXCEPT !.pc = "dead"]]
  /\ loop' = Idle
  /\ late' = late \cup InProgress
  /\ unsent' = [k \in Keys |-> {}]
  /\ mishaps' = mishaps + 1
  /\ UNCHANGED <<orders, world, topic>>

Next ==
  \/ \E r \in Requests : Lookup(r) \/ Work(r) \/ Abort(r)
  \/ Reconcile \/ Delivery \/ AbortPass
  \/ \E c \in late : ExecuteLate(c) \/ DropLate(c)
  \/ \E k \in Keys : \E e \in unsent[k] : FlushUnsent(k, e) \/ ExpireUnsent(k, e)
  \/ Crash

Spec == Init /\ [][Next]_vars

\* A thread that started keeps running (every call has a time limit) and each
\* pass is started again on its interval.  No client has to call, and nothing
\* makes a lost call or an unsent message arrive.
Fairness == /\ \A r \in Requests : WF_vars(Work(r))
            /\ WF_vars(Reconcile)
            /\ WF_vars(Delivery)

FairSpec == Spec /\ Fairness

-----------------------------------------------------------------------------
(* Properties *)

Items(k)   == IF orders[k].by = NoRequest THEN {} ELSE 1..Size(orders[k].by)
Decided(k) == orders[k].status \in {"PAID", "FAILED"}

\* Every variable keeps the shape the tables, locals and queues have; stock,
\* above all, never goes below zero.
ReqOK    == req \in [Requests -> RequestState]
OrdersOK == orders \in [Keys -> Row]
LoopOK   == loop \in LoopState
WorldOK  == /\ stock \in [Products -> Nat]
            /\ pay \in [Keys -> {"none"} \cup Payment!Outcomes]
            /\ held \in [Keys -> [LineNos -> Int]]
            /\ cleared \subseteq Keys
LateOK   == late \subseteq Calls
KafkaOK  == /\ topic \in [Keys -> Seq(Events)]
            /\ unsent \in [Keys -> SUBSET Events]
TypeOK   == /\ ReqOK /\ OrdersOK /\ LoopOK /\ WorldOK /\ LateOK /\ KafkaOK
            /\ mishaps \in 0..MaxMishaps

\* No order is PAID unless payment-service settled its key as charged: the
\* saga commits PAID only after an answer of 200 (orders.py:159-189).
PaidMeansCharged == \A k \in Keys : orders[k].status = "PAID" => pay[k] = "charged"

\* A PAID order holds the stock of every one of its lines, exactly once:
\* neither a retry, nor the reconciliation pass, nor a call that arrives late
\* takes it away or takes it twice.
PaidHoldsStock ==
  \A k \in Keys : orders[k].status = "PAID" => \A l \in Items(k) : held[k][l] = 1

\* No overselling, seen from the orders table: the PAID orders never add up to
\* more of a product than there was.
Asked(k, l, p) == IF l \in Items(k) /\ Item(k, l).prod = p THEN Item(k, l).qty ELSE 0
Sold(p) == SumFunction([i \in Keys \X LineNos |->
                          IF orders[i[1]].status = "PAID" THEN Asked(i[1], i[2], p) ELSE 0])
NoOverselling == \A p \in Products : Sold(p) <= InitStock[p]

\* Compensation never gives back more than was reserved: a line is released
\* at most once by the saga and the reconciliation pass together.
NeverOverCredited == \A k \in Keys, l \in LineNos : held[k][l] >= 0

\* A FAILED order has returned all the stock it had reserved.
FailedReturnsStock ==
  \A k \in Keys : orders[k].status = "FAILED" => \A l \in Items(k) : held[k][l] = 0

\* The customer of a FAILED order has not been charged for it.
FailedNotCharged == \A k \in Keys : orders[k].status = "FAILED" => pay[k] # "charged"

\* The items of a checkout leave the cart only once its outcome is committed
\* (a clear before that would lose the cart of a customer who must retry).
ClearedAfterDecision == \A k \in cleared : Decided(k)

\* What the topic, or the producer's queue, says of an order is what the table
\* says: both outcomes are never announced for one order, and delivery is
\* announced for a PAID order only.
EventsTruthful ==
  \A k \in Keys :
    \A e \in unsent[k] \cup {topic[k][i] : i \in DOMAIN topic[k]} :
      /\ e = "paid" => orders[k].status = "PAID"
      /\ e = "failed" => orders[k].status = "FAILED"
      /\ e = "delivered" => orders[k].status = "PAID" /\ orders[k].delivered

\* Per order, the topic carries each event at most once and in the order
\* created, outcome, delivered; a crash may leave a gap, nothing else.
Stage(e) == CASE e = "created" -> 1 [] e \in {"paid", "failed"} -> 2 [] e = "delivered" -> 3
TopicInOrder ==
  \A k \in Keys : \A i, j \in DOMAIN topic[k] : i < j => Stage(topic[k][i]) < Stage(topic[k][j])

\* Read through the status and delivered columns, the service is the order
\* lifecycle it promises: opened once, decided once, delivered once if paid.
Phase == [k \in Keys |->
            CASE orders[k].status = "NONE"    -> "absent"
              [] orders[k].status = "PENDING" -> "pending"
              [] orders[k].status = "FAILED"  -> "failed"
              [] OTHER -> IF orders[k].delivered THEN "delivered" ELSE "paid"]
Lifecycle == INSTANCE OrderLifecycle WITH phase <- Phase
LifecycleSpec == Lifecycle!Spec

\* An order whose stock_reserved was committed owes no stock once it FAILED,
\* whoever failed it and wherever crashes cut the releases short
\* (reconciliation.py:40-46).  It may have given back more: NeverOverCredited.
FlaggedReturnsStock ==
  \A k \in Keys : orders[k].status = "FAILED" /\ orders[k].flag =>
                    \A l \in Items(k) : held[k][l] <= 0

\* Without a crash or an exception nothing is given back twice, however calls
\* time out and arrive late (clients.py:67-92, reconciliation.py:40-46).
OverCreditNeedsMishap == mishaps = 0 => NeverOverCredited

\* No order stays PENDING: its saga ends it, or reconciliation does.
EveryOrderDecided == \A k \in Keys : orders[k].status = "PENDING" ~> Decided(k)

OnTopic(k, e) == \E i \in DOMAIN topic[k] : topic[k][i] = e

\* The outcome of every order, and its delivery, is eventually on the topic
\* (kafka_producer.py:3, "at-least-once delivery").
OutcomeAnnounced ==
  \A k \in Keys : /\ orders[k].status = "PAID" ~> OnTopic(k, "paid")
                  /\ orders[k].status = "FAILED" ~> OnTopic(k, "failed")
                  /\ orders[k].delivered ~> OnTopic(k, "delivered")

(* What documents say of the program, and what it does *)

\* "Its terminal state (PAID or FAILED), never a pending/async response"
\* (API_REFERENCE.md:243-244): no request is answered with a PENDING order.
NeverAnsweredPending == \A r \in Requests : req[r].answer # "PENDING"

\* "A flushed-before-response guarantee" (kafka_producer.py:3-6): when a request
\* answers for the order it decided, the outcome is on the topic.
AnsweredIsAnnounced ==
  \A r \in Requests : LET k == KeyOf[r] IN
    orders[k].by = r => /\ req[r].answer = "PAID" => OnTopic(k, "paid")
                        /\ req[r].answer = "FAILED" => OnTopic(k, "failed")

\* "Either had stock reserved (release it) or didn't (nothing to compensate)"
\* (reconciliation.py:3-4): a FAILED order keeps nothing reserved, whether its
\* stock_reserved was committed or not.
NothingLeftReserved ==
  \A k \in Keys : orders[k].status = "FAILED" => \A l \in Items(k) : held[k][l] <= 0
==============================================================================
