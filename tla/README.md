# Verification of the ecommerce services

TLA+ models of the services under `src/services/`, TLC runs over small
instances, and proofs checked by TLAPS. The code is the reference: every
definition that models it is listed with its lines in `PROJECT.json` under
`map`. Where the code and its documents disagree, the model follows the code and
a run shows the difference (`findings`).

## The system

Seven FastAPI services, each a single container, with MariaDB (auth, catalog,
order), Redis (auth, cart, catalog, payment), MongoDB (review) and one Kafka
topic, `order-events`, of three partitions keyed by order.

| Component | State | Operations | Talks to |
| --- | --- | --- | --- |
| order-service, saga (`routers/orders.py`) | `orders`, `order_items` | `POST /orders`: look up the key, insert PENDING, reserve each line, commit `stock_reserved`, charge, commit PAID, or release and commit FAILED | catalog, payment, cart over HTTP, 3 s per phase of a call; Kafka |
| order-service, reconciliation (`reconciliation.py`) | same tables | each 30 s: PENDING orders older than 60 s are released and failed | catalog, cart, Kafka |
| order-service, delivery (`delivery_simulator.py`) | same tables | PAID orders not touched for 30 s are marked delivered | Kafka |
| order-service, producer (`kafka_producer.py`) | librdkafka's queue | produce, `flush(5)` | Kafka |
| catalog-service, stock (`routers/catalog.py`) | `products` | reserve (SELECT FOR UPDATE, check, UPDATE, commit), release | called by order-service |
| catalog-service, cache (`cache.py`) | Redis `product:<id>`, `products:list:...` | cache-aside reads, delete after a write, 60 s to live | |
| payment-service (`routers/payments.py`) | Redis `idempotency:<key>` | charge: claim with SET NX, process, store; poll a claim of another call; GET; an unsafe mode | called by order-service |
| cart-service (`routers/cart.py`, `abandonment.py`) | Redis hash per user | add, remove, batch removal, abandonment scan | catalog; called by order-service |
| review-service (`consumer.py`, `routers/reviews.py`) | MongoDB eligibility, reviews | consume `order.delivered`; create a review | Kafka |
| notification-service (`consumer.py`) | consumer offsets | consume every event, notify | Kafka |
| auth-service (`routers/auth.py`, `keys.py`) | `users`, `refresh_tokens`, Redis blacklist, key files | register, login, refresh, logout, JWKS | |
| shared (`gestalt_shared`) | JWKS cache | verify tokens, internal caller check, logging, metrics | auth |

What is hard here is the saga: no transaction spans the services. Every commit,
call and publication is a point where another request, a pass or a crash can
come in; a call that timed out may still be executed; the passes work on rows
they read some time ago; a retry with the same key runs next to the original.
Behind it, catalog-service must serialise writers of one row and keep a cache
that is filled and deleted by concurrent threads, and payment-service must
process a key once with nothing but Redis commands.

What makes each part correct:

* saga and passes: an order is decided once and stays so; PAID means charged and
  holding its stock; FAILED gave everything back; PAID orders never exceed the
  stock; every order is decided; events and answers agree with the table;
* catalog: reserve and release are atomic, stock is never negative, the cached
  entry of a product is stale only by a deletion that is due or failed, or by a
  reader that overlapped the write;
* payment: one charge per key and one answer for all its calls, every call ends;
* cart: removed items stay removed, carts left alone are counted, once and before
  they expire, and vanish;
* consumers: every event is handled or in the dead-letter topic, none is given up
  early, handling twice is harmless; who reviews has bought, and once;
* auth: a refresh token is exchanged once, a revoked one never; the signing key
  survives restarts, and other services verify while auth-service is down.

## Modules

| Module | What it is |
| --- | --- |
| `StockLedger` | abstract: stock changed by one-step reserve, refuse and release |
| `ChargeOnce` | abstract: a register per key that settles once |
| `OrderLifecycle` | abstract: absent, pending, then failed or paid, then delivered |
| `Checkout` | order-service: saga, passes, producer, calls; uses `StockLedger` and `ChargeOnce` for the other services and implements `OrderLifecycle` |
| `Payment` | payment-service; implements `ChargeOnce` |
| `Catalog` | catalog-service; implements `StockLedger` |
| `Cart` | cart-service: one user's cart, and the abandonment scan |
| `Events` | the consumers of notification-service and review-service, and `POST /reviews` |
| `Auth` | auth-service: accounts, refresh tokens, key files; the key cache of another service |
| `CheckoutInvariant` | the inductive invariants of `Checkout` |
| `CheckoutProofs`, `CheckoutStock`, `CheckoutLifecycle`, `PaymentProofs`, `CatalogProofs`, `CartProofs`, `EventsProofs`, `AuthProofs` | theorems and proofs |
| `MCCheckout`, `MCPayment`, `MCCatalog`, `MCCart`, `MCEvents`, `MCAuth` | the instances TLC checks |

`Checkout` is thus checked against what the two services promise, and each
service is shown to keep the promise, by TLC and by proof. `Cart`, `Events` and
`Auth` stand alone: `Checkout` needs of the cart that its batch removal is
idempotent, the topic of `Events` is a constant with any content, and no other
model looks at tokens. A definition under a comment that begins "Mutant" is a bug
a property must catch; it is used by no specification.

### Checkout

A request is a server thread. Its program counter names the next step of
`create_order`; a step is the code between two points where somebody else can
act.

| Action | Code |
| --- | --- |
| `Lookup`, `Reject`, `Insert` | the lookup of the key; the early errors (nothing is persisted before the insert); the commit of the PENDING row, or the `IntegrityError` branch |
| `AnnounceCreated` | `order.created`, and the reload of the row the commit expired |
| `ReserveLine`, `ReserveRefused`, `ReserveLost` | a reserve answered 200, answered 409, not answered |
| `SetStockReserved`, `Reload` | the commit of the flag; reading the row again |
| `Charge`, `ChargeLost` | 200 or 402; no usable answer |
| `ReleaseLine`, `CommitFailed`, `CommitPaid` | compensation and the two commits |
| `AnnounceOutcome`, `ClearCart` | publication, batch removal, answer |
| `Abort` | a database or broker exception: the client gets a 500 |
| `StartReconciliation`, `ReconcileRelease`, `ReconcileCommit`, `ReconcileAnnounce`, `ReconcileClear` | `reconciliation.run_pass` |
| `StartDelivery`, `DeliverCommit`, `AnnounceDelivered` | `delivery_simulator.run_pass` |
| `AbortPass` | an exception in a pass; the loop goes on |
| `ExecuteLate`, `DropLate` | a call whose caller gave up is executed, or never is |
| `FlushUnsent`, `ExpireUnsent` | what librdkafka does with a message `flush(5)` left |
| `Crash` | the process dies and starts again; calls in progress become late calls |

`orders[k]` is the row of idempotency key `k` (`flag` is `stock_reserved`, `by`
the request that inserted it, whose items are the order's). `seen` is the row as
the session read it. MariaDB 11 has `innodb_snapshot_isolation` on: a session
that updates a row changed since it read it gets an error (`Conflict`); the
constant `SnapshotIsolation` says so. `held` and `cleared` are history: reserves
minus releases executed per line, and the orders whose items left the cart.

Both passes run synchronously on one event loop, so they interleave with
requests and not with each other; `loop` is the pass that is running. Time is
abstract: `Overdue` says a row is old enough once its request is over. That is
the intent of the 60 s and 30 s cutoffs; the fault `"slow"` drops it, because
the 3 s of httpx limit each phase of a call and not a request of many lines.

Faults are a constant: `"timeout"`, `"crash"`, `"abort"`, `"outage"`, `"slow"`.
`MaxMishaps` bounds crashes and aborts, `MaxLine` the items of a request.

### Payment

A call is a server thread, an action one Redis command: `Claim` (SET NX),
`Process` (`_process_charge`, history `processed`), `Store`, `Poll`, `GiveUp`,
`GetResult`, and for the unsafe mode `Lookup`. `RedisFails`, `Expire` and
`Crash` are the environment. `Attempts` is 2 for the code's 10 polls: one poll
that finds the claim, one more, and giving up are all the cases.

### Catalog

A call is a server thread, an action one statement or Redis command. `lock` is
the row lock, held to the commit or rollback; what a transaction wrote is in its
call's `new` until `Commit`. The UPDATE of a release takes the lock itself and the
SELECT after it reads what it wrote, so both are `UpdateRow`. A cache entry is
empty or a set of one snapshot. `Invalidate` deletes the entry of the product and
leaves the pages of the list, as the code does. `Expire` is the time to live,
`RollBack` a statement that fails. The history `late` names, for each product, the
calls that can leave its entry behind the last commit: the writer until its
deletion, and the readers that had queried before the commit and not yet filled the
cache. A deletion or an expiry takes out all but those readers.

### Cart

A call is a server thread, an action one Redis command or the one request to
catalog-service.

| Action | Code |
| --- | --- |
| `AskCatalog`, `ReadQuantity`, `WriteQuantity` | `add_item`: price and stock, or a 404, 502 or 503; HGET and the comparison; HSET of the sum |
| `RemoveField`, `LookForItems` | `remove_item`: HDEL; HKEYS, and no touch of a cart without items |
| `ReadPresent`, `DeletePresent` | `batch_remove_items`: HMGET, HDEL of what was present |
| `Stamp`, `Unflag`, `SetExpiry` | the three commands of `touch_cart` |
| `Wake`, `CountCart`, `SkipCart`, `FlagCart`, `ScanFails` | `abandonment.run_pass` and its loop: the snapshot and the count, or nothing to do; the flag; an HGETALL or HSET that fails |
| `GrowOld`, `RunOut`, `Expire` | 30 minutes and 24 hours without a write; Redis drops the key |
| `RedisFails`, `Crash` | a failing command (500); the process dies, Redis stays |

`cart` is the hash with its metadata fields; as in Redis it disappears, with its
time to live, with its last field, and an HSET brings back a hash without one.
`idle` and `added` are history. A pass takes one cart: others do not concern it.

The time to live is `"set"` by EXPIRE and not over before it was `"ending"` and
`"due"`. It is ending once a pass has read the cart as old (`Later`), because its
24 hours outlast the 30 minutes of the threshold by hundreds of passes, or once a
later write stamped the cart anew, which need not live to send its own EXPIRE. So
expiry is no way out of `AbandonedIsCounted`: what Redis drops was counted, unless a
write died before its EXPIRE or has yet to send it. A flag that is wrong
(`misflagged`: a pass wrote it after the touch, or the touch died before its HDEL)
exempts a cart.

### Events

Both consumers run one loop; the constant `Groups` says which of them is there.
The thread of a group is at `poll`, in `handle_event`, about to commit, in the
except clause, in `flush(5)`, about to commit past a dead letter, or ended.

| Action | Code |
| --- | --- |
| `Take` | `poll` returns the next message of a partition |
| `Reject`, `Upsert`, `UpsertFails`, `Handled` | `handle_event` raises on a malformed message, writes one product of an `order.delivered` (review-service), fails to, returns |
| `Commit`, `CommitFails` | the commit after it, which may have reached the broker though it raises |
| `SeekBack` | an attempt that is not the last: count, seek |
| `SendToDlq`, `Flush`, `FlushTimesOut`, `CommitPast` | the last attempt: count, produce, `flush(5)`, commit |
| `ThreadEnds` | an exception in the except clause: the daemon thread ends, the service stays up |
| `Deliver`, `DeliveryExpires` | librdkafka sends a queued dead letter, or gives it up |
| `FindEligible`, `InsertReview`, `MarkReviewed`, `CallFails` | the three commands of `create_review`, or an error in one |
| `Crash` | a service restarts: from the committed offsets, without retry counts and queue |

`pos` is the position of the consumer in each partition, `tries` the entry of
`retry_counts` for the message there. Entries of earlier messages are gone: they
are popped when the message is passed. The thread of review-service writes what
`POST /reviews` reads (`elig`); notification-service's writes nothing. `done` and
`failed` are history: messages whose handler returned, and how often handling or
committing a message failed.

### Auth

A call is a server thread, an action one Redis command, one transaction, or the
read that begins one; all calls concern one e-mail address, and a token is named
by the call that issued it.

| Action | Code |
| --- | --- |
| `FindUser`, `InsertUser` | `register`: the select; the insert, or the unique index's error |
| `CheckPassword`, `IssueTokens` | `login`, `_issue_tokens` |
| `CheckBlacklist`, `VerifyOwn` | the first step of `refresh`, of `logout` |
| `ReadRow`, `AddToBlacklist`, `CommitRevoked` | both: the row, SET of the blacklist, the commit; then `refresh` issues tokens |
| `Forget` | Redis drops a blacklist entry: its time is over, or Redis restarted |
| `Load`, `OpenPrivate`, `WritePrivate`, `OpenPublic`, `WritePublic` | `KeyMaterial`, `_generate`: each file is created empty, then written |
| `Verify`, `GrowStale`, `Restart` | `get_key` and `_refresh` in another service; 300 s pass; that service restarts |
| `CallFails`, `Crash` | a failing command or transaction; auth-service dies |

A session that updates a row revoked since it read it gets an error
(`Conflicts`), as in `Checkout`. That a row may have expired is a choice in
`ReadRow`.

## Runs

`tlc -workers 2 -config <run>.cfg <module>`; the module is the `MC` module of
the component. Deadlock checking is off everywhere: when every
request is answered and the passes find nothing the system rightly rests.

| Run | Instance and faults | Shows |
| --- | --- | --- |
| `checkout_retry` | an order of two lines, its retry, a competing order; stock 1 and 1; no faults; fair | no overselling, FAILED returned its stock and was not charged, topic in order, every outcome is announced |
| `checkout_crash` | two orders; two crashes or exceptions; fair | events are truthful, a failed order that had `stock_reserved` gave back everything, `OrderLifecycle` is implemented; every order is decided |
| `checkout_faults` | one order of two lines of one product and its retry; time-outs, crashes, exceptions, outage | the inductive invariant, PAID means charged and holding stock, stock is given back twice only after a crash or an exception, the cart is cleared after the decision |
| `payment_safe` | three charges and a GET of one key, a charge of another; Redis failures, crashes; fair | charged once, one answer, `ChargeOnce` is implemented, calls end |
| `payment_unsafe` | the same in the unsafe mode, with expiry | no charge starts after an answer until the record expires |
| `catalog` | two reserves of p1 that do not fit together, a release one of them waits for, a reader, a call for a missing product; every fault; fair | stock never negative, `StockLedger` is implemented, refusals are justified, calls end; the entry of a product is stale only by a deletion that is due or failed, or by a reader that overlapped the write |
| `cart_ops` | two adds of p1 that exceed the stock together, its removal, the batch removal of p1 and p2; failing commands, crashes; fair | removed items come back only through an add that overlapped; a cart left alone is counted, once and before it expires, and vanishes unless a call was cut short |
| `events` | review-service; a malformed message, a delivery of two products and a second delivery of one of them on two partitions; two reviews; three faults; two attempts; fair | no message is skipped or given up early, what was delivered can be reviewed, by purchasers only, and a used review is not given back by redelivery; every message arrives |
| `auth` | two registrations, a login, two refreshes and a logout with its token, two uses of its access token; two faults | a token is exchanged once and not after it was revoked, though the blacklist is lost; the key outlives restarts at any byte; verification goes on |

Each of the following runs finds its property violated: a document, comment or
docstring says it and the code does otherwise (`findings`).

| Run | What happens |
| --- | --- |
| `checkout_overcredit` | a crash between releases and their commit: the lines are released twice |
| `catalog_list` | a page of the list is cached, a release commits, deletes the entry of the product and answers; the page shows the old stock |
| `events_dropped` | `flush(5)` times out, the offset is committed all the same, and the queued dead letter is lost with the process |

Seven more claims fail in the same way. Their configurations are kept beside the
runs; `tlc -config <name>.cfg <MC module>` prints the trace.

| Configuration | Property | The document | What the code does |
| --- | --- | --- | --- |
| `checkout_pending` | `NeverAnsweredPending` | `API_REFERENCE.md:243-244`: "`201`, always", "never a pending/async response" | a retry that overlaps its first request is answered with its order, PENDING (`orders.py:59-65`) |
| `checkout_unflushed` | `AnsweredIsAnnounced` | `order-service/app/kafka_producer.py:5`: "flushed-before-response guarantee" | in an outage `flush(5)` gives up, and the request answers with its event queued |
| `checkout_unannounced` | `OutcomeAnnounced` | `order-service/app/kafka_producer.py:3`: "at-least-once delivery" | a crash between the commit of an outcome and its publication: no pass publishes it |
| `checkout_leftover` | `NothingLeftReserved` | `reconciliation.py:3-4`: "either had stock reserved (release it) or didn't (nothing to compensate)" | a crash after a reserve, before `stock_reserved` is committed: the order is failed, the line stays reserved |
| `catalog_drift` | `NoDrift` | `catalog-service/app/cache.py:3-5`: "avoids the class of bugs where cache and DB drift apart under concurrent writes" | a reader queries, a release commits and deletes the entry, the reader fills it with the old row |
| `cart_lost_add` | `AddsIncrement` | `API_REFERENCE.md:187-188`: "Repeated adds of the same product **increment** the existing quantity" | two adds read the same quantity; the second HSET overwrites the first |
| `events_reviewed_twice` | `ReviewedAtMostOnce` | `API_REFERENCE.md:342-343`: "A second review for the same product: also `403 NOT_ELIGIBLE`" | two reviews of one purchase both find it not reviewed, and both are written |

The models show more that a reader may not expect, as the trace of a mutant, under a
fault that a run leaves out, or as an exemption a property states:

* without the cutoff (mutant `NoCutoff`, or the fault `"slow"`) a live order is
  reconciled and then PAID, and its stock is sold twice;
* a reserve that timed out and is executed late leaves its stock reserved, and a
  charge whose answer is lost is not refunded when the order FAILED: what holds all
  the same is `PaidHoldsStock`, `FlaggedReturnsStock` and `PaidMeansCharged`, and
  `FailedNotCharged` takes that nothing but the broker fails;
* a batch removal takes items added since the order, and a cart touched between the
  snapshot of a pass and its flag is flagged though active;
* a refresh that fails between its two transactions leaves the user without a token.

**Bounds.** Two lines are needed for a partial reservation and suffice: lines are
handled one by one. A retry and a competitor are needed for the two races there
are, on the key and on the stock; stock one makes them conflict. One product with
two lines covers items that repeat a product, as requests may. Two mishaps are a
crash and a second one during the recovery from it. In Catalog, reserves
of 3 and 1 and a release of 1 against stock 2 make success depend on the order; one
reader is enough to overlap each of them. Rows are independent, so all write p1, and
the list, whose pages no write touches, is read in `catalog_list` only.
In Cart, stock 2 admits either add and not both after one another. In Events, two
attempts have a first and a last one, two partitions let a retry wait while another
partition goes on, and three faults are a failed upsert, a crash during the retry and
one more. The two groups share neither offsets nor, as notification-service writes
none, eligibility, so the run has the one that does more; `events_dropped` has both,
with one attempt. In Auth, two refreshes and a logout are every pair of calls that
race for a token, and two uses are one before and one after a fault.

**Fairness.** Weak fairness of a request that was started: its thread runs and
every call it makes has a time limit. Weak fairness of each pass: the loop runs it
again on its interval. Weak fairness of a thread in Payment and Catalog. No client has to call, no lost call
has to arrive, no unsent message has to be sent, no crash has to happen. In Cart a
call that arrived goes on, the pass wakes on its interval, time passes; and the read
of a pass is strongly fair, because the loop catches what a pass raises and starts
the next one after 5 minutes, so that of the passes of 24 hours one reads the cart
unless Redis is out of reach all that time. In Events
the thread and librdkafka go on; nobody has to review. In Auth nothing is assumed.
MariaDB may grant a free row lock to any waiter; every call runs one transaction,
so none is overtaken for ever.

## Proofs

`tlapm <module>.tla`. Each theorem is for every set of requests or calls,
products, items and stock, every finite set of keys and any number of mishaps.

| Theorem | Statement | Assumes |
| --- | --- | --- |
| `CheckoutProofs!TypeCorrect` | `TypeOK`: shapes, and stock never negative | - |
| `CheckoutProofs!OwnershipInvariant` | `Ownership`: a row belongs to the request that inserted it, one saga per key, lines in range | - |
| `CheckoutProofs!InductiveInvariant` | `IInv` | no `"slow"` |
| `CheckoutProofs!PaidOrdersAreCharged` | `PaidMeansCharged` | no `"slow"` |
| `CheckoutProofs!PaidOrdersHoldStock` | `PaidHoldsStock` | no `"slow"` |
| `CheckoutStock!StockBalances` | `Balance`: stock plus what orders hold is what there was | - |
| `CheckoutStock!UntilAMishap`, `OverCreditTakesMishap` | `Unhurt`, `OverCreditNeedsMishap`: before the first crash or exception each line is released once, by its own saga | no `"slow"` |
| `CheckoutStock!NothingOversoldUntilAMishap` | `mishaps = 0 => NoOverselling` | no `"slow"` |
| `CheckoutStock!NothingIsOversold` | `NoOverselling` | no `"slow"`, `"crash"`, `"abort"` |
| `CheckoutStock!CompensationUntilAMishap` | `mishaps = 0 => Compensates`: compensation is exact | no `"slow"`, `"timeout"` |
| `CheckoutStock!FailedOrdersReturnStock`, `FailedOrdersNotCharged` | `FailedReturnsStock`, `FailedNotCharged` | at most `"outage"` |
| `CheckoutStock!FlaggedOrdersReturnStock` | `FlaggedReturnsStock` | no `"slow"`, `"timeout"` |
| `CheckoutLifecycle!ImplementsLifecycle` | `LifecycleSpec`: order-service implements `OrderLifecycle` | no `"slow"` |
| `CheckoutLifecycle!OnlyTruthIsTold`, `ClearedOnceDecided` | `EventsTruthful`, `ClearedAfterDecision` | no `"slow"` |
| `CheckoutLifecycle!EventsFollow` | `TopicInOrder` | no `"slow"`, no `"outage"` |
| `PaymentProofs!ChargedOnce`, `OneAnswer` | `ProcessedOnce`, `AnswersAgree` | safe mode, no expiry |
| `PaymentProofs!ImplementsChargeOnce` | `ChargeOnceSpec` | safe mode, no expiry |
| `PaymentProofs!AnsweredNotRecharged` | `NoChargeAfterAnswer` | - |
| `CatalogProofs!StockNeverNegative` | `TypeOK` | - |
| `CatalogProofs!AnsweredStock` | `RemainingTrue` | - |
| `CatalogProofs!ImplementsLedger` | `LedgerSpec` | - |
| `CatalogProofs!RefusalsJustified` | `RefusedOnlyWhenShort` | - |
| `CatalogProofs!StaleHasCause` | `StaleOnlyIfLate` | - |
| `CartProofs!RemovedStaysRemoved`, `AbandonedOnce` | `NothingComesBack`, `CountedOnce` | - |
| `EventsProofs!TypeCorrect`, `EventsAccounted`, `LettersAreLast`, `DeliveredReviewable` | `TypeOK`, `NothingSkipped`, `LastResort`, `DeliveredIsReviewable` | - |
| `EventsProofs!PurchasersReview`, `ReviewedOnce` | `OnlyVerified`, `SecondReviewRefused` | - |
| `AuthProofs!TypeCorrect`, `KeysOutlive`, `AnsweredRevoked`, `RevokedStays`, `VerifiedStillVerified` | `TypeOK`, `KeyOutlivesRestarts`, `AnsweredIsRevoked`, `RevokedForGood`, `StillVerified` | - |
| `AuthProofs!TokensSingleUse` | `SingleUse` | snapshot isolation |

**Checkout.** `TypeOK` alone is not inductive: a line number in use must name an
item, so `Ownership` adds who owns a row and which numbers are in use, also in
calls a crash left behind. `PaidHoldsStock` needs to know that nothing can still
take the stock away. `Progress` says so: a saga that has not begun to compensate
holds exactly the lines it has passed (`ForwardHolds`) and no reserve or release
of its order is under way (`Quiet`), a pass works on orders no saga works on
(`LoopAlone`), a PAID order is quiet (`PaidQuiet`). A call becomes late only
when its saga gives up or dies, and from there on the order can only fail. This
argument breaks at once if a pass may work on a live order, hence the
assumption; mutant `NoCutoff` shows that it is needed. There is one lemma per
action for `Ownership` and one for `Progress`. The refinement adds that only a PAID order is delivered, and that every step
leaves the orders table or moves one row along the life cycle. So what is
decided stays decided, and it is enough that a saga or pass is right at the
moment it speaks (`SagasTrue`, `PassTrue`): a removal that is late, or a message
that librdkafka holds, remains true until it arrives (`OInv`). For the order of
the topic, what has been said of an order leaves `Room` for what its saga or a
pass is about to say, and a delivery pass works on orders that are `DueStill`.
With an outage a message that librdkafka holds may be overtaken, so the theorem
excludes one.

**Stock of Checkout.** `Balance` needs no more than `Ownership`, and that nothing
is held for a key without a row: every reserve and release moves the quantity of one
line between `stock` and `held`, and a row with something held keeps its lines. It
is a sum over all lines of all orders, of which the code allows any finite number
(`KeysAssumption`). The library's induction theorems cannot be used here, so
`OneByOne` gets induction over a finite set from the well-foundedness of its
strict-subset ordering, which the library proves; `SumUpdate` (one addend changes)
and `SumMonotonic` are all that is then needed of sums. No overselling follows in one
step from `Balance`, `PaidHoldsStock` and `held >= 0`.

That `held` is never negative is the hard part, because the saga and a pass both
release, and a release may arrive late. `Unhurt` says why it is true until the first
mishap: every PENDING order still has its saga at work on the row it read
(`StillRunning`), so no commit conflicts and reconciliation finds nothing; and a
line is released by that saga alone, which has called for it at most once
(`ReleasedOnce`: the lines it has yet to release are held and have no release under
way). After a mishap it is false: `checkout_overcredit`.

`Compensates` is the same for outcomes, where no call times out. A saga that
compensates holds exactly the lines from its current one to its last, and what is
charged belongs to the saga that is about to commit PAID. Both the hypotheses are
needed: a reserve or a charge that timed out may be executed after the order FAILED,
and an exception between the answer to the charge and the commit leaves an order that
reconciliation fails though it was charged.

`FlagHonest` survives crashes. Once `stock_reserved` is committed no reserve of the
order is in progress, so a crash cannot leave one behind (`FlagEndsReserves`); from
then on what is held of a line can only fall from one, and saga and pass go through
all lines before they commit FAILED (`FlaggedSagas`, `FlaggedPass`). They may fall
below zero, which is why the property says `<= 0`.

These three share one description of what a request can do to its order, one
operator for each kind of step (`Loads`, `Reserves`, `GivesUp`, `ReleasesOne`,
`SetsFlag`, `IsCharged`, `Commits`, `Conflicts`, `Opens`, `Idles`), and one lemma
that every action of a request is one of them (`RequestSteps`).

**Payment.** A key is processed only by the call that claimed it, and a claim is
only ever replaced by its result; so a call between claim and store is the only
one, and what it processed is the record or about to be. That an answered key is
not charged again needs no exclusion: `KInv` says that an answered outcome is on
record until the record expires, and that the unsafe mode never answers from a claim.

**Catalog.** A call between its SELECT and its commit holds the lock of its row,
so what it read is still the stock; each commit is then a `Reserve` or `Release`
of the ledger, each refusal a `Refuse`, anything else a stutter. For the cache, a
reader about to fill has the current rows or is in `late` (`FillsNew`), and who is in
`late` of a product is its writer after the commit or such a reader (`Roles`).

**Cart.** What an add is about to write is covered while what it read is
(`ReadsCovered`), and a deletion marks every add that has read. A cart that was
counted has the flag, or is about to (`Flagged`), except after an expiry between the
commands of a call: that call then takes the flag from a cart without a timestamp.
Such a cart, if it has items or was counted, is about to get a timestamp
(`StampComes`), which takes the count back, and no pass starts before that (`NoPass`).

**Events.** Nothing is skipped because a message is passed only from two places,
and at both it is accounted for (`Working`). That letters are last needs `Counted`:
the history of failures is never behind `retry_counts`, which a restart empties,
and is ahead of it while the except clause has not counted yet. `Reviewable` follows
a half-written delivery: what is not in `todo` any more is in the collection. For
reviews, `Verified` looks for the message behind a document; it needs that a restart
never goes back by more than the message in hand (`Near`), so that what was seen
stays seen. These proofs cover both groups and topics of any content.

**Auth.** Two refreshes that have both read the row as live are told apart by the
commit: a token in exchange has its row revoked (`TokenInv`), and with snapshot
isolation a second commit then conflicts. A refresh that began late finds the row revoked
whatever the blacklist says, because rows are never revived. For the key: a token is
signed only when both files exist, and then `_generate` never runs again.

Only model-checked: liveness (`EveryOrderDecided`, `OutcomeAnnounced`,
`EveryCallEnds`, `AbandonedIsCounted`, `LeftoversVanish`, `EveryEventArrives`), which
is beyond the prover, and the second part of `AbandonedIsCounted`, of what expires.
Every other safety invariant and action property that a passing run checks is a
theorem, under the assumptions of the table.

What the theorems about stock exclude they must: with `"crash"`, `"abort"` or
`"slow"` TLC finds `NoOverselling` violated, with each of these and `"timeout"`
`FailedReturnsStock` and `FailedNotCharged`, with `"slow"` or `"timeout"`
`FlaggedReturnsStock`, with `"slow"` `OverCreditNeedsMishap` (one order of one unit
on each of three keys, stock one, one mishap).

Only proved: the type invariants of `Checkout` (a
part of `IInv`), `Payment`, `Cart` and `Events`, `RemainingTrue`, and the invariants
`Balance`, `Unhurt`, `Compensates` and `FlagHonest`, which imply properties that are
checked and which TLC found to hold in the instances of the runs before they were
proved.

## Not modelled

* Prices and amounts: nothing but the charge depends on them.
* Internal caller checks, and the claims and lifetime of access tokens: models
  start behind them. Password hashes. Users are never deleted by the code.
* The webhook of notification-service: its failures are swallowed.
* Rebalances: each group has one consumer, which is assigned every partition.
* Time: the 60 s of the product cache and the 300 s of the key cache may be over at
  any moment; 30 minutes and 24 hours are steps that may happen while no call of Cart
  is between its commands (`Quiet`): calls last seconds. That a pass comes between
  the 30 minutes and the 24 hours is assumed (`Later`).
* Logging, metrics, health, request ids, error formats; the read-only GETs of
  order-service, the price lookup, `GET /cart`, checkout-intent and the list of
  reviews.
* A crash of MariaDB, Redis or Kafka that loses what they acknowledged.
* Idempotency keys beyond 64 characters or shared by two users.

## Plan

Done, in this order: the abstract specifications, `Checkout` with its runs and
proofs, `Payment`, `Catalog`, the three refinements; `Cart`, `Events`, `Auth`, and
their proofs.

Next, in order of importance:

1. `Checkout` with a `Cart` in place of its idempotent removal: what the removal
   takes that the order did not contain.
2. `Checkout`'s topic as the log of `Events`: from a delivered order to a review.
3. If the state space allows, the connection pool of order-service as a resource.
