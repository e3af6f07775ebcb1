-------------------------- MODULE CheckoutInvariant --------------------------
(***************************************************************************)
(* The inductive invariants behind the safety theorems of CheckoutProofs   *)
(* and CheckoutStock, in named parts.  Ownership and Balance hold under    *)
(* every fault; the rest needs that no request outlives the reconciliation *)
(* cutoff ("slow" \notin Faults), and the last two that none times out.    *)
(***************************************************************************)
EXTENDS Checkout

Ordered(k) == orders[k].by \in Requests

\* A row carries the items of the request that inserted it, under its key.
RowsOwned == \A k \in Keys : /\ Ordered(k) <=> orders[k].status # "NONE"
                             /\ Ordered(k) => KeyOf[orders[k].by] = k

\* A saga works on the row its own insert made, so a key has at most one.
SagaOwnsRow == \A r \in Requests : req[r].pc \in SagaPcs \cup TailPcs => orders[KeyOf[r]].by = r

\* Every line number in use names an item.
LinesInRange == \A r \in Requests :
  /\ req[r].pc = "reserve" => req[r].line \in 1..Size(r)
  /\ req[r].pc = "undo" => req[r].upto \in 1..Size(r) /\ req[r].line \in 1..req[r].upto

LoopOnOrders ==
  /\ loop.pc = "idle" <=> loop.cur = NoKey
  /\ loop.pc = "idle" => loop.batch = {}
  /\ loop.pc # "idle" => \A k \in loop.batch \cup {loop.cur} : Ordered(k)
  /\ loop.pc = "release" => loop.line \in 1..Size(orders[loop.cur].by)

LateOnItems == \A c \in late :
  c.op \in {"reserve", "release"} => Ordered(c.key) /\ c.line \in 1..Size(orders[c.key].by)

Ownership == TypeOK /\ RowsOwned /\ SagaOwnsRow /\ LinesInRange /\ LoopOnOrders /\ LateOnItems

-----------------------------------------------------------------------------
\* Until its saga commits an outcome the order is PENDING.
SagaPending == \A r \in Requests : req[r].pc \in SagaPcs => orders[KeyOf[r]].status = "PENDING"

\* The passes work on orders no saga works on, and the one they work on has
\* the status they selected it for.
LoopAlone ==
  /\ loop.cur \notin loop.batch
  /\ \A k \in loop.batch \cup {loop.cur} : k \in Keys => ~Live(k)
  /\ loop.pc \in {"release", "fail", "tell", "clear"} =>
       \A k \in loop.batch : orders[k].status = "PENDING"
  /\ loop.pc \in {"release", "fail"} => orders[loop.cur].status = "PENDING"
  /\ loop.pc \in {"deliver", "announce"} =>
       \A k \in loop.batch \cup {loop.cur} : orders[k].status = "PAID"

\* No reserve or release of order k is still under way somewhere.
Quiet(k) == \A c \in late : c.key = k => c.op \notin {"reserve", "release"}

\* Where the saga of a request has not compensated anything yet.
Forward == {"created", "reserve", "flag", "reload", "charge", "pay"}

\* How far the saga has come with its n-th line.
Reserved(r, l) == CASE req[r].pc = "created" -> 0
                    [] req[r].pc = "reserve" -> IF l < req[r].line THEN 1 ELSE 0
                    [] OTHER -> 1

ForwardHolds == \A r \in Requests : req[r].pc \in Forward =>
  /\ Quiet(KeyOf[r])
  /\ \A l \in 1..Size(r) : held[KeyOf[r]][l] = Reserved(r, l)
  /\ req[r].pc = "pay" => pay[KeyOf[r]] = "charged"

Untouched == \A k \in Keys : ~Ordered(k) => Quiet(k) /\ \A l \in LineNos : held[k][l] = 0

PaidQuiet == \A k \in Keys : orders[k].status = "PAID" => Quiet(k)

Progress == /\ SagaPending /\ LoopAlone /\ ForwardHolds /\ Untouched /\ PaidQuiet
            /\ PaidMeansCharged /\ PaidHoldsStock

IInv == Ownership /\ Progress

-----------------------------------------------------------------------------
(* The stock that orders hold, and what FAILED orders have given back *)

\* What there was of a product is in stock or held for the lines of orders:
\* whatever is lost, repeated or late, stock is neither made nor destroyed
\* without a line of an order that accounts for it (clients.py:48-92).
Share(i, p) == held[i[1]][i[2]] * Asked(i[1], i[2], p)
Taken(p) == SumFunction([i \in Keys \X LineNos |-> Share(i, p)])
Balance  == \A p \in Products : stock[p] + Taken(p) = InitStock[p]

LateRelease(k, l) == \E c \in late : c.op = "release" /\ c.key = k /\ c.line = l

\* As long as no process died and no exception was raised, the saga of every
\* PENDING order is still running on the row it read, ...
StillRunning ==
  /\ \A k \in Keys : orders[k].status = "PENDING" => req[orders[k].by].pc \in SagaPcs
  /\ \A r \in Requests : req[r].pc \in SagaPcs \ {"created", "reload"} =>
                          req[r].seen = orders[KeyOf[r]]
  /\ loop.pc \in {"idle", "deliver", "announce"}

\* ... each line is released by that saga alone, and only if it was reserved.
ReleasedOnce ==
  /\ \A c \in late : c.op = "release" => c.from = orders[c.key].by /\ c.at = 0
  /\ \A k \in Keys, l \in LineNos :
       held[k][l] >= 0 /\ (LateRelease(k, l) => held[k][l] >= 1)
  /\ \A r \in Requests : req[r].pc = "undo" =>
       \A l \in req[r].line..req[r].upto : held[KeyOf[r]][l] >= 1 /\ ~LateRelease(KeyOf[r], l)

Unhurt == mishaps = 0 => StillRunning /\ ReleasedOnce

\* As long as that, and without time-outs: a saga that compensates has released
\* exactly the lines it has passed, and only the saga of an order that is about
\* to be PAID has been told that it was charged.
Compensates ==
  /\ late = {}
  /\ \A r \in Requests : req[r].pc \in {"undo", "fail"} =>
       \A l \in 1..Size(r) :
         held[KeyOf[r]][l] =
           IF req[r].pc = "undo" /\ l \in req[r].line..req[r].upto THEN 1 ELSE 0
  /\ \A k \in Keys : pay[k] = "charged" =>
       Ordered(k) /\ (orders[k].status = "PAID" \/ req[orders[k].by].pc = "pay")
  /\ FailedReturnsStock

\* Without time-outs nothing is reserved any more for an order with the flag,
\* each of its lines is held at most once, ...
AtMost(k, n, S) == \A l \in S : held[k][l] <= n
FlagEndsReserves ==
  /\ \A r \in Requests : req[r].pc \in {"created", "reserve", "flag"} => ~orders[KeyOf[r]].flag
  /\ \A c \in late : c.op = "reserve" => ~orders[c.key].flag
  /\ \A k \in Keys : orders[k].flag => AtMost(k, 1, Items(k))

\* ... and the lines that its saga, or a pass, has passed are released.
FlaggedSagas ==
  \A r \in Requests : orders[KeyOf[r]].flag =>
    /\ req[r].pc = "undo" => req[r].upto = Size(r) /\ AtMost(KeyOf[r], 0, 1..(req[r].line - 1))
    /\ req[r].pc = "fail" => AtMost(KeyOf[r], 0, 1..Size(r))
FlaggedPass ==
  /\ loop.pc = "release" => orders[loop.cur].flag /\ AtMost(loop.cur, 0, 1..(loop.line - 1))
  /\ loop.pc = "fail" /\ orders[loop.cur].flag => AtMost(loop.cur, 0, Items(loop.cur))

FlagHonest == FlagEndsReserves /\ FlaggedSagas /\ FlaggedPass /\ FlaggedReturnsStock
==============================================================================
